--------------------------- MODULE TaskExecProofs ---------------------------
(***************************************************************************)
(* Proofs about TaskExec, for any set of requests and any bounds.          *)
(***************************************************************************)
EXTENDS TaskExec, SequenceTheorems, TLAPS

\* The requests for which no work was started.
Outside == {"idle"} \cup Refusals

\* The inductive strengthening: how the counters, the answer, the timer, the
\* worker and the history entry of one request hang together.
NothingStarted(t) ==
  /\ cbcount[t] = 0 /\ timer[t] = "unset" /\ status[t] = "none"
  /\ proc[t] = "none" /\ code[t] = "none" /\ ~term[t]
  /\ Len(out[t]) = 0 /\ t \notin children
  /\ sends[t] = IF resp[t] = "idle" THEN 0 ELSE 1

Counted(t) ==
  /\ cbcount[t] # 1
  /\ sends[t] = IF cbcount[t] = 0 THEN 0 ELSE 1
  /\ resp[t] = "pending" => cbcount[t] = 0

Watched(t) ==
  /\ resp[t] = "pending" => timer[t] = "armed" \/ reaped[t]
  /\ term[t] /\ resp[t] = "pending" => reaped[t]
  /\ code[t] = "zero" => term[t]

Recorded(t) ==
  /\ resp[t] = "ok" => status[t] # "active"
  /\ status[t] \in {"finished", "failed"} => resp[t] # "pending"

Followed(t) ==
  proc[t] \in Alive =>
    /\ t \in children
    /\ timer[t] = "armed" \/ term[t]
    /\ resp[t] = "pending" \/ term[t]

Consistent(t) ==
  /\ resp[t] \in Outside => NothingStarted(t)
  /\ resp[t] \notin Outside => Counted(t)
  /\ Watched(t) /\ Recorded(t) /\ Followed(t)

IInv == TypeOK /\ \A t \in Tasks : Consistent(t)

-----------------------------------------------------------------------------
\* The history the runner keeps never grows past maxHistory.
LEMMA RememberBounded ==
  ASSUME NEW h \in Seq(Tasks), Len(h) <= MaxHistory, NEW t \in Tasks
  PROVE  /\ Remember(h, t) \in Seq(Tasks)
         /\ Len(Remember(h, t)) <= MaxHistory
<1>1. CASE Len(h) < MaxHistory
  BY <1>1, TaskExecAssumption, AppendProperties DEF Remember
<1>2. CASE ~(Len(h) < MaxHistory)
  <2> DEFINE m == Len(h) - MaxHistory + 2
             cut == SubSeq(h, m, Len(h))
  <2>1. m \in Int /\ Len(h) \in Int /\ m >= 1
    BY TaskExecAssumption, <1>2
  <2>2. \A i \in m .. Len(h) : h[i] \in Tasks
    BY <2>1
  <2>3. cut \in Seq(Tasks) /\ Len(cut) = IF m <= Len(h) THEN Len(h) - m + 1 ELSE 0
    BY <2>1, <2>2, SubSeqProperties
  <2>4. Append(cut, t) \in Seq(Tasks) /\ Len(Append(cut, t)) = Len(cut) + 1
    BY <2>3, AppendProperties
  <2>5. Len(cut) + 1 <= MaxHistory
    BY <2>1, <2>3, TaskExecAssumption, <1>2
  <2> QED BY <1>2, <2>4, <2>5 DEF Remember
<1> QED BY <1>1, <1>2

\* What the agent has not read can be cut off a worker's messages.
LEMMA CutKeeps ==
  ASSUME NEW s \in Seq(Messages), NEW n \in 0 .. Len(s)
  PROVE  /\ SubSeq(s, 1, n) \in Seq(Messages)
         /\ Len(SubSeq(s, 1, n)) = n
         /\ \A i \in 1 .. n : SubSeq(s, 1, n)[i] = s[i]
<1>1. \A i \in 1 .. n : s[i] \in Messages
  OBVIOUS
<1> QED BY <1>1, SubSeqProperties

-----------------------------------------------------------------------------
LEMMA InitIInv == Init => IInv
<1> SUFFICES ASSUME Init PROVE IInv
  OBVIOUS
<1>1. <<>> \in Seq(Tasks) /\ <<>> \in Seq(Messages) /\ Len(<<>>) = 0
  OBVIOUS
<1>2. TypeOK
  <2>1. history \in Seq(Tasks) /\ Len(history) <= MaxHistory
    BY <1>1, TaskExecAssumption DEF Init
  <2>2. out \in [Tasks -> Seq(Messages)]
    BY <1>1 DEF Init
  <2>3. registered \in BOOLEAN /\ draining \in BOOLEAN
    BY DEF Init
  <2>4. /\ errored \in [Tasks -> BOOLEAN] /\ startSent \in [Tasks -> BOOLEAN]
        /\ term \in [Tasks -> BOOLEAN] /\ reaped \in [Tasks -> BOOLEAN]
    BY DEF Init
  <2>5. /\ children \in SUBSET Tasks /\ crashes \in Nat
        /\ sends \in [Tasks -> Nat] /\ cbcount \in [Tasks -> Nat]
        /\ got \in [Tasks -> Nat]
    BY DEF Init
  <2>6. /\ resp \in [Tasks -> {"idle", "pending", "hungUp", "lost"} \cup Answers]
        /\ timer \in [Tasks -> {"unset", "armed", "fired", "cleared"}]
        /\ status \in [Tasks -> {"none", "active", "finished", "failed"}]
        /\ proc \in [Tasks -> {"none", "exited"} \cup Alive]
        /\ code \in [Tasks -> {"none", "zero", "nonzero", "null"}]
    BY DEF Init
  <2>7. \A t \in Tasks : got[t] <= Len(out[t])
    BY <1>1 DEF Init
  <2> QED BY <2>1, <2>2, <2>3, <2>4, <2>5, <2>6, <2>7 DEF TypeOK
<1>3. ASSUME NEW t \in Tasks PROVE Consistent(t)
  <2>1. NothingStarted(t) /\ resp[t] = "idle"
    BY <1>1 DEF Init, NothingStarted
  <2>2. resp[t] \in Outside
    BY <2>1 DEF Outside
  <2>3. Watched(t) /\ Recorded(t) /\ Followed(t)
    BY <2>1 DEF NothingStarted, Watched, Recorded, Followed, Alive
  <2> QED BY <2>1, <2>2, <2>3 DEF Consistent
<1> QED BY <1>2, <1>3 DEF IInv

\* fcb() run twice: the count leaves 0 for good, and only then is the answer
\* written.
LEMMA ConcludeAnswers ==
  ASSUME NEW t \in Tasks, NEW failed \in BOOLEAN, TypeOK,
         resp[t] \notin Outside, Counted(t), Conclude(t, failed)
  PROVE  /\ cbcount' = [cbcount EXCEPT ![t] = cbcount[t] + 2]
         /\ sends' = [sends EXCEPT ![t] = 1]
         /\ resp[t] = "pending"
              => resp' = [resp EXCEPT ![t] = IF failed THEN "error" ELSE "ok"]
         /\ resp[t] # "pending" => resp' = resp
<1>1. cbcount[t] \in Nat /\ sends[t] \in Nat /\ cbcount[t] # 1
  BY DEF TypeOK, Counted
<1>2. CASE cbcount[t] = 0
  <2>1. ~AnswersAt(cbcount[t] + 1) /\ AnswersAt(cbcount[t] + 2)
    BY <1>2 DEF AnswersAt
  <2>2. sends[t] = 0
    BY <1>2 DEF Counted
  <2> QED BY <2>1, <2>2 DEF Conclude
<1>3. CASE cbcount[t] >= 2
  <2>1. ~AnswersAt(cbcount[t] + 1) /\ ~AnswersAt(cbcount[t] + 2)
    BY <1>1, <1>3 DEF AnswersAt
  <2>2. sends[t] = 1 /\ resp[t] # "pending"
    BY <1>1, <1>3 DEF Counted
  <2>3. resp' = resp
    BY <2>1, <2>2 DEF Conclude
  <2>4. sends' = sends
    BY <2>1, <1>1 DEF Conclude, TypeOK
  <2> QED BY <2>2, <2>3, <2>4 DEF Conclude, TypeOK
<1> QED BY <1>1, <1>2, <1>3
-----------------------------------------------------------------------------
(* Type correctness.                                                       *)

LEMMA ConcludeType ==
  ASSUME NEW t \in Tasks, NEW failed \in BOOLEAN, TypeOK, Conclude(t, failed)
  PROVE  /\ cbcount' \in [Tasks -> Nat] /\ sends' \in [Tasks -> Nat]
         /\ resp' \in [Tasks -> {"idle", "pending", "hungUp", "lost"} \cup Answers]
<1> DEFINE first  == AnswersAt(cbcount[t] + 1)
           second == AnswersAt(cbcount[t] + 2)
           more   == (IF first THEN 1 ELSE 0) + (IF second THEN 1 ELSE 0)
<1>1. more \in Nat
  OBVIOUS
<1>2. sends[t] + (IF first THEN 1 ELSE 0) + (IF second THEN 1 ELSE 0) \in Nat
  BY DEF TypeOK
<1>3. sends' \in [Tasks -> Nat]
  BY <1>2 DEF Conclude, TypeOK
<1>4. cbcount' \in [Tasks -> Nat]
  BY DEF Conclude, TypeOK
<1>5. (IF failed THEN "error" ELSE "ok") \in Answers
  BY DEF Answers
<1>6. resp' \in [Tasks -> {"idle", "pending", "hungUp", "lost"} \cup Answers]
  BY <1>5 DEF Conclude, TypeOK
<1> QED BY <1>3, <1>4, <1>6

LEMMA ServerType ==
  ASSUME TypeOK, SetupTaskRoutes \/ Pause \/ Resume \/ ReapChildren \/ AgentCrash
  PROVE  TypeOK'
<1>1. CASE SetupTaskRoutes
  BY <1>1 DEF SetupTaskRoutes, TypeOK, closureVars, workerVars
<1>2. CASE Pause
  BY <1>2 DEF Pause, TypeOK, closureVars, workerVars
<1>3. CASE Resume
  BY <1>3 DEF Resume, TypeOK, closureVars, workerVars
<1>4. CASE ReapChildren
  BY <1>4 DEF ReapChildren, TypeOK, closureVars, workerVars
<1>5. CASE AgentCrash
  <2>1. /\ out' \in [Tasks -> Seq(Messages)]
        /\ \A t \in Tasks : got'[t] <= Len(out'[t])
    <3>1. \A t \in Tasks : /\ SubSeq(out[t], 1, got[t]) \in Seq(Messages)
                           /\ Len(SubSeq(out[t], 1, got[t])) = got[t]
      BY CutKeeps DEF TypeOK
    <3> QED BY <1>5, <3>1 DEF AgentCrash, TypeOK
  <2>2. history' \in Seq(Tasks) /\ Len(history') <= MaxHistory
    BY <1>5, TaskExecAssumption DEF AgentCrash
  <2>3. /\ resp' \in [Tasks -> {"idle", "pending", "hungUp", "lost"} \cup Answers]
        /\ timer' \in [Tasks -> {"unset", "armed", "fired", "cleared"}]
    BY <1>5 DEF AgentCrash, TypeOK
  <2>4. /\ proc' \in [Tasks -> {"none", "exited"} \cup Alive]
        /\ code' \in [Tasks -> {"none", "zero", "nonzero", "null"}]
    BY <1>5 DEF AgentCrash, TypeOK
  <2>5. registered' \in BOOLEAN /\ draining' \in BOOLEAN /\ children' \in SUBSET Tasks
    BY <1>5 DEF AgentCrash
  <2>6. crashes' \in Nat
    <3>1. crashes \in Nat
      BY DEF TypeOK
    <3> QED BY <1>5, <3>1 DEF AgentCrash
  <2>7. UNCHANGED <<sends, cbcount, errored, startSent, status, term, got, reaped>>
    BY <1>5 DEF AgentCrash
  <2> QED BY <2>1, <2>2, <2>3, <2>4, <2>5, <2>6, <2>7 DEF TypeOK
<1> QED BY <1>1, <1>2, <1>3, <1>4, <1>5

LEMMA HandlerType ==
  ASSUME TypeOK, NEW t \in Tasks,
         (\E why \in Refusals : Refuse(t, why)) \/ Dispatch(t) \/ Handler(t)
  PROVE  TypeOK'
<1> USE DEF agentVars, closureVars, workerVars
<1>1. CASE \E why \in Refusals : Refuse(t, why)
  BY <1>1 DEF Refuse, TypeOK, Answers
<1>2. CASE Dispatch(t)
  <2>1. history' \in Seq(Tasks) /\ Len(history') <= MaxHistory
    BY <1>2, RememberBounded DEF Dispatch, TypeOK
  <2> QED BY <1>2, <2>1 DEF Dispatch, TypeOK, Alive
<1>3. CASE OnReady(t)
  BY <1>3 DEF OnReady, Receives, TypeOK
<1>4. CASE OnError(t)
  BY <1>4 DEF OnError, Receives, TypeOK
<1>5. CASE OnFinish(t)
  <2>1. errored[t] \in BOOLEAN
    BY DEF TypeOK
  <2>2. /\ cbcount' \in [Tasks -> Nat] /\ sends' \in [Tasks -> Nat]
        /\ resp' \in [Tasks -> {"idle", "pending", "hungUp", "lost"} \cup Answers]
    BY <1>5, <2>1, ConcludeType DEF OnFinish
  <2>3. /\ got' \in [Tasks -> Nat]
        /\ \A u \in Tasks : got'[u] <= Len(out'[u])
    BY <1>5 DEF OnFinish, Receives, TypeOK
  <2>4. /\ status' \in [Tasks -> {"none", "active", "finished", "failed"}]
        /\ term' \in [Tasks -> BOOLEAN]
    BY <1>5 DEF OnFinish, TypeOK
  <2> QED BY <1>5, <2>2, <2>3, <2>4 DEF OnFinish, Receives, TypeOK
<1>6. CASE OnNote(t)
  BY <1>6 DEF OnNote, Receives, TypeOK
<1>7. CASE OnTimeout(t)
  BY <1>7, ConcludeType DEF OnTimeout, TypeOK
<1>8. CASE OnExit(t)
  <2>1. CASE Unclean(code[t])
    BY <1>8, <2>1, ConcludeType DEF OnExit, TypeOK
  <2>2. CASE ~Unclean(code[t])
    BY <1>8, <2>2 DEF OnExit, TypeOK
  <2> QED BY <2>1, <2>2
<1>9. CASE ConnTimeout(t)
  BY <1>9 DEF ConnTimeout, TypeOK
<1> QED BY <1>1, <1>2, <1>3, <1>4, <1>5, <1>6, <1>7, <1>8, <1>9 DEF Handler

\* A worker says one thing more.
LEMMA SendsType ==
  ASSUME TypeOK, NEW t \in Tasks, NEW m \in Messages, Sends(t, m)
  PROVE  /\ out' = [out EXCEPT ![t] = Append(out[t], m)]
         /\ out' \in [Tasks -> Seq(Messages)]
         /\ \A u \in Tasks : got[u] <= Len(out'[u])
<1>1. out[t] \in Seq(Messages)
  BY DEF TypeOK
<1>2. /\ Append(out[t], m) \in Seq(Messages)
      /\ Len(Append(out[t], m)) = Len(out[t]) + 1
  BY <1>1, AppendProperties
<1> QED BY <1>1, <1>2 DEF Sends, TypeOK

\* A worker that dies takes only unread messages with it.
LEMMA DiesType ==
  ASSUME TypeOK, NEW t \in Tasks, NEW c \in {"zero", "nonzero", "null"}, Dies(t, c)
  PROVE  /\ out' \in [Tasks -> Seq(Messages)]
         /\ \A u \in Tasks : got[u] <= Len(out'[u])
         /\ \A u \in Tasks : \A i \in 1 .. got[u] : out'[u][i] = out[u][i]
<1>1. PICK n \in got[t] .. Len(out[t]) : out' = [out EXCEPT ![t] = SubSeq(out[t], 1, n)]
  BY DEF Dies
<1>2. n \in 0 .. Len(out[t]) /\ out[t] \in Seq(Messages) /\ got[t] \in 0 .. n
  BY DEF TypeOK
<1>3. /\ SubSeq(out[t], 1, n) \in Seq(Messages)
      /\ Len(SubSeq(out[t], 1, n)) = n
      /\ \A i \in 1 .. n : SubSeq(out[t], 1, n)[i] = out[t][i]
  BY <1>2, CutKeeps
<1> QED BY <1>1, <1>2, <1>3 DEF TypeOK

LEMMA WorkerType ==
  ASSUME TypeOK, NEW t \in Tasks, Worker(t)
  PROVE  TypeOK'
<1> USE DEF WorkerUnchanged, agentVars, closureVars
<1>1. CASE WorkerReady(t)
  BY <1>1, SendsType DEF WorkerReady, TypeOK, Messages, Alive
<1>2. CASE WorkerStart(t)
  BY <1>2 DEF WorkerStart, TypeOK, Alive
<1>3. ASSUME NEW m \in {"error", "finish", "note"}, WorkerSays(t, m) PROVE TypeOK'
  BY <1>3, SendsType DEF WorkerSays, TypeOK, Messages
<1>4. ASSUME NEW c \in {"zero", "nonzero", "null"}, Dies(t, c) PROVE TypeOK'
  BY <1>4, DiesType DEF Dies, TypeOK
<1>5. CASE WorkerTerminated(t)
  BY <1>5, <1>4 DEF WorkerTerminated
<1>6. CASE WorkerCrash(t)
  BY <1>6, <1>4 DEF WorkerCrash
<1> QED BY <1>1, <1>2, <1>3, <1>5, <1>6 DEF Worker

LEMMA StepType == TypeOK /\ [Next]_vars => TypeOK'
<1> SUFFICES ASSUME TypeOK, [Next]_vars PROVE TypeOK'
  OBVIOUS
<1>1. CASE UNCHANGED vars
  BY <1>1 DEF vars, TypeOK
<1>2. CASE Next
  BY <1>2, ServerType, HandlerType, WorkerType DEF Next
<1> QED BY <1>1, <1>2

\* The state is what the variables' comments say, and /history never shows more
\* than maxHistory entries.
THEOREM TypeCorrect == Spec => []TypeOK
<1>1. Init => TypeOK
  BY InitIInv DEF IInv
<1> QED BY <1>1, StepType, PTL DEF Spec
-----------------------------------------------------------------------------
(* The inductive invariant.                                                *)

\* All that Consistent(u) depends on.
Same(u) ==
  /\ resp'[u] = resp[u] /\ sends'[u] = sends[u] /\ cbcount'[u] = cbcount[u]
  /\ timer'[u] = timer[u] /\ status'[u] = status[u] /\ proc'[u] = proc[u]
  /\ term'[u] = term[u] /\ code'[u] = code[u] /\ reaped'[u] = reaped[u]
  /\ Len(out'[u]) = Len(out[u]) /\ (u \in children' <=> u \in children)

LEMMA SameKeeps ==
  ASSUME NEW u \in Tasks, Consistent(u), Same(u)
  PROVE  Consistent(u)'
BY DEF Same, Consistent, NothingStarted, Counted, Watched, Recorded, Followed

LEMMA ServerKeeps ==
  ASSUME IInv, SetupTaskRoutes \/ Pause \/ Resume \/ ReapChildren \/ AgentCrash
  PROVE  \A u \in Tasks : Consistent(u)'
<1> SUFFICES ASSUME NEW u \in Tasks PROVE Consistent(u)'
  OBVIOUS
<1>0. TypeOK /\ Consistent(u)
  BY DEF IInv
<1>1. CASE SetupTaskRoutes \/ Pause \/ Resume
  <2>1. Same(u)
    BY <1>1 DEF SetupTaskRoutes, Pause, Resume, Same, closureVars, workerVars
  <2> QED BY <1>0, <2>1, SameKeeps
<1>2. CASE ReapChildren
  <2>1. /\ term'[u] = (term[u] \/ u \in children)
        /\ reaped'[u] = (reaped[u] \/ u \in children)
    BY <1>2 DEF ReapChildren
  <2>2. NothingStarted(u) => NothingStarted(u)'
    BY <1>2, <2>1 DEF ReapChildren, NothingStarted, closureVars, workerVars
  <2>3. Counted(u) => Counted(u)'
    BY <1>2 DEF ReapChildren, Counted, closureVars
  <2>4. Recorded(u)'
    BY <1>0, <1>2 DEF ReapChildren, Consistent, Recorded, closureVars
  <2>5. Watched(u)' /\ Followed(u)'
    BY <1>0, <1>2, <2>1
    DEF ReapChildren, Consistent, Watched, Followed, closureVars, workerVars
  <2> QED BY <1>0, <1>2, <2>2, <2>3, <2>4, <2>5
    DEF ReapChildren, Consistent, closureVars
<1>3. CASE AgentCrash
  <2>1. /\ resp'[u] = IF resp[u] = "pending" THEN "lost" ELSE resp[u]
        /\ timer'[u] = IF timer[u] = "armed" THEN "cleared" ELSE timer[u]
        /\ proc'[u] = IF proc[u] \in Alive THEN "exited" ELSE proc[u]
        /\ code'[u] = IF proc[u] \in Alive THEN "null" ELSE code[u]
        /\ u \notin children'
        /\ sends' = sends /\ cbcount' = cbcount /\ status' = status
        /\ term' = term /\ reaped' = reaped
    BY <1>3 DEF AgentCrash
  <2>2. Len(out'[u]) = got[u] /\ got[u] <= Len(out[u])
    BY <1>0, <1>3, CutKeeps DEF AgentCrash, TypeOK
  <2>3. NothingStarted(u) /\ resp[u] \in Outside => NothingStarted(u)'
    BY <1>0, <2>1, <2>2 DEF NothingStarted, Outside, Refusals, Alive, TypeOK
  <2>4. Counted(u) => Counted(u)'
    BY <2>1 DEF Counted
  <2>5. Watched(u)' /\ Recorded(u)' /\ Followed(u)'
    BY <1>0, <2>1 DEF Consistent, Watched, Recorded, Followed, Alive
  <2>6. resp'[u] \in Outside <=> resp[u] \in Outside
    BY <2>1 DEF Outside, Refusals
  <2> QED BY <1>0, <2>3, <2>4, <2>5, <2>6 DEF Consistent
<1> QED BY <1>1, <1>2, <1>3

\* A handler, or a worker's step, for t leaves the other requests alone.
LEMMA OthersSame ==
  ASSUME TypeOK, NEW t \in Tasks, NEW u \in Tasks \ {t},
         \/ \E why \in Refusals : Refuse(t, why)
         \/ Dispatch(t) \/ Handler(t) \/ Worker(t)
  PROVE  Same(u)
<1> USE DEF Same, agentVars, closureVars, workerVars, TypeOK
<1>1. CASE \E why \in Refusals : Refuse(t, why)
  BY <1>1 DEF Refuse
<1>2. CASE Dispatch(t)
  BY <1>2 DEF Dispatch
<1>3. CASE OnReady(t) \/ OnError(t) \/ OnNote(t)
  BY <1>3 DEF OnReady, OnError, OnNote, Receives
<1>4. CASE OnFinish(t)
  BY <1>4 DEF OnFinish, Receives, Conclude
<1>5. CASE OnTimeout(t)
  BY <1>5 DEF OnTimeout, Conclude
<1>6. CASE OnExit(t)
  BY <1>6 DEF OnExit, Conclude
<1>7. CASE ConnTimeout(t)
  BY <1>7 DEF ConnTimeout
<1>8. CASE Worker(t)
  <2>1. CASE WorkerReady(t) \/ WorkerStart(t) \/ \E m : WorkerSays(t, m)
    BY <2>1 DEF WorkerReady, WorkerStart, WorkerSays, Sends, WorkerUnchanged
  <2>2. CASE WorkerTerminated(t) \/ WorkerCrash(t)
    BY <2>2 DEF WorkerTerminated, WorkerCrash, Dies, WorkerUnchanged
  <2> QED BY <1>8, <2>1, <2>2 DEF Worker
<1> QED BY <1>1, <1>2, <1>3, <1>4, <1>5, <1>6, <1>7, <1>8 DEF Handler

LEMMA RequestKeeps ==
  ASSUME IInv, NEW t \in Tasks,
         (\E why \in Refusals : Refuse(t, why)) \/ Dispatch(t)
  PROVE  Consistent(t)'
<1>0. TypeOK /\ Consistent(t)
  BY DEF IInv
<1>1. resp[t] = "idle" /\ NothingStarted(t)
  BY <1>0 DEF Refuse, Dispatch, Consistent, Outside
<1>2. CASE \E why \in Refusals : Refuse(t, why)
  <2>1. PICK why \in Refusals : Refuse(t, why)
    BY <1>2
  <2>2. resp'[t] \in Refusals /\ resp'[t] # "idle"
    BY <1>0, <2>1 DEF Refuse, Refusals, TypeOK
  <2>3. NothingStarted(t)'
    BY <1>0, <1>1, <2>1, <2>2
    DEF Refuse, NothingStarted, TypeOK, closureVars, workerVars
  <2> QED BY <1>1, <2>2, <2>3
    DEF Consistent, NothingStarted, Watched, Recorded, Followed, Outside,
        Refusals, Alive
<1>3. CASE Dispatch(t)
  <2>1. /\ resp'[t] = "pending" /\ proc'[t] = "booting" /\ timer'[t] = "armed"
        /\ status'[t] = "active" /\ t \in children'
        /\ sends'[t] = 0 /\ cbcount'[t] = 0 /\ code'[t] = "none" /\ ~term'[t]
    BY <1>0, <1>1, <1>3 DEF Dispatch, TypeOK, NothingStarted
  <2> QED BY <2>1
    DEF Consistent, Counted, Watched, Recorded, Followed, Outside, Refusals, Alive
<1> QED BY <1>2, <1>3

\* A request with an event to handle is one for which work was started.
LEMMA HandledStarted ==
  ASSUME IInv, NEW t \in Tasks, Handler(t) \/ Worker(t)
  PROVE  TypeOK /\ Consistent(t) /\ resp[t] \notin Outside /\ Counted(t)
<1>1. TypeOK /\ Consistent(t)
  BY DEF IInv
<1>2. CASE ConnTimeout(t)
  BY <1>1, <1>2 DEF ConnTimeout, Consistent, Outside, Refusals
<1>3. CASE ~ConnTimeout(t)
  <2>1. CASE \E m \in Messages : Receives(t, m)
    BY <1>1, <2>1 DEF Receives, NothingStarted, Consistent, TypeOK
  <2>2. CASE OnTimeout(t) \/ OnExit(t)
    BY <1>1, <2>2 DEF OnTimeout, OnExit, NothingStarted, Consistent
  <2>3. CASE Worker(t)
    BY <1>1, <2>3
    DEF Worker, WorkerReady, WorkerStart, WorkerSays, WorkerTerminated,
        WorkerCrash, NothingStarted, Consistent, Alive
  <2> QED BY <1>3, <2>1, <2>2, <2>3
    DEF Handler, OnReady, OnError, OnFinish, OnNote, Messages
<1> QED BY <1>1, <1>2, <1>3

\* fcb() run twice keeps the count, and nobody waits afterwards.
LEMMA ConcludeKeeps ==
  ASSUME NEW t \in Tasks, NEW failed \in BOOLEAN, TypeOK,
         resp[t] \notin Outside, Counted(t), Conclude(t, failed)
  PROVE  /\ Counted(t)' /\ resp'[t] \notin Outside \cup {"pending"}
         /\ failed /\ resp'[t] = "ok" => resp[t] = "ok"
<1>1. /\ cbcount' = [cbcount EXCEPT ![t] = cbcount[t] + 2]
      /\ sends' = [sends EXCEPT ![t] = 1]
      /\ resp[t] = "pending"
           => resp' = [resp EXCEPT ![t] = IF failed THEN "error" ELSE "ok"]
      /\ resp[t] # "pending" => resp' = resp
  BY ConcludeAnswers
<1>2. cbcount[t] \in Nat /\ cbcount'[t] = cbcount[t] + 2 /\ sends'[t] = 1
  BY <1>1 DEF TypeOK
<1>3. CASE resp[t] = "pending"
  BY <1>1, <1>2, <1>3 DEF TypeOK, Counted, Outside, Refusals
<1>4. CASE resp[t] # "pending"
  BY <1>1, <1>2, <1>4 DEF Counted
<1> QED BY <1>3, <1>4

LEMMA HandlerKeeps ==
  ASSUME IInv, NEW t \in Tasks, Handler(t)
  PROVE  Consistent(t)'
<1>0. TypeOK /\ Consistent(t) /\ resp[t] \notin Outside /\ Counted(t)
  BY HandledStarted
<1>1. CASE OnReady(t) \/ OnError(t) \/ OnNote(t)
  <2>1. Same(t)
    BY <1>0, <1>1
    DEF OnReady, OnError, OnNote, Receives, Same, agentVars, closureVars,
        workerVars
  <2> QED BY <1>0, <2>1, SameKeeps
<1>2. CASE OnFinish(t)
  <2>1. Counted(t)' /\ resp'[t] \notin Outside \cup {"pending"}
    BY <1>0, <1>2, ConcludeKeeps DEF OnFinish, TypeOK
  <2>2. status'[t] = "finished" /\ term'[t]
    BY <1>0, <1>2 DEF OnFinish, TypeOK
  <2>3. Followed(t)'
    BY <1>0, <1>2, <2>2
    DEF OnFinish, Receives, Consistent, Followed, workerVars
  <2> QED BY <2>1, <2>2, <2>3 DEF Consistent, Watched, Recorded
<1>3. CASE OnTimeout(t)
  <2>1. /\ Counted(t)' /\ resp'[t] \notin Outside \cup {"pending"}
        /\ resp'[t] = "ok" => resp[t] = "ok"
    BY <1>0, <1>3, ConcludeKeeps DEF OnTimeout
  <2>2. term'[t]
    BY <1>0, <1>3 DEF OnTimeout, TypeOK
  <2>3. Followed(t)' /\ Recorded(t)'
    BY <1>0, <1>3, <2>1, <2>2
    DEF OnTimeout, Consistent, Followed, Recorded, workerVars
  <2> QED BY <2>1, <2>2, <2>3 DEF Consistent, Watched
<1>4. CASE OnExit(t) /\ Unclean(code[t])
  <2>1. Counted(t)' /\ resp'[t] \notin Outside \cup {"pending"}
    BY <1>0, <1>4, ConcludeKeeps DEF OnExit
  <2>2. status'[t] = "failed" /\ proc'[t] = "exited" /\ code' = code /\ term' = term
    BY <1>0, <1>4 DEF OnExit, TypeOK, workerVars
  <2> QED BY <1>0, <2>1, <2>2
    DEF Consistent, Watched, Recorded, Followed, Alive
<1>5. CASE OnExit(t) /\ ~Unclean(code[t])
  <2>1. /\ resp' = resp /\ sends' = sends /\ cbcount' = cbcount
        /\ status' = status /\ proc'[t] = "exited" /\ code' = code
        /\ term' = term /\ reaped' = reaped
    BY <1>5 DEF OnExit, closureVars, workerVars
  <2>2. code[t] = "zero"
    BY <1>5 DEF Unclean
  <2>3. Counted(t)'
    BY <1>0, <2>1 DEF Counted
  <2> QED BY <1>0, <2>1, <2>2, <2>3
    DEF Consistent, Watched, Recorded, Followed, Alive
<1>6. CASE ConnTimeout(t)
  <2>1. /\ resp'[t] = "hungUp" /\ sends' = sends /\ cbcount' = cbcount
        /\ status' = status /\ proc' = proc /\ code' = code /\ term' = term
        /\ timer' = timer /\ children' = children
    BY <1>0, <1>6 DEF ConnTimeout, TypeOK, workerVars
  <2>2. timer[t] # "armed"
    BY <1>6 DEF ConnTimeout
  <2> QED BY <1>0, <2>1, <2>2
    DEF Consistent, Counted, Watched, Recorded, Followed, Outside, Refusals
<1> QED BY <1>1, <1>2, <1>3, <1>4, <1>5, <1>6 DEF Handler

LEMMA WorkerKeeps ==
  ASSUME IInv, NEW t \in Tasks, Worker(t)
  PROVE  Consistent(t)'
<1>0. TypeOK /\ Consistent(t) /\ resp[t] \notin Outside /\ Counted(t)
  BY HandledStarted
<1>1. /\ resp' = resp /\ sends' = sends /\ cbcount' = cbcount /\ timer' = timer
      /\ status' = status /\ term' = term /\ reaped' = reaped
      /\ children' = children
  BY DEF Worker, WorkerReady, WorkerStart, WorkerSays, WorkerTerminated,
         WorkerCrash, Dies, WorkerUnchanged, closureVars
<1>2. /\ proc'[t] \in Alive => proc[t] \in Alive
      /\ code'[t] = "zero" => code[t] = "zero" \/ term[t]
  BY <1>0
  DEF Worker, WorkerReady, WorkerStart, WorkerSays, WorkerTerminated,
      WorkerCrash, Dies, Alive, TypeOK
<1>3. Counted(t)'
  BY <1>0, <1>1 DEF Counted
<1> QED BY <1>0, <1>1, <1>2, <1>3 DEF Consistent, Watched, Recorded, Followed

LEMMA StepIInv == IInv /\ [Next]_vars => IInv'
<1> SUFFICES ASSUME IInv, [Next]_vars PROVE IInv'
  OBVIOUS
<1>1. TypeOK /\ TypeOK'
  BY StepType DEF IInv
<1>2. ASSUME NEW u \in Tasks PROVE Consistent(u)'
  <2>1. Consistent(u)
    BY DEF IInv
  <2>2. CASE UNCHANGED vars
    <3>1. Same(u)
      BY <2>2 DEF vars, Same
    <3> QED BY <2>1, <3>1, SameKeeps
  <2>3. CASE SetupTaskRoutes \/ Pause \/ Resume \/ ReapChildren \/ AgentCrash
    BY <2>3, ServerKeeps
  <2>4. ASSUME NEW t \in Tasks,
               \/ \E why \in Refusals : Refuse(t, why)
               \/ Dispatch(t) \/ Handler(t) \/ Worker(t)
        PROVE  Consistent(u)'
    <3>1. CASE u = t
      BY <2>4, <3>1, RequestKeeps, HandlerKeeps, WorkerKeeps
    <3>2. CASE u # t
      <4>1. Same(u)
        BY <1>1, <2>4, <3>2, OthersSame
      <4> QED BY <2>1, <4>1, SameKeeps
    <3> QED BY <3>1, <3>2
  <2> QED BY <2>2, <2>3, <2>4 DEF Next
<1> QED BY <1>1, <1>2 DEF IInv

THEOREM Invariance == Spec => []IInv
BY InitIInv, StepIInv, PTL DEF Spec

-----------------------------------------------------------------------------
(* The safety properties.                                                  *)

\* A client's connection never gets a second answer, whatever the order in which
\* finish, timeout and exit come.
THEOREM AnswersOnce == Spec => []OneAnswer
<1>1. IInv => OneAnswer
  <2> SUFFICES ASSUME IInv, NEW t \in Tasks PROVE sends[t] <= 1
    BY DEF OneAnswer
  <2>1. sends[t] \in {0, 1}
    BY DEF IInv, Consistent, NothingStarted, Counted
  <2> QED BY <2>1
<1> QED BY <1>1, Invariance, PTL

\* A waiting client always has an armed timer, unless its worker was stopped
\* from outside.
THEOREM NoClientForgotten == Spec => []AnsweredOrWatched
<1>1. IInv => AnsweredOrWatched
  BY DEF IInv, Consistent, Watched, AnsweredOrWatched
<1> QED BY <1>1, Invariance, PTL

\* /history and the answers never contradict each other.
THEOREM HistoryTruthful == Spec => []HistoryAgrees
<1>1. IInv => HistoryAgrees
  BY DEF IInv, Consistent, Recorded, HistoryAgrees
<1> QED BY <1>1, Invariance, PTL

\* Every running worker is in the runner's table and on its way to an end.
THEOREM NoWorkerForgotten == Spec => []NoOrphan
<1>1. IInv => NoOrphan
  BY DEF IInv, Consistent, Followed, NoOrphan, Live
<1> QED BY <1>1, Invariance, PTL

\* A worker whose client is no longer waiting has been sent SIGTERM (dispatch.js,
\* task_runner.js: finish and onTimeout both kill the child).
THEOREM NoneWorksOn == Spec => []AnsweredIsStopped
<1>1. IInv => AnsweredIsStopped
  BY DEF IInv, Consistent, Followed, AnsweredIsStopped, Live
<1> QED BY <1>1, Invariance, PTL
=============================================================================
