------------------------- MODULE TaskExecRefinement -------------------------
(***************************************************************************)
(* TaskExec implements TaskRpc: every step of the agent, its workers and   *)
(* its timers is, to a client, one of the promised steps or none.          *)
(***************************************************************************)
EXTENDS TaskExecProofs

\* While a client waits, no finish has been read, and the closure's error is
\* set exactly when an error has been read.
Reading(t) ==
  /\ resp[t] = "idle" => ~errored[t]
  /\ resp[t] = "pending" => ~Says(t, "finish") /\ (errored[t] <=> Says(t, "error"))

RInv == IInv /\ \A t \in Tasks : Reading(t)

\* What the agent reads next is the last of what it has read then.
LEMMA ReadsOne ==
  ASSUME TypeOK, NEW t \in Tasks, NEW m \in Messages, Receives(t, m)
  PROVE  /\ out' = out /\ got[t] \in Nat /\ got'[t] = got[t] + 1
         /\ out[t][got[t] + 1] = m
         /\ \A k \in Messages : Says(t, k)' <=> Says(t, k) \/ k = m
<1>1. out' = out /\ got[t] \in Nat /\ got'[t] = got[t] + 1 /\ out[t][got[t] + 1] = m
  BY DEF Receives, TypeOK, workerVars
<1>2. \A i : i \in 1 .. got'[t] <=> i \in 1 .. got[t] \/ i = got[t] + 1
  BY <1>1
<1> QED BY <1>1, <1>2 DEF Says

\* Nothing of what was read changes in any other step.
SameRead(t) ==
  /\ got'[t] = got[t]
  /\ \A i \in 1 .. got[t] : out'[t][i] = out[t][i]

LEMMA SameReadSays ==
  ASSUME TypeOK, NEW t \in Tasks, SameRead(t)
  PROVE  /\ \A k \in Messages : Says(t, k)' <=> Says(t, k)
         /\ Verdict(t)' = Verdict(t)
<1>1. \A k \in Messages : Says(t, k)' <=> Says(t, k)
  BY DEF SameRead, Says
<1> DEFINE Clean(i) == out[t][i] = "finish" /\ \A j \in 1 .. i : out[t][j] # "error"
<1>2. ASSUME NEW i \in 1 .. got[t] PROVE Clean(i)' <=> Clean(i)
  <2>1. got[t] \in Nat /\ \A j \in 1 .. i : j \in 1 .. got[t]
    BY DEF TypeOK
  <2>2. \A j \in 1 .. i : out'[t][j] = out[t][j]
    BY <2>1 DEF SameRead
  <2> QED BY <2>2 DEF SameRead
<1>3. (\E i \in 1 .. got[t] : Clean(i))' <=> \E i \in 1 .. got[t] : Clean(i)
  BY <1>2 DEF SameRead
<1>4. /\ Verdict(t) = IF \E i \in 1 .. got[t] : Clean(i) THEN "succeeded"
                      ELSE IF Says(t, "error") THEN "failed" ELSE "none"
      /\ Verdict(t)' = IF (\E i \in 1 .. got[t] : Clean(i))' THEN "succeeded"
                       ELSE IF Says(t, "error")' THEN "failed" ELSE "none"
  BY DEF Verdict
<1> HIDE DEF Clean
<1> QED BY <1>1, <1>3, <1>4 DEF Messages

\* Only the first error or finish that is read makes the verdict.
LEMMA VerdictReads ==
  ASSUME TypeOK, NEW t \in Tasks, NEW m \in Messages, Receives(t, m)
  PROVE  Verdict(t)' = CASE Verdict(t) # "none" -> Verdict(t)
                         [] Verdict(t) = "none" /\ m = "finish" -> "succeeded"
                         [] Verdict(t) = "none" /\ m = "error" -> "failed"
                         [] OTHER -> "none"
<1> DEFINE Clean(i) == out[t][i] = "finish" /\ \A j \in 1 .. i : out[t][j] # "error"
           n == got[t] + 1
<1>1. /\ out' = out /\ got[t] \in Nat /\ got'[t] = n /\ out[t][n] = m
      /\ \A k \in Messages : Says(t, k)' <=> Says(t, k) \/ k = m
  BY ReadsOne
<1>2. \A i : i \in 1 .. n <=> i \in 1 .. got[t] \/ i = n
  BY <1>1
<1>3. (\E i \in 1 .. got[t] : Clean(i))' <=> (\E i \in 1 .. got[t] : Clean(i)) \/ Clean(n)
  BY <1>1, <1>2
<1>4. Clean(n) <=> m = "finish" /\ ~Says(t, "error")
  BY <1>1, <1>2 DEF Says
<1>5. (\E i \in 1 .. got[t] : Clean(i)) /\ ~Says(t, "error") => Says(t, "finish")
  BY DEF Says
<1>6. Verdict(t) = IF \E i \in 1 .. got[t] : Clean(i) THEN "succeeded"
                   ELSE IF Says(t, "error") THEN "failed" ELSE "none"
  BY DEF Verdict
<1>7. Verdict(t)' = IF (\E i \in 1 .. got[t] : Clean(i))' THEN "succeeded"
                    ELSE IF Says(t, "error")' THEN "failed" ELSE "none"
  BY DEF Verdict
<1> HIDE DEF Clean
<1> QED BY <1>1, <1>3, <1>4, <1>6, <1>7 DEF Messages

\* A step that reads nothing keeps Reading, as long as the answer and the
\* error do.
LEMMA ReadingKept ==
  ASSUME TypeOK, NEW t \in Tasks, Reading(t), SameRead(t),
         resp'[t] = resp[t] \/ resp'[t] \notin {"idle", "pending"},
         resp'[t] = "pending" => errored'[t] = errored[t],
         resp'[t] = "idle" => errored'[t] = errored[t]
  PROVE  Reading(t)'
<1>1. \A k \in Messages : Says(t, k)' <=> Says(t, k)
  BY SameReadSays
<1> QED BY <1>1 DEF Reading, Messages

-----------------------------------------------------------------------------
(* What a client sees of one step, request by request.                     *)

Still(u) == Seen(u)' = Seen(u) /\ Verdict(u)' = Verdict(u)

\* The promised steps, for one request.
Promised(t) ==
  \/ Still(t)
  \/ /\ Seen(t) = "idle" /\ Seen(t)' \in {"refused", "pending"}
     /\ Verdict(t)' = Verdict(t)
  \/ /\ Seen(t) \notin {"idle", "refused"} /\ Seen(t)' = Seen(t)
     /\ Verdict(t) = "none" /\ Verdict(t)' \in {"succeeded", "failed"}
  \/ /\ Seen(t) = "pending" /\ Seen(t)' = "ok"
     /\ Verdict(t) = "none" /\ Verdict(t)' = "succeeded"
  \/ /\ Seen(t) = "pending" /\ Seen(t)' = "error"
     /\ Verdict(t) # "succeeded" /\ Verdict(t)' = Verdict(t)
  \/ /\ Seen(t) = "pending" /\ Seen(t)' = "dropped"
     /\ Verdict(t)' = Verdict(t)

\* A step that is promised for one request and leaves the others alone is a
\* step of TaskRpc.
LEMMA PromisedLifts ==
  ASSUME NEW t \in Tasks, Promised(t), \A u \in Tasks \ {t} : Still(u)
  PROVE  [Rpc!Next]_(Rpc!vars)
<1>1. /\ ClientCall' = [ClientCall EXCEPT ![t] = Seen(t)']
      /\ Verdicts' = [Verdicts EXCEPT ![t] = Verdict(t)']
  BY DEF Still, ClientCall, Verdicts
<1>2. ClientCall[t] = Seen(t) /\ Verdicts[t] = Verdict(t)
  BY DEF ClientCall, Verdicts
<1>3. Seen(t)' = Seen(t) => ClientCall' = ClientCall
  BY <1>1 DEF ClientCall
<1>4. Verdict(t)' = Verdict(t) => Verdicts' = Verdicts
  BY <1>1 DEF Verdicts
<1>5. CASE Still(t)
  BY <1>3, <1>4, <1>5 DEF Still, Rpc!vars
<1>6. CASE Seen(t) = "idle" /\ Seen(t)' \in {"refused", "pending"}
           /\ Verdict(t)' = Verdict(t)
  <2>1. Rpc!Refuse(t) \/ Rpc!Accept(t)
    BY <1>1, <1>2, <1>4, <1>6 DEF Rpc!Refuse, Rpc!Accept
  <2> QED BY <2>1 DEF Rpc!Next
<1>7. CASE /\ Seen(t) \notin {"idle", "refused"} /\ Seen(t)' = Seen(t)
           /\ Verdict(t) = "none" /\ Verdict(t)' \in {"succeeded", "failed"}
  <2>1. Rpc!Report(t)
    BY <1>1, <1>2, <1>3, <1>7 DEF Rpc!Report
  <2> QED BY <2>1 DEF Rpc!Next
<1>8. CASE /\ Seen(t) = "pending" /\ Seen(t)' = "ok"
           /\ Verdict(t) = "none" /\ Verdict(t)' = "succeeded"
  <2>1. Rpc!ReplyOk(t)
    BY <1>1, <1>2, <1>8 DEF Rpc!ReplyOk
  <2> QED BY <2>1 DEF Rpc!Next
<1>9. CASE /\ Seen(t) = "pending" /\ Seen(t)' = "error"
           /\ Verdict(t) # "succeeded" /\ Verdict(t)' = Verdict(t)
  <2>1. Rpc!ReplyError(t)
    BY <1>1, <1>2, <1>4, <1>9 DEF Rpc!ReplyError
  <2> QED BY <2>1 DEF Rpc!Next
<1>10. CASE /\ Seen(t) = "pending" /\ Seen(t)' = "dropped"
            /\ Verdict(t)' = Verdict(t)
  <2>1. {t} \in SUBSET {u \in Tasks : ClientCall[u] = "pending"}
    BY <1>2, <1>10
  <2>2. ClientCall' = [u \in Tasks |-> IF u \in {t} THEN "dropped" ELSE ClientCall[u]]
    BY <1>1, <1>10 DEF ClientCall
  <2>3. Rpc!Drop
    BY <1>4, <1>10, <2>1, <2>2 DEF Rpc!Drop
  <2> QED BY <2>3 DEF Rpc!Next
<1> QED BY <1>5, <1>6, <1>7, <1>8, <1>9, <1>10 DEF Promised

\* The other requests, in a handler or a worker's step for t.
LEMMA OthersStill ==
  ASSUME RInv, NEW t \in Tasks, NEW u \in Tasks \ {t},
         \/ \E why \in Refusals : Refuse(t, why)
         \/ Dispatch(t) \/ Handler(t) \/ Worker(t)
  PROVE  Still(u) /\ Reading(u)'
<1>1. TypeOK /\ Reading(u)
  BY DEF RInv, IInv
<1>2. resp'[u] = resp[u]
  BY <1>1, OthersSame DEF Same
<1>3. out'[u] = out[u] /\ got'[u] = got[u] /\ errored'[u] = errored[u]
  <2> USE <1>1 DEF agentVars, closureVars, workerVars, TypeOK
  <2>1. CASE (\E why \in Refusals : Refuse(t, why)) \/ Dispatch(t)
    BY <2>1 DEF Refuse, Dispatch
  <2>2. CASE OnReady(t) \/ OnError(t) \/ OnNote(t) \/ OnFinish(t)
    BY <2>2 DEF OnReady, OnError, OnNote, OnFinish, Receives
  <2>3. CASE OnTimeout(t) \/ OnExit(t) \/ ConnTimeout(t)
    BY <2>3 DEF OnTimeout, OnExit, ConnTimeout
  <2>4. CASE Worker(t)
    BY <2>4
    DEF Worker, WorkerReady, WorkerStart, WorkerSays, WorkerTerminated,
        WorkerCrash, Dies, Sends, WorkerUnchanged
  <2> QED BY <2>1, <2>2, <2>3, <2>4 DEF Handler
<1>4. SameRead(u)
  BY <1>3 DEF SameRead
<1>5. Verdict(u)' = Verdict(u)
  BY <1>1, <1>4, SameReadSays
<1>6. Reading(u)'
  BY <1>1, <1>2, <1>3, <1>4, ReadingKept
<1> QED BY <1>2, <1>5, <1>6 DEF Still, Seen

LEMMA RequestPromised ==
  ASSUME RInv, NEW t \in Tasks, (\E why \in Refusals : Refuse(t, why)) \/ Dispatch(t)
  PROVE  Promised(t) /\ Reading(t)'
<1>0. TypeOK /\ Reading(t) /\ resp[t] = "idle" /\ got[t] = 0
  <2>1. TypeOK /\ Reading(t) /\ Consistent(t) /\ resp[t] = "idle"
    BY DEF RInv, IInv, Refuse, Dispatch
  <2>2. Len(out[t]) = 0
    BY <2>1 DEF Consistent, NothingStarted, Outside
  <2>3. got[t] \in Nat /\ got[t] <= Len(out[t])
    BY <2>1 DEF TypeOK
  <2> QED BY <2>1, <2>2, <2>3
<1>1. /\ SameRead(t) /\ errored'[t] = errored[t]
      /\ resp'[t] \in Refusals \cup {"pending"}
  BY <1>0 DEF Refuse, Dispatch, SameRead, TypeOK, closureVars, workerVars
<1>2. Verdict(t)' = Verdict(t)
  BY <1>0, <1>1, SameReadSays
<1>3. Seen(t) = "idle" /\ Seen(t)' \in {"refused", "pending"}
  BY <1>0, <1>1 DEF Seen, Refusals
<1>4. ~Says(t, "finish")' /\ ~Says(t, "error")'
  BY <1>0, <1>1 DEF Says, SameRead
<1> QED BY <1>0, <1>1, <1>2, <1>3, <1>4 DEF Promised, Reading, Refusals

\* A step in which the agent gives up on t, or does nothing for it.
LEMMA UnreadPromised ==
  ASSUME RInv, NEW t \in Tasks, SameRead(t),
         \/ resp'[t] = resp[t] /\ (errored'[t] = errored[t] \/ resp[t] \notin {"idle", "pending"})
         \/ resp[t] = "pending" /\ resp'[t] \in {"error", "hungUp", "lost"}
  PROVE  Promised(t) /\ Reading(t)'
<1>0. TypeOK /\ Reading(t)
  BY DEF RInv, IInv
<1>1. Verdict(t)' = Verdict(t)
  BY <1>0, SameReadSays
<1>2. Reading(t)'
  BY <1>0, ReadingKept
<1>3. resp[t] = "pending" => Verdict(t) # "succeeded"
  BY <1>0 DEF Reading, Verdict, Says
<1> QED BY <1>1, <1>2, <1>3 DEF Promised, Still, Seen, Refusals

LEMMA MessagePromised ==
  ASSUME RInv, NEW t \in Tasks, OnReady(t) \/ OnError(t) \/ OnFinish(t) \/ OnNote(t)
  PROVE  Promised(t) /\ Reading(t)'
<1>0. TypeOK /\ Reading(t) /\ resp[t] \notin Outside /\ Counted(t)
  BY HandledStarted DEF RInv, IInv, Handler
<1>a. /\ resp[t] \in {"pending", "hungUp", "lost", "ok", "error"}
      /\ Seen(t) \notin {"idle", "refused"}
  <2>1. resp[t] \in {"pending", "hungUp", "lost", "ok", "error"}
    BY <1>0 DEF TypeOK, Outside, Refusals, Answers
  <2> QED BY <2>1 DEF Seen, Refusals
<1>1. CASE OnReady(t) \/ OnNote(t)
  <2>1. PICK m \in {"ready", "note"} : Receives(t, m)
    BY <1>1 DEF OnReady, OnNote
  <2>2. resp' = resp /\ errored' = errored
    BY <1>1 DEF OnReady, OnNote, closureVars
  <2>3. m \in Messages /\ m \notin {"finish", "error"}
    BY <2>1 DEF Messages
  <2>4. Verdict(t)' = Verdict(t)
    BY <1>0, <2>1, <2>3, VerdictReads
  <2>5. \A k \in Messages : Says(t, k)' <=> Says(t, k) \/ k = m
    BY <1>0, <2>1, <2>3, ReadsOne
  <2> QED BY <1>0, <2>1, <2>2, <2>3, <2>4, <2>5
    DEF Promised, Still, Seen, Reading, Messages
<1>2. CASE OnError(t)
  <2>1. Receives(t, "error") /\ resp' = resp
    BY <1>2 DEF OnError
  <2>a. errored'[t] = TRUE
    BY <1>0, <1>2 DEF OnError, TypeOK
  <2> "error" \in Messages
    BY DEF Messages
  <2>2. Verdict(t)' = Verdict(t) \/ (Verdict(t) = "none" /\ Verdict(t)' = "failed")
    BY <1>0, <2>1, VerdictReads
  <2>3. \A k \in Messages : Says(t, k)' <=> Says(t, k) \/ k = "error"
    BY <1>0, <2>1, ReadsOne
  <2>4. Seen(t)' = Seen(t)
    BY <2>1 DEF Seen
  <2>5. Reading(t)'
    BY <1>0, <1>a, <2>1, <2>a, <2>3 DEF Reading, Messages
  <2> QED BY <1>a, <2>2, <2>4, <2>5 DEF Promised, Still
<1>3. CASE OnFinish(t)
  <2>1. Receives(t, "finish") /\ Conclude(t, errored[t]) /\ errored[t] \in BOOLEAN
    BY <1>0, <1>3 DEF OnFinish, TypeOK
  <2>2. /\ resp[t] = "pending"
             => resp' = [resp EXCEPT ![t] = IF errored[t] THEN "error" ELSE "ok"]
        /\ resp[t] # "pending" => resp' = resp
    BY <1>0, <2>1, ConcludeAnswers
  <2> "finish" \in Messages
    BY DEF Messages
  <2>3. Verdict(t)' = IF Verdict(t) = "none" THEN "succeeded" ELSE Verdict(t)
    BY <1>0, <2>1, VerdictReads
  <2>4. CASE resp[t] = "pending"
    <3>1. resp'[t] = IF errored[t] THEN "error" ELSE "ok"
      BY <1>0, <2>2, <2>4 DEF TypeOK
    <3>2. Verdict(t) = IF errored[t] THEN "failed" ELSE "none"
      BY <1>0, <2>4 DEF Reading, Verdict, Says
    <3>3. resp'[t] \notin {"idle", "pending"}
      BY <3>1
    <3>4. Reading(t)'
      BY <3>3 DEF Reading
    <3> QED BY <2>3, <2>4, <3>1, <3>2, <3>4 DEF Promised, Seen, Refusals
  <2>5. CASE resp[t] # "pending"
    <3>1. resp' = resp /\ Seen(t)' = Seen(t)
      BY <2>2, <2>5 DEF Seen
    <3>2. Reading(t)'
      BY <1>a, <2>5, <3>1 DEF Reading
    <3>3. Verdict(t)' = Verdict(t) \/ (Verdict(t) = "none" /\ Verdict(t)' = "succeeded")
      BY <2>3
    <3> QED BY <1>a, <3>1, <3>2, <3>3 DEF Promised, Still
  <2> QED BY <2>4, <2>5
<1> QED BY <1>1, <1>2, <1>3

LEMMA TimerPromised ==
  ASSUME RInv, NEW t \in Tasks, OnTimeout(t) \/ OnExit(t) \/ ConnTimeout(t)
  PROVE  Promised(t) /\ Reading(t)'
<1>0. TypeOK /\ Reading(t) /\ resp[t] \notin Outside /\ Counted(t)
  BY HandledStarted DEF RInv, IInv, Handler
<1>1. SameRead(t)
  BY DEF OnTimeout, OnExit, ConnTimeout, SameRead, workerVars
<1>2. CASE ConnTimeout(t)
  BY <1>0, <1>1, <1>2, UnreadPromised DEF ConnTimeout, TypeOK
<1>3. CASE OnExit(t) /\ ~Unclean(code[t])
  BY <1>1, <1>3, UnreadPromised DEF OnExit, closureVars
<1>4. CASE OnTimeout(t) \/ (OnExit(t) /\ Unclean(code[t]))
  <2>1. Conclude(t, TRUE)
    BY <1>4 DEF OnTimeout, OnExit
  <2>2. /\ resp[t] = "pending" => resp' = [resp EXCEPT ![t] = "error"]
        /\ resp[t] # "pending" => resp' = resp
    BY <1>0, <2>1, ConcludeAnswers
  <2>3. CASE resp[t] = "pending"
    <3>1. resp'[t] = "error"
      BY <1>0, <2>2, <2>3 DEF TypeOK
    <3> QED BY <1>1, <2>3, <3>1, UnreadPromised
  <2>4. CASE resp[t] # "pending"
    BY <1>0, <1>1, <2>2, <2>4, UnreadPromised DEF Outside
  <2> QED BY <2>3, <2>4
<1> QED BY <1>2, <1>3, <1>4

LEMMA WorkerPromised ==
  ASSUME RInv, NEW t \in Tasks, Worker(t)
  PROVE  Promised(t) /\ Reading(t)'
<1>0. TypeOK
  BY DEF RInv, IInv
<1>1. resp' = resp /\ errored' = errored /\ got' = got
  BY DEF Worker, WorkerReady, WorkerStart, WorkerSays, WorkerTerminated,
         WorkerCrash, Dies, WorkerUnchanged, closureVars
<1>2. \A i \in 1 .. got[t] : out'[t][i] = out[t][i]
  <2>1. ASSUME NEW m \in Messages, Sends(t, m)
        PROVE  \A i \in 1 .. got[t] : out'[t][i] = out[t][i]
    <3>1. out[t] \in Seq(Messages) /\ out'[t] = Append(out[t], m)
      BY <1>0, <2>1, SendsType DEF TypeOK
    <3>2. \A i \in 1 .. Len(out[t]) : out'[t][i] = out[t][i]
      BY <3>1, AppendProperties
    <3>3. got[t] \in Nat /\ Len(out[t]) \in Nat /\ got[t] <= Len(out[t])
      BY <1>0 DEF TypeOK
    <3> QED BY <3>2, <3>3
  <2>2. ASSUME NEW c \in {"zero", "nonzero", "null"}, Dies(t, c)
        PROVE  \A i \in 1 .. got[t] : out'[t][i] = out[t][i]
    BY <1>0, <2>2, DiesType
  <2>3. CASE WorkerReady(t) \/ (\E m \in {"error", "finish", "note"} : WorkerSays(t, m))
    BY <2>1, <2>3 DEF WorkerReady, WorkerSays, Messages
  <2>4. CASE WorkerStart(t)
    BY <2>4 DEF WorkerStart
  <2>5. CASE WorkerTerminated(t) \/ WorkerCrash(t)
    BY <2>2, <2>5 DEF WorkerTerminated, WorkerCrash
  <2> QED BY <2>3, <2>4, <2>5 DEF Worker
<1>3. SameRead(t)
  BY <1>1, <1>2 DEF SameRead
<1> QED BY <1>1, <1>3, UnreadPromised

\* The steps of the whole agent.  Its death drops every waiting call at once.
LEMMA ServerPromised ==
  ASSUME RInv, SetupTaskRoutes \/ Pause \/ Resume \/ ReapChildren \/ AgentCrash
  PROVE  [Rpc!Next]_(Rpc!vars) /\ \A t \in Tasks : Reading(t)'
<1>0. TypeOK /\ \A t \in Tasks : Reading(t)
  BY DEF RInv, IInv
<1>1. \A t \in Tasks : SameRead(t)
  <2>1. CASE AgentCrash
    <3> TAKE t \in Tasks
    <3>1. out[t] \in Seq(Messages) /\ got[t] \in 0 .. Len(out[t])
      BY <1>0 DEF TypeOK
    <3>2. \A i \in 1 .. got[t] : SubSeq(out[t], 1, got[t])[i] = out[t][i]
      BY <3>1, CutKeeps
    <3> QED BY <2>1, <3>2 DEF AgentCrash, SameRead
  <2>2. CASE ~AgentCrash
    BY <2>2
    DEF SetupTaskRoutes, Pause, Resume, ReapChildren, SameRead, workerVars
  <2> QED BY <2>1, <2>2
<1>2. Verdicts' = Verdicts
  BY <1>0, <1>1, SameReadSays DEF Verdicts
<1>3. CASE SetupTaskRoutes \/ Pause \/ Resume \/ ReapChildren
  <2>1. resp' = resp /\ errored' = errored
    BY <1>3 DEF SetupTaskRoutes, Pause, Resume, ReapChildren, closureVars
  <2>2. ClientCall' = ClientCall
    BY <2>1 DEF ClientCall, Seen
  <2>3. \A t \in Tasks : Reading(t)'
    BY <1>0, <1>1, <2>1, ReadingKept
  <2> QED BY <1>2, <2>2, <2>3 DEF Rpc!vars
<1>4. CASE AgentCrash
  <2>1. /\ resp' = [t \in Tasks |-> IF resp[t] = "pending" THEN "lost" ELSE resp[t]]
        /\ errored' = errored
    BY <1>4 DEF AgentCrash
  <2>2. \A t \in Tasks : Reading(t)'
    BY <1>0, <1>1, <2>1, ReadingKept
  <2> DEFINE W == {t \in Tasks : ClientCall[t] = "pending"}
  <2>3. ClientCall' = [t \in Tasks |-> IF t \in W THEN "dropped" ELSE ClientCall[t]]
    <3>1. \A t \in Tasks : ClientCall[t] = Seen(t)
      BY DEF ClientCall
    <3>2. \A t \in Tasks : Seen(t)' = IF Seen(t) = "pending" THEN "dropped" ELSE Seen(t)
      BY <2>1 DEF Seen, Refusals
    <3> QED BY <3>1, <3>2 DEF ClientCall
  <2>4. CASE W = {}
    <3>1. ClientCall' = ClientCall
      BY <2>3, <2>4 DEF ClientCall
    <3> QED BY <1>2, <2>2, <3>1 DEF Rpc!vars
  <2>5. CASE W # {}
    <3>1. Rpc!Drop
      BY <1>2, <2>3, <2>5 DEF Rpc!Drop
    <3> QED BY <2>2, <3>1 DEF Rpc!Next
  <2> QED BY <2>4, <2>5
<1> QED BY <1>3, <1>4

LEMMA StepPromised == RInv /\ [Next]_vars => RInv' /\ [Rpc!Next]_(Rpc!vars)
<1> SUFFICES ASSUME RInv, [Next]_vars PROVE RInv' /\ [Rpc!Next]_(Rpc!vars)
  OBVIOUS
<1>1. IInv'
  BY StepIInv DEF RInv
<1>2. CASE UNCHANGED vars
  <2>1. ClientCall' = ClientCall
    BY <1>2 DEF vars, ClientCall, Seen
  <2>2. Verdicts' = Verdicts
    BY <1>2 DEF vars, Verdicts, Verdict, Says
  <2>3. \A t \in Tasks : Reading(t)'
    BY <1>2 DEF RInv, vars, Reading, Says
  <2> QED BY <1>1, <2>1, <2>2, <2>3 DEF RInv, Rpc!vars
<1>3. CASE SetupTaskRoutes \/ Pause \/ Resume \/ ReapChildren \/ AgentCrash
  BY <1>1, <1>3, ServerPromised DEF RInv
<1>4. ASSUME NEW t \in Tasks,
             \/ \E why \in Refusals : Refuse(t, why)
             \/ Dispatch(t) \/ Handler(t) \/ Worker(t)
      PROVE  RInv' /\ [Rpc!Next]_(Rpc!vars)
  <2>1. \A u \in Tasks \ {t} : Still(u) /\ Reading(u)'
    BY <1>4, OthersStill
  <2>2. Promised(t) /\ Reading(t)'
    BY <1>4, RequestPromised, MessagePromised, TimerPromised, WorkerPromised
    DEF Handler
  <2>3. [Rpc!Next]_(Rpc!vars)
    BY <2>1, <2>2, PromisedLifts
  <2>4. \A u \in Tasks : Reading(u)'
    BY <2>1, <2>2
  <2> QED BY <1>1, <2>3, <2>4 DEF RInv
<1> QED BY <1>2, <1>3, <1>4 DEF Next

LEMMA InitPromised == Init => RInv /\ Rpc!Init
<1> SUFFICES ASSUME Init PROVE RInv /\ Rpc!Init
  OBVIOUS
<1>1. \A t \in Tasks : resp[t] = "idle" /\ got[t] = 0 /\ ~errored[t]
  BY DEF Init
<1>2. \A t \in Tasks : Seen(t) = "idle" /\ Verdict(t) = "none"
  BY <1>1 DEF Seen, Verdict, Says, Refusals
<1>3. Rpc!Init
  BY <1>2 DEF Rpc!Init, ClientCall, Verdicts
<1> QED BY <1>1, <1>3, InitIInv DEF RInv, Reading

\* The agent keeps the promise it makes to the clients of POST /tasks: whatever
\* finishes, crashes, times out or exits first, "ok" is answered only for a task
\* that reported success.
THEOREM KeepsPromise == Spec => RpcSpec
<1>1. Rpc!Init /\ [][Rpc!Next]_(Rpc!vars) => RpcSpec
  BY DEF RpcSpec, Rpc!Spec
<1> QED BY <1>1, InitPromised, StepPromised, PTL DEF Spec
=============================================================================
