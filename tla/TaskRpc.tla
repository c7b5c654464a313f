------------------------------- MODULE TaskRpc -------------------------------
(***************************************************************************)
(* What a client of cn-agent's POST /tasks is promised.                    *)
(*                                                                         *)
(* A call is answered at most once.  It is answered "ok" only if the task  *)
(* itself reported success, "error" when it failed, crashed or ran out of  *)
(* time, and "refused" without any work having been started.  A call may   *)
(* be dropped: the agent died, or its connection timed out.                *)
(***************************************************************************)
CONSTANT Tasks        \* the requests a client may make

VARIABLES
  call,               \* call[t]: what the client has seen of request t
  verdict             \* verdict[t]: what the task has reported to the agent

vars == <<call, verdict>>

Replies == {"ok", "error", "refused", "dropped"}

TypeOK ==
  /\ call \in [Tasks -> {"idle", "pending"} \cup Replies]
  /\ verdict \in [Tasks -> {"none", "succeeded", "failed"}]

Init ==
  /\ call = [t \in Tasks |-> "idle"]
  /\ verdict = [t \in Tasks |-> "none"]

Refuse(t) ==
  /\ call[t] = "idle"
  /\ call' = [call EXCEPT ![t] = "refused"]
  /\ UNCHANGED verdict

Accept(t) ==
  /\ call[t] = "idle"
  /\ call' = [call EXCEPT ![t] = "pending"]
  /\ UNCHANGED verdict

\* The first thing a task says about its outcome is its verdict.
Report(t) ==
  /\ call[t] \notin {"idle", "refused"}
  /\ verdict[t] = "none"
  /\ \E v \in {"succeeded", "failed"} : verdict' = [verdict EXCEPT ![t] = v]
  /\ UNCHANGED call

\* Success is answered in the very step in which the agent learns of it.
ReplyOk(t) ==
  /\ call[t] = "pending"
  /\ verdict[t] = "none"
  /\ verdict' = [verdict EXCEPT ![t] = "succeeded"]
  /\ call' = [call EXCEPT ![t] = "ok"]

ReplyError(t) ==
  /\ call[t] = "pending"
  /\ verdict[t] # "succeeded"
  /\ call' = [call EXCEPT ![t] = "error"]
  /\ UNCHANGED verdict

\* The agent dies (every pending call at once) or connections time out.
Drop ==
  /\ \E D \in SUBSET {t \in Tasks : call[t] = "pending"} :
       /\ D # {}
       /\ call' = [t \in Tasks |-> IF t \in D THEN "dropped" ELSE call[t]]
  /\ UNCHANGED verdict

Next ==
  \/ \E t \in Tasks :
       \/ Refuse(t) \/ Accept(t) \/ Report(t)
       \/ ReplyOk(t) \/ ReplyError(t)
  \/ Drop

Spec == Init /\ [][Next]_vars
=============================================================================
