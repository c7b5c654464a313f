----------------------------- MODULE MCTaskExec -----------------------------
(* Small instances of TaskExec for TLC. *)
EXTENDS TaskExec, TLC

CONSTANTS t1, t2      \* two requests

OneTask == {t1}
TwoTasks == {t1, t2}

\* The worker of the first task may be ready, say something and finish, or go on
\* after it has finished; that of the second, if there is one, hangs or dies.
FewMessages == [t \in Tasks |-> IF t = t1 THEN 3 ELSE 0]
=============================================================================
