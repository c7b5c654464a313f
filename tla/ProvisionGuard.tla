--------------------------- MODULE ProvisionGuard ---------------------------
(***************************************************************************)
(* The guard file /var/tmp/machine-provision-<uuid> of the SmartOS         *)
(* backend: machine_create and machine_reprovision leave it while they     *)
(* work (common.js provisionInProgressFile), machine_destroy waits for it  *)
(* to go or to be ten minutes old (ensureProvisionComplete), and the agent *)
(* is to remove stale ones when it starts (index.js cleanupStaleLocks).    *)
(*                                                                         *)
(* All tasks are for one machine and each is a process of its own, which   *)
(* the agent may kill, or die with.  vmadm is external: creating,          *)
(* reprovisioning and deleting the machine have a beginning and an end.    *)
(***************************************************************************)
EXTENDS Naturals, FiniteSets

CONSTANTS
  Creates,       \* machine_create tasks for the machine
  Reprovisions,  \* machine_reprovision tasks
  Destroys,      \* machine_destroy tasks
  MaxProvisions, \* bound: provisions that are started
  MaxCrashes     \* bound: times the agent dies

Provisions == Creates \cup Reprovisions
Tasks == Provisions \cup Destroys

ASSUME ProvisionGuardAssumption ==
  /\ Creates \cap Reprovisions = {} /\ Provisions \cap Destroys = {}
  /\ MaxProvisions \in Nat /\ MaxCrashes \in Nat

VARIABLES
  up,        \* the agent runs and takes tasks
  crashes,   \* how often it died
  files,     \* the guard files in /var/tmp
  written,   \* number of the last guard written: a later one has a later ctime
  aged,      \* guards up to this number were written over ten minutes ago
  machine,   \* vmadm knows the machine
  stage,     \* where each task is
  deadline,  \* expiresAt of a destroy: ten minutes after guard number ...; 0 unset
  \* History, for the properties.
  guardOf,   \* number of the guard a provision wrote, 0 when it wrote none
  passed,    \* number of the last guard when a destroy went past the guard
  gone       \* the machine was absent at a time since the destroy began

agentVars   == <<up, crashes>>
historyVars == <<guardOf, passed, gone>>
vars == <<agentVars, files, written, aged, machine, stage, deadline, historyVars>>

Guard == "machine-provision"

\* A worker that is over; one whose vmadm goes on without it is orphaned.
Ended == {"done", "failed", "dead"}
Idle  == {"idle"} \cup Ended

\* The stages in which a provision is under way and its guard should protect it.
Provisioning == {"guarded", "imaged", "ready", "working", "worked"}

ProvisionStages ==
  Idle \cup Provisioning \cup {"checked", "failing", "stuck", "orphaned"}
DestroyStages == Idle \cup {"waiting", "expired", "clear", "deleting", "orphaned"}

StagesOK ==
  /\ stage \in [Tasks -> ProvisionStages \cup DestroyStages]
  /\ \A p \in Provisions : stage[p] \in ProvisionStages
  /\ \A d \in Destroys : stage[d] \in DestroyStages

TypeOK ==
  /\ up \in BOOLEAN /\ crashes \in 0 .. MaxCrashes /\ machine \in BOOLEAN
  /\ files \subseteq {Guard, "machine-creation"}
  /\ written \in Nat /\ aged \in 0 .. written
  /\ StagesOK
  /\ deadline \in [Destroys -> 0 .. written]
  /\ guardOf \in [Provisions -> 0 .. written]
  /\ passed \in [Destroys -> 0 .. written]
  /\ gone \in [Destroys -> BOOLEAN]
  \* Without the agent there are no workers and no vmadm.
  /\ ~up => \A t \in Tasks : stage[t] \in Idle

\* An agent of an older version may have left its kind of guard.
Init ==
  /\ up = FALSE /\ crashes = 0
  /\ files \in SUBSET {"machine-creation"}
  /\ written = 0 /\ aged = 0
  /\ machine \in BOOLEAN
  /\ stage = [t \in Tasks |-> "idle"]
  /\ deadline = [d \in Destroys |-> 0]
  /\ guardOf = [p \in Provisions |-> 0]
  /\ passed = [d \in Destroys |-> 0]
  /\ gone = [d \in Destroys |-> FALSE]
-----------------------------------------------------------------------------
Goes(t, from, to) ==
  /\ stage[t] = from
  /\ stage' = [stage EXCEPT ![t] = to]

\* The machine is there, or is no longer, after this step.
MachineIs(there) ==
  /\ machine' = there
  /\ gone' = [d \in Destroys |-> gone[d] \/ (~there /\ stage[d] # "idle")]

OnlyStage ==
  UNCHANGED <<agentVars, files, written, aged, machine, deadline, historyVars>>

\* cleanupStaleLocks(): rm -f /var/tmp/machine-creation-*; then tasks are taken.
AgentStarts ==
  /\ ~up
  /\ up' = TRUE
  /\ files' = files \ {"machine-creation"}
  /\ UNCHANGED <<crashes, written, aged, machine, stage, deadline, historyVars>>

AgentCrashSparesVmadm ==
  /\ up /\ crashes < MaxCrashes
  /\ up' = FALSE /\ crashes' = crashes + 1
  /\ stage' = [t \in Tasks |->
                 IF stage[t] \in Idle THEN stage[t]
                 ELSE IF stage[t] \in {"working", "deleting", "orphaned"}
                      THEN "orphaned" ELSE "dead"]
  /\ UNCHANGED <<files, written, aged, machine, deadline, historyVars>>

\* The agent dies; its contract kills every process under it, vmadm included.
AgentCrash ==
  /\ up /\ crashes < MaxCrashes
  /\ up' = FALSE /\ crashes' = crashes + 1
  /\ stage' = [t \in Tasks |->
                 IF stage[t] \in Idle THEN stage[t] ELSE "dead"]
  /\ UNCHANGED <<files, written, aged, machine, deadline, historyVars>>

\* The worker dies alone: timed out, killed or crashed.
WorkerDies(t) ==
  /\ stage[t] \notin Idle \cup {"orphaned"}
  /\ stage' = [stage EXCEPT ![t] =
                 IF @ \in {"working", "deleting"} THEN "orphaned" ELSE "dead"]
  /\ OnlyStage

\* Time passes: some guards turn ten minutes old.
TenMinutes ==
  /\ \E n \in aged + 1 .. written : aged' = n
  /\ UNCHANGED <<agentVars, files, written, machine, stage, deadline, historyVars>>
-----------------------------------------------------------------------------
(* machine_create and machine_reprovision.                                 *)

\* pre_check(): a create wants no such machine or dataset, a reprovision wants
\* it; the list may fail too, and a create that fails to list crashes.
PreCheck(p) ==
  /\ up
  /\ Cardinality({q \in Provisions : stage[q] # "idle"}) < MaxProvisions
  /\ \/ (machine <=> p \in Reprovisions) /\ Goes(p, "idle", "checked")
     \/ ~(machine <=> p \in Reprovisions) /\ Goes(p, "idle", "failed")
     \/ Goes(p, "idle", IF p \in Creates THEN "dead" ELSE "failed")
  /\ OnlyStage

\* getFirstAdminIp() has an error.
NoAdminIp(p) == p \in Creates /\ Goes(p, "checked", "failed") /\ OnlyStage

\* provisionInProgressFile(); its error is ignored.
WriteGuard(p) ==
  /\ Goes(p, "checked", "guarded")
  /\ \/ /\ files' = files \cup {Guard}
        /\ written' = written + 1
        /\ guardOf' = [guardOf EXCEPT ![p] = written + 1]
     \/ UNCHANGED <<files, written, guardOf>>
  /\ UNCHANGED <<agentVars, aged, machine, deadline, passed, gone>>

\* Where an error of a waterfall leads: a create loads and reports, a
\* reprovision removes the guard first.
AfterError(p) == IF p \in Creates THEN "failed" ELSE "failing"

\* ensure_dataset_present() and fetch_dataset(): found, fetched or not fetched;
\* on another error of the list nothing is called any more.
EnsureDatasetPresent(p) ==
  /\ \E to \in {"imaged", AfterError(p), "stuck"} : Goes(p, "guarded", to)
  /\ OnlyStage

\* add_firewall_rules(); a reprovision has no such step.
AddFirewallRules(p) ==
  /\ \/ Goes(p, "imaged", "ready")
     \/ p \in Creates /\ Goes(p, "imaged", "failed")
  /\ OnlyStage

\* vmadm.create() and vmadm.reprovision() begin, or refuse to.
VmadmBegins(p) ==
  /\ IF machine <=> p \in Reprovisions
     THEN Goes(p, "ready", "working") /\ MachineIs(TRUE)
     ELSE Goes(p, "ready", AfterError(p)) /\ UNCHANGED <<machine, gone>>
  /\ UNCHANGED <<agentVars, files, written, aged, deadline, guardOf, passed>>

\* It ends well when the machine is still there.
VmadmWorks(p) ==
  /\ machine
  /\ Goes(p, "working", "worked")
  /\ OnlyStage

\* It fails, and may or may not leave a machine; a worker that is dead does not
\* hear of either.
VmadmFails(p) ==
  /\ \/ Goes(p, "working", AfterError(p))
     \/ Goes(p, "orphaned", "dead")
  /\ \E there \in {FALSE, machine} : MachineIs(there)
  /\ UNCHANGED <<agentVars, files, written, aged, deadline, guardOf, passed>>

\* fs.unlink() of the guard.  When it fails the guard stays, and the task goes on
\* all the same: to vmadm.load() and the verdict.
UnlinkGuard(p) ==
  /\ \/ Goes(p, "worked", "done")
     \/ p \in Reprovisions /\ Goes(p, "worked", "failed")
     \/ Goes(p, "failing", "failed")
  /\ files' \in {files, files \ {Guard}}
  /\ UNCHANGED <<agentVars, written, aged, machine, deadline, historyVars>>
-----------------------------------------------------------------------------
(* machine_destroy.                                                        *)

DestroyStarts(d) ==
  /\ up
  /\ Goes(d, "idle", "waiting")
  /\ gone' = [gone EXCEPT ![d] = ~machine]
  /\ UNCHANGED <<agentVars, files, written, aged, machine, deadline, guardOf, passed>>

PastGuard(d) == passed' = [passed EXCEPT ![d] = written]

\* callbackWhenComplete(), once a second: the first ctime it sees sets expiresAt.
GuardGone(d) ==
  /\ Guard \notin files
  /\ Goes(d, "waiting", "clear")
  /\ PastGuard(d)
  /\ UNCHANGED <<agentVars, files, written, aged, machine, deadline, guardOf, gone>>

ExpiresAt(d) == IF deadline[d] = 0 THEN written ELSE deadline[d]

OverdueAtOnce(d) == TRUE
OverdueNever(d) == FALSE
Overdue(d) == ExpiresAt(d) <= aged

GuardThere(d) ==
  /\ Guard \in files
  /\ deadline' = [deadline EXCEPT ![d] = ExpiresAt(d)]
  /\ IF Overdue(d)
     THEN Goes(d, "waiting", "expired") /\ PastGuard(d)
     ELSE stage[d] = "waiting" /\ UNCHANGED <<stage, passed>>
  /\ UNCHANGED <<agentVars, files, written, aged, machine, guardOf, gone>>

StatFails(d) == Goes(d, "waiting", "failed") /\ OnlyStage

\* Expired: the guard is deleted, or stays when that fails; on in either case.
UnlinkExpired(d) ==
  /\ Goes(d, "expired", "clear")
  /\ files' \in {files, files \ {Guard}}
  /\ UNCHANGED <<agentVars, written, aged, machine, deadline, historyVars>>

\* After the logadm check and the unmount, whose failures do not matter, vmadm
\* deletes.  A machine it does not find is as good as deleted.
DeleteBegins(d) ==
  /\ Goes(d, "clear", IF machine THEN "deleting" ELSE "done")
  /\ OnlyStage

DeleteWorks(d) ==
  /\ \/ Goes(d, "deleting", "done")
     \/ Goes(d, "orphaned", "dead")
  /\ MachineIs(FALSE)
  /\ UNCHANGED <<agentVars, files, written, aged, deadline, guardOf, passed>>

DeleteFailsUnnoticed(d) ==
  /\ \/ Goes(d, "deleting", "done")
     \/ Goes(d, "orphaned", "dead")
  /\ OnlyStage

\* Not found counts as success here too: another destroy was faster.
DeleteFails(d) ==
  /\ \/ Goes(d, "deleting", IF machine THEN "failed" ELSE "done")
     \/ Goes(d, "orphaned", "dead")
  /\ OnlyStage
-----------------------------------------------------------------------------
Provision(p) ==
  \/ PreCheck(p) \/ NoAdminIp(p) \/ WriteGuard(p) \/ EnsureDatasetPresent(p)
  \/ AddFirewallRules(p) \/ VmadmBegins(p) \/ VmadmWorks(p) \/ VmadmFails(p)
  \/ UnlinkGuard(p)

Poll(d) == GuardGone(d) \/ GuardThere(d) \/ StatFails(d)

Delete(d) ==
  \/ UnlinkExpired(d) \/ DeleteBegins(d) \/ DeleteWorks(d) \/ DeleteFails(d)

Next ==
  \/ AgentStarts \/ AgentCrash \/ TenMinutes
  \/ \E t \in Tasks : WorkerDies(t)
  \/ \E p \in Provisions : Provision(p)
  \/ \E d \in Destroys : DestroyStarts(d) \/ Poll(d) \/ Delete(d)

Spec == Init /\ [][Next]_vars

\* Time passes, a destroy looks for the guard, and vmadm answers it; no stat has
\* to fail, and nothing is asked of the provisions, which may hang or be dead.
Fairness ==
  /\ WF_vars(TenMinutes)
  /\ \A d \in Destroys :
       WF_vars(GuardGone(d) \/ GuardThere(d)) /\ WF_vars(Delete(d))

FairSpec == Spec /\ Fairness
-----------------------------------------------------------------------------
(* Properties.                                                             *)

\* "give it at least 10 minutes from when provisioning was started" (common.js):
\* a destroy that found the guard of a provision still under way deletes nothing
\* before that guard is ten minutes old.  A provision that starts after the
\* destroy has looked is not protected.
GivesTenMinutes ==
  \A d \in Destroys, p \in Provisions :
    /\ stage[d] \in {"clear", "deleting"}
    /\ stage[p] \in Provisioning
    /\ guardOf[p] \in 1 .. passed[d]
    => guardOf[p] <= aged

\* A destroy that reports success is right, even if it did not delete the machine
\* itself: at some time since it began the machine was not there.
DestroyTrue == \A d \in Destroys : stage[d] = "done" => gone[d]

\* Every destroy ends, though the provision it waits for hung, failed or died.
DestroyEnds == \A d \in Destroys : stage[d] = "waiting" ~> stage[d] \in Ended
=============================================================================
