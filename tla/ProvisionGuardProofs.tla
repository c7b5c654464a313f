------------------------ MODULE ProvisionGuardProofs ------------------------
(***************************************************************************)
(* What the provision guard does for every number of tasks and crashes.    *)
(*                                                                         *)
(* DestroyTrue holds however many provisions of the machine there are.     *)
(* GivesTenMinutes holds for one provision only: the guard is one file,    *)
(* which a second one rewrites and unlinks.                                *)
(***************************************************************************)
EXTENDS ProvisionGuard, TLAPS

\* What a destroy knows of the machine: had it been absent since the destroy
\* began, the destroy would remember it.
GoneKnown ==
  \A d \in Destroys :
    /\ ~machine /\ stage[d] # "idle" => gone[d]
    /\ stage[d] = "done" => gone[d]

IInv == TypeOK /\ GoneKnown

USE ProvisionGuardAssumption DEF ProvisionGuardAssumption, Provisions, Tasks

LEMMA InitIInv == Init => IInv
<1> SUFFICES ASSUME Init PROVE IInv
  OBVIOUS
<1>1. StagesOK
  BY DEF Init, StagesOK, ProvisionStages, DestroyStages, Idle
<1>2. files \subseteq {Guard, "machine-creation"}
  BY DEF Init, Guard
<1>3. /\ crashes \in 0 .. MaxCrashes /\ written \in Nat /\ aged \in 0 .. written
      /\ up \in BOOLEAN /\ machine \in BOOLEAN
  <2>1. crashes = 0 /\ written = 0 /\ aged = 0
    BY DEF Init
  <2>2. crashes \in 0 .. MaxCrashes /\ written \in Nat /\ aged \in 0 .. written
    BY <2>1
  <2>3. up \in BOOLEAN /\ machine \in BOOLEAN
    BY DEF Init
  <2> QED BY <2>2, <2>3
<1>4. /\ deadline \in [Destroys -> 0 .. written]
      /\ guardOf \in [Provisions -> 0 .. written]
      /\ passed \in [Destroys -> 0 .. written]
      /\ gone \in [Destroys -> BOOLEAN]
  BY DEF Init
<1>5. \A t \in Tasks : stage[t] = "idle"
  BY DEF Init
<1>6. TypeOK
  BY <1>1, <1>2, <1>3, <1>4, <1>5 DEF TypeOK, Idle
<1> QED BY <1>5, <1>6 DEF IInv, GoneKnown

\* A task that moves on to a stage of its kind.
LEMMA MoveOK ==
  ASSUME StagesOK, NEW t \in Tasks, NEW s,
         t \in Provisions => s \in ProvisionStages,
         t \in Destroys => s \in DestroyStages,
         stage' = [stage EXCEPT ![t] = s]
  PROVE  StagesOK'
<1>1. stage' \in [Tasks -> ProvisionStages \cup DestroyStages]
  BY DEF StagesOK
<1>2. ASSUME NEW p \in Provisions PROVE stage'[p] \in ProvisionStages
  BY DEF StagesOK
<1>3. ASSUME NEW d \in Destroys PROVE stage'[d] \in DestroyStages
  BY DEF StagesOK
<1> QED BY <1>1, <1>2, <1>3 DEF StagesOK

\* Every step leaves every task in a stage of its kind.
LEMMA StepStages ==
  ASSUME TypeOK, Next
  PROVE  StagesOK'
<1>0. StagesOK
  BY DEF TypeOK
<1> USE DEF Idle, Ended, Provisioning, ProvisionStages, DestroyStages
<1>1. CASE AgentStarts \/ TenMinutes
  BY <1>0, <1>1 DEF AgentStarts, TenMinutes, StagesOK
<1>2. CASE AgentCrash
  BY <1>0, <1>2 DEF AgentCrash, StagesOK
<1>3. ASSUME NEW t \in Tasks, WorkerDies(t) PROVE StagesOK'
  BY <1>0, <1>3, MoveOK DEF WorkerDies
<1>4. ASSUME NEW p \in Provisions, Provision(p) PROVE StagesOK'
  <2>1. \A s \in ProvisionStages :
          stage' = [stage EXCEPT ![p] = s] => StagesOK'
    BY <1>0, MoveOK
  <2> HIDE DEF StagesOK
  <2>2. \E s \in ProvisionStages : stage' = [stage EXCEPT ![p] = s]
    BY <1>4 DEF Provision, PreCheck, NoAdminIp, WriteGuard,
              EnsureDatasetPresent, AddFirewallRules, VmadmBegins, VmadmWorks,
              VmadmFails, UnlinkGuard, AfterError, Goes
  <2> QED BY <2>1, <2>2
<1>5. ASSUME NEW d \in Destroys, DestroyStarts(d) \/ Poll(d) \/ Delete(d)
      PROVE  StagesOK'
  <2>1. \A s \in DestroyStages :
          stage' = [stage EXCEPT ![d] = s] => StagesOK'
    BY <1>0, MoveOK
  <2>2. \/ \E s \in DestroyStages : stage' = [stage EXCEPT ![d] = s]
        \/ stage' = stage
    BY <1>5 DEF DestroyStarts, Poll, Delete, GuardGone, GuardThere, StatFails,
              UnlinkExpired, DeleteBegins, DeleteWorks, DeleteFails, Goes
  <2>3. stage' = stage => StagesOK'
    BY <1>0 DEF StagesOK
  <2> QED BY <2>1, <2>2, <2>3
<1> QED BY <1>1, <1>2, <1>3, <1>4, <1>5 DEF Next

\* Without the agent only its start and the passing of time happen.
LEMMA StepIdle ==
  ASSUME TypeOK, Next
  PROVE  ~up' => \A t \in Tasks : stage'[t] \in Idle
<1> SUFFICES ASSUME ~up' PROVE \A t \in Tasks : stage'[t] \in Idle
  OBVIOUS
<1>1. CASE AgentStarts \/ TenMinutes
  BY <1>1 DEF AgentStarts, TenMinutes, TypeOK, agentVars
<1>2. CASE AgentCrash
  BY <1>2 DEF AgentCrash, Idle, Ended, TypeOK, StagesOK
<1>3. ASSUME \/ \E t \in Tasks : WorkerDies(t)
             \/ \E p \in Provisions : Provision(p)
             \/ \E d \in Destroys : DestroyStarts(d) \/ Poll(d) \/ Delete(d)
      PROVE  FALSE
  <2>1. ~up
    BY <1>3 DEF WorkerDies, Provision, PreCheck, NoAdminIp, WriteGuard,
              EnsureDatasetPresent, AddFirewallRules, VmadmBegins, VmadmWorks,
              VmadmFails, UnlinkGuard, DestroyStarts, Poll, Delete, GuardGone,
              GuardThere, StatFails, UnlinkExpired, DeleteBegins, DeleteWorks,
              DeleteFails, OnlyStage, agentVars
  <2>2. \A t \in Tasks : stage[t] \in Idle
    BY <2>1 DEF TypeOK
  <2> QED
    BY <1>3, <2>1, <2>2 DEF WorkerDies, Provision, PreCheck, NoAdminIp,
              WriteGuard, EnsureDatasetPresent, AddFirewallRules, VmadmBegins,
              VmadmWorks, VmadmFails, UnlinkGuard, DestroyStarts, Poll, Delete,
              GuardGone, GuardThere, StatFails, UnlinkExpired, DeleteBegins,
              DeleteWorks, DeleteFails, Goes, Idle, Ended
<1> QED BY <1>1, <1>2, <1>3 DEF Next

\* The rest of the types.
LEMMA StepType ==
  ASSUME TypeOK, Next
  PROVE  TypeOK'
<1>0. StagesOK' /\ (~up' => \A t \in Tasks : stage'[t] \in Idle)
  BY StepStages, StepIdle
<1> SUFFICES
      /\ up' \in BOOLEAN /\ crashes' \in 0 .. MaxCrashes /\ machine' \in BOOLEAN
      /\ files' \subseteq {Guard, "machine-creation"}
      /\ written' \in Nat /\ aged' \in 0 .. written'
      /\ deadline' \in [Destroys -> 0 .. written']
      /\ guardOf' \in [Provisions -> 0 .. written']
      /\ passed' \in [Destroys -> 0 .. written']
      /\ gone' \in [Destroys -> BOOLEAN]
  BY <1>0 DEF TypeOK
<1> USE DEF TypeOK, Goes, OnlyStage, agentVars, historyVars
<1>1. CASE AgentStarts
  BY <1>1 DEF AgentStarts
<1>2. CASE AgentCrash
  <2>1. crashes' \in 0 .. MaxCrashes
    BY <1>2 DEF AgentCrash
  <2>2. up' \in BOOLEAN
    BY <1>2 DEF AgentCrash
  <2> QED BY <1>2, <2>1, <2>2 DEF AgentCrash
<1>3. CASE TenMinutes
  BY <1>3 DEF TenMinutes
<1>4. ASSUME NEW t \in Tasks, WorkerDies(t) PROVE TypeOK'
  BY <1>4, <1>0 DEF WorkerDies
<1>5. ASSUME NEW p \in Provisions, Provision(p) PROVE TypeOK'
  <2>1. CASE WriteGuard(p)
    BY <2>1, <1>0 DEF WriteGuard
  <2>2. CASE VmadmBegins(p) \/ VmadmFails(p)
    BY <2>2, <1>0 DEF VmadmBegins, VmadmFails, MachineIs
  <2>3. CASE UnlinkGuard(p)
    BY <2>3, <1>0 DEF UnlinkGuard
  <2>4. CASE PreCheck(p) \/ NoAdminIp(p) \/ EnsureDatasetPresent(p)
             \/ AddFirewallRules(p) \/ VmadmWorks(p)
    BY <2>4, <1>0 DEF PreCheck, NoAdminIp, EnsureDatasetPresent,
              AddFirewallRules, VmadmWorks
  <2> QED BY <1>5, <2>1, <2>2, <2>3, <2>4 DEF Provision
<1>6. ASSUME NEW d \in Destroys, DestroyStarts(d) \/ Poll(d) \/ Delete(d)
      PROVE  TypeOK'
  <2>1. CASE DestroyStarts(d)
    BY <2>1, <1>0 DEF DestroyStarts
  <2>2. CASE GuardGone(d)
    BY <2>2, <1>0 DEF GuardGone, PastGuard
  <2>3. CASE GuardThere(d)
    BY <2>3, <1>0 DEF GuardThere, PastGuard, ExpiresAt
  <2>4. CASE UnlinkExpired(d)
    BY <2>4, <1>0 DEF UnlinkExpired
  <2>5. CASE DeleteWorks(d)
    BY <2>5, <1>0 DEF DeleteWorks, MachineIs
  <2>6. CASE StatFails(d) \/ DeleteBegins(d) \/ DeleteFails(d)
    BY <2>6, <1>0 DEF StatFails, DeleteBegins, DeleteFails
  <2> QED BY <1>6, <2>1, <2>2, <2>3, <2>4, <2>5, <2>6 DEF Poll, Delete
<1> QED BY <1>1, <1>2, <1>3, <1>4, <1>5, <1>6 DEF Next
-----------------------------------------------------------------------------
(* The machine and what destroys say of it.                                *)

\* A destroy never forgets that the machine was absent, and every change of the
\* machine is seen by the destroys under way.
LEMMA StepGone ==
  ASSUME TypeOK, GoneKnown, Next
  PROVE  GoneKnown'
<1> USE DEF TypeOK, StagesOK, Goes, OnlyStage, historyVars
<1>1. CASE AgentStarts \/ TenMinutes
  BY <1>1 DEF AgentStarts, TenMinutes, GoneKnown
<1>2. CASE AgentCrash
  <2>1. machine' = machine /\ gone' = gone
    BY <1>2 DEF AgentCrash
  <2>2. \A d \in Destroys :
          stage'[d] = IF stage[d] \in Idle THEN stage[d] ELSE "dead"
    BY <1>2 DEF AgentCrash
  <2> QED BY <2>1, <2>2 DEF GoneKnown, Idle, Ended
<1>3. ASSUME NEW t \in Tasks, WorkerDies(t) PROVE GoneKnown'
  <2>1. machine' = machine /\ gone' = gone
    BY <1>3 DEF WorkerDies
  <2>2. \A d \in Destroys :
          \/ stage'[d] = stage[d]
          \/ stage[d] # "idle" /\ stage'[d] \in {"orphaned", "dead"}
    BY <1>3 DEF WorkerDies, Idle
  <2> QED BY <2>1, <2>2 DEF GoneKnown
<1>4. ASSUME NEW p \in Provisions, Provision(p) PROVE GoneKnown'
  <2>0. \A s : stage' = [stage EXCEPT ![p] = s] =>
                 \A d \in Destroys : stage'[d] = stage[d]
    OBVIOUS
  <2>1. CASE VmadmBegins(p) \/ VmadmFails(p)
    <3>1. \A d \in Destroys : stage'[d] = stage[d]
      BY <2>0, <2>1 DEF VmadmBegins, VmadmFails
    <3>2. \/ machine' = machine /\ gone' = gone
          \/ \E there \in BOOLEAN : MachineIs(there)
      BY <2>1 DEF VmadmBegins, VmadmFails
    <3>3. CASE machine' = machine /\ gone' = gone
      BY <3>1, <3>3 DEF GoneKnown
    <3>4. ASSUME NEW there \in BOOLEAN, MachineIs(there) PROVE GoneKnown'
      <4>1. \A d \in Destroys : gone'[d] = (gone[d] \/ (~there /\ stage[d] # "idle"))
        BY <3>4 DEF MachineIs
      <4>2. machine' = there
        BY <3>4 DEF MachineIs
      <4> QED BY <3>1, <4>1, <4>2 DEF GoneKnown
    <3> QED BY <3>2, <3>3, <3>4
  <2>2. CASE PreCheck(p) \/ NoAdminIp(p) \/ WriteGuard(p)
             \/ EnsureDatasetPresent(p) \/ AddFirewallRules(p)
             \/ VmadmWorks(p) \/ UnlinkGuard(p)
    <3>1. machine' = machine /\ gone' = gone
      BY <2>2 DEF PreCheck, NoAdminIp, WriteGuard, EnsureDatasetPresent,
                  AddFirewallRules, VmadmWorks, UnlinkGuard
    <3>2. \A d \in Destroys : stage'[d] = stage[d]
      BY <2>0, <2>2 DEF PreCheck, NoAdminIp, WriteGuard, EnsureDatasetPresent,
                  AddFirewallRules, VmadmWorks, UnlinkGuard
    <3> QED BY <3>1, <3>2 DEF GoneKnown
  <2> QED BY <1>4, <2>1, <2>2 DEF Provision
<1>5. ASSUME NEW d \in Destroys, DestroyStarts(d) \/ Poll(d) \/ Delete(d)
      PROVE  GoneKnown'
  <2>1. CASE DestroyStarts(d)
    BY <2>1 DEF DestroyStarts, GoneKnown
  <2>2. CASE Poll(d) \/ UnlinkExpired(d) \/ DeleteBegins(d) \/ DeleteFails(d)
    <3>1. machine' = machine /\ gone' = gone
      BY <2>2 DEF Poll, GuardGone, GuardThere, StatFails, UnlinkExpired,
                  DeleteBegins, DeleteFails
    <3>2. \A e \in Destroys : e # d => stage'[e] = stage[e]
      BY <2>2 DEF Poll, GuardGone, GuardThere, StatFails, UnlinkExpired,
                  DeleteBegins, DeleteFails
    <3>3. stage[d] # "idle" /\ (stage'[d] = "done" => ~machine)
      BY <2>2 DEF Poll, GuardGone, GuardThere, StatFails, UnlinkExpired,
                  DeleteBegins, DeleteFails
    <3> QED BY <3>1, <3>2, <3>3 DEF GoneKnown
  <2>3. CASE DeleteWorks(d)
    BY <2>3 DEF DeleteWorks, MachineIs, GoneKnown
  <2> QED BY <1>5, <2>1, <2>2, <2>3 DEF Delete
<1> QED BY <1>1, <1>2, <1>3, <1>4, <1>5 DEF Next

-----------------------------------------------------------------------------
(* The guard.                                                              *)

\* Only a provision writes a guard.
LEMMA StepGuard ==
  ASSUME TypeOK, Next
  PROVE  \/ \E p \in Provisions : WriteGuard(p)
         \/ /\ files' \subseteq files
            /\ written' = written /\ guardOf' = guardOf
<1> USE DEF OnlyStage, historyVars
<1>1. CASE AgentStarts \/ AgentCrash \/ TenMinutes \/ \E t \in Tasks : WorkerDies(t)
  BY <1>1 DEF AgentStarts, AgentCrash, TenMinutes, WorkerDies
<1>2. ASSUME NEW p \in Provisions, Provision(p), ~WriteGuard(p)
      PROVE  files' \subseteq files /\ written' = written /\ guardOf' = guardOf
  BY <1>2 DEF Provision, PreCheck, NoAdminIp, EnsureDatasetPresent,
              AddFirewallRules, VmadmBegins, VmadmWorks, VmadmFails,
              UnlinkGuard, MachineIs
<1>3. ASSUME NEW d \in Destroys, DestroyStarts(d) \/ Poll(d) \/ Delete(d)
      PROVE  files' \subseteq files /\ written' = written /\ guardOf' = guardOf
  BY <1>3 DEF DestroyStarts, Poll, Delete, GuardGone, GuardThere, StatFails,
              UnlinkExpired, DeleteBegins, DeleteWorks, DeleteFails, MachineIs
<1> QED BY <1>1, <1>2, <1>3 DEF Next

LEMMA StepIInv == IInv /\ [Next]_vars => IInv'
<1>1. IInv /\ Next => IInv'
  BY StepType, StepGone DEF IInv
<1>2. IInv /\ UNCHANGED vars => IInv'
  BY DEF IInv, vars, agentVars, historyVars, TypeOK, StagesOK, GoneKnown
<1> QED BY <1>1, <1>2

THEOREM Invariance == Spec => []IInv
BY InitIInv, StepIInv, PTL DEF Spec

\* Tasks only ever are in stages of their kind, and none outlives the agent.
THEOREM TypeCorrect == Spec => []TypeOK
<1>1. IInv => TypeOK
  BY DEF IInv
<1> QED BY <1>1, Invariance, PTL

\* A destroy that machine_destroy.js answers with success is right: the machine
\* was absent at some time since it began, whoever deleted it.
THEOREM DestroysTruthful == Spec => []DestroyTrue
<1>1. IInv => DestroyTrue
  BY DEF IInv, GoneKnown, DestroyTrue
<1> QED BY <1>1, Invariance, PTL
-----------------------------------------------------------------------------
(* Ten minutes for the only provision of a machine.                        *)

OneProvision == \E p : Provisions = {p}

\* With one provision there is at most one guard ever, number 1.  Whoever removed
\* it while the provision is under way, or has seen it expire, did so after ten
\* minutes.
Numbered ==
  \A p \in Provisions :
    /\ guardOf[p] = written /\ written <= 1
    /\ stage[p] \in {"idle", "checked"} => written = 0

Removed ==
  /\ Guard \in files => written >= 1
  /\ \A d \in Destroys : stage[d] = "expired" => aged >= 1
  /\ \A p \in Provisions :
       stage[p] \in Provisioning /\ written = 1 /\ Guard \notin files => aged >= 1

GInv == Numbered /\ Removed /\ GivesTenMinutes

LEMMA InitGInv == Init => GInv
BY DEF Init, GInv, Numbered, Removed, GivesTenMinutes, Guard, Provisioning

\* A provision under way has come from the stage before, and none goes back.
LEMMA ProvisionMoves ==
  ASSUME TypeOK, Next, NEW p \in Provisions
  PROVE  /\ stage'[p] \in {"idle", "checked"} => stage[p] \in {"idle", "checked"}
         /\ stage'[p] \in Provisioning =>
              stage[p] \in Provisioning \/ WriteGuard(p)
<1> USE DEF TypeOK, StagesOK, Goes, OnlyStage, Provisioning
<1>1. CASE AgentStarts \/ AgentCrash \/ TenMinutes
  BY <1>1 DEF AgentStarts, AgentCrash, TenMinutes
<1>2. ASSUME NEW t \in Tasks, WorkerDies(t)
      PROVE  stage'[p] = stage[p] \/ stage'[p] \in {"orphaned", "dead"}
  BY <1>2 DEF WorkerDies
<1>3. ASSUME NEW q \in Provisions, Provision(q), q # p PROVE stage'[p] = stage[p]
  BY <1>3 DEF Provision, PreCheck, NoAdminIp, WriteGuard, EnsureDatasetPresent,
              AddFirewallRules, VmadmBegins, VmadmWorks, VmadmFails, UnlinkGuard
<1>4. ASSUME Provision(p)
      PROVE  \/ WriteGuard(p) /\ stage'[p] = "guarded"
             \/ stage[p] \in Provisioning /\ stage'[p] \notin {"idle", "checked"}
             \/ stage[p] \in {"idle", "checked"} /\ stage'[p] \notin Provisioning
             \/ stage'[p] \in {"dead", "failed"}
  BY <1>4 DEF Provision, PreCheck, NoAdminIp, WriteGuard, EnsureDatasetPresent,
              AddFirewallRules, VmadmBegins, VmadmWorks, VmadmFails,
              UnlinkGuard, AfterError
<1>5. ASSUME NEW d \in Destroys, DestroyStarts(d) \/ Poll(d) \/ Delete(d)
      PROVE  stage'[p] = stage[p]
  BY <1>5 DEF DestroyStarts, Poll, Delete, GuardGone, GuardThere, StatFails,
              UnlinkExpired, DeleteBegins, DeleteWorks, DeleteFails
<1> QED BY <1>1, <1>2, <1>3, <1>4, <1>5 DEF Next

\* The clock does not go back.
LEMMA AgedGrows ==
  ASSUME TypeOK, Next
  PROVE  aged' >= aged
<1> USE DEF TypeOK, OnlyStage
<1>1. CASE TenMinutes
  BY <1>1 DEF TenMinutes
<1>2. CASE ~TenMinutes
  <2>1. aged' = aged
    BY <1>2 DEF Next, AgentStarts, AgentCrash, WorkerDies, Provision, PreCheck,
              NoAdminIp, WriteGuard, EnsureDatasetPresent, AddFirewallRules,
              VmadmBegins, VmadmWorks, VmadmFails, UnlinkGuard, DestroyStarts,
              Poll, Delete, GuardGone, GuardThere, StatFails, UnlinkExpired,
              DeleteBegins, DeleteWorks, DeleteFails
  <2> QED BY <2>1
<1> QED BY <1>1, <1>2

LEMMA StepNumbered ==
  ASSUME OneProvision, TypeOK, GInv, Next
  PROVE  Numbered'
<1> SUFFICES ASSUME NEW p \in Provisions
             PROVE  /\ guardOf'[p] = written' /\ written' <= 1
                    /\ stage'[p] \in {"idle", "checked"} => written' = 0
  BY DEF Numbered
<1>1. CASE WriteGuard(p)
  BY <1>1 DEF WriteGuard, Goes, GInv, Numbered, TypeOK, StagesOK
<1>2. CASE ~WriteGuard(p)
  <2>1. written' = written /\ guardOf' = guardOf
    BY <1>2, StepGuard DEF OneProvision
  <2> QED BY <2>1, ProvisionMoves DEF GInv, Numbered
<1> QED BY <1>1, <1>2

\* A destroy whose time has run out saw the one guard, and it was old.
LEMMA ExpiredIsOld ==
  ASSUME OneProvision, TypeOK, GInv, NEW d \in Destroys, GuardThere(d), Overdue(d)
  PROVE  aged >= 1
<1>1. written = 1
  BY DEF OneProvision, GuardThere, GInv, Removed, Numbered, TypeOK
<1>2. deadline[d] \in 0 .. 1
  BY <1>1 DEF TypeOK
<1> QED BY <1>1, <1>2 DEF Overdue, ExpiresAt, TypeOK

\* Who takes the guard away.
LEMMA GuardGoes ==
  ASSUME TypeOK, Next, Guard \in files, Guard \notin files'
  PROVE  \/ \E p \in Provisions : UnlinkGuard(p)
         \/ \E d \in Destroys : UnlinkExpired(d)
<1> USE DEF OnlyStage, historyVars
<1>1. ~(AgentStarts \/ AgentCrash \/ TenMinutes \/ \E t \in Tasks : WorkerDies(t))
  BY DEF AgentStarts, AgentCrash, TenMinutes, WorkerDies, Guard
<1>2. ASSUME NEW p \in Provisions, Provision(p) PROVE UnlinkGuard(p)
  BY <1>2 DEF Provision, PreCheck, NoAdminIp, WriteGuard, EnsureDatasetPresent,
              AddFirewallRules, VmadmBegins, VmadmWorks, VmadmFails, MachineIs
<1>3. ASSUME NEW d \in Destroys, DestroyStarts(d) \/ Poll(d) \/ Delete(d)
      PROVE  UnlinkExpired(d)
  BY <1>3 DEF DestroyStarts, Poll, Delete, GuardGone, GuardThere, StatFails,
              DeleteBegins, DeleteWorks, DeleteFails, MachineIs
<1> QED BY <1>1, <1>2, <1>3 DEF Next

\* How a destroy comes to have expired the guard, or to be past it.
LEMMA DestroyMoves ==
  ASSUME TypeOK, Next, NEW d \in Destroys
  PROVE  /\ stage'[d] = "expired" =>
              stage[d] = "expired" \/ (GuardThere(d) /\ Overdue(d))
         /\ stage'[d] \in {"clear", "deleting"} =>
              \/ GuardGone(d)
              \/ UnlinkExpired(d)
              \/ stage[d] \in {"clear", "deleting"} /\ passed'[d] = passed[d]
<1> USE DEF TypeOK, StagesOK, Goes, OnlyStage, historyVars
<1>1. ASSUME AgentStarts \/ AgentCrash \/ TenMinutes
      PROVE  /\ stage'[d] = stage[d] \/ stage'[d] = "dead"
             /\ passed' = passed
  BY <1>1 DEF AgentStarts, AgentCrash, TenMinutes
<1>2. ASSUME NEW t \in Tasks, WorkerDies(t)
      PROVE  /\ stage'[d] = stage[d] \/ stage'[d] \in {"orphaned", "dead"}
             /\ passed' = passed
  BY <1>2 DEF WorkerDies
<1>3. ASSUME NEW p \in Provisions, Provision(p)
      PROVE  stage'[d] = stage[d] /\ passed' = passed
  BY <1>3 DEF Provision, PreCheck, NoAdminIp, WriteGuard, EnsureDatasetPresent,
              AddFirewallRules, VmadmBegins, VmadmWorks, VmadmFails,
              UnlinkGuard, MachineIs
<1>4. ASSUME NEW e \in Destroys, e # d, DestroyStarts(e) \/ Poll(e) \/ Delete(e)
      PROVE  stage'[d] = stage[d] /\ passed'[d] = passed[d]
  BY <1>4 DEF DestroyStarts, Poll, Delete, GuardGone, GuardThere, StatFails,
              UnlinkExpired, DeleteBegins, DeleteWorks, DeleteFails, MachineIs,
              PastGuard
<1>5. CASE DestroyStarts(d) \/ StatFails(d) \/ DeleteWorks(d) \/ DeleteFails(d)
  BY <1>5 DEF DestroyStarts, StatFails, DeleteWorks, DeleteFails
<1>6. CASE DeleteBegins(d)
  BY <1>6 DEF DeleteBegins
<1>7. CASE GuardGone(d) \/ UnlinkExpired(d)
  BY <1>7 DEF GuardGone, UnlinkExpired
<1>8. ASSUME GuardThere(d)
      PROVE  \/ stage'[d] = "expired" /\ Overdue(d)
             \/ stage'[d] = "waiting"
  <2>1. CASE Overdue(d)
    BY <1>8, <2>1 DEF GuardThere
  <2>2. CASE ~Overdue(d)
    BY <1>8, <2>2 DEF GuardThere
  <2> QED BY <2>1, <2>2
<1> QED BY <1>1, <1>2, <1>3, <1>4, <1>5, <1>6, <1>7, <1>8 DEF Next, Poll, Delete

LEMMA StepRemoved ==
  ASSUME OneProvision, TypeOK, TypeOK', GInv, Next
  PROVE  Removed'
<1>0. aged' >= aged /\ aged \in Nat /\ aged' \in Nat
  BY AgedGrows DEF TypeOK
<1>1. Guard \in files' => written' >= 1
  <2>1. ASSUME NEW p \in Provisions, WriteGuard(p), Guard \in files'
        PROVE  written' >= 1
    BY <2>1 DEF WriteGuard, TypeOK, GInv, Removed
  <2> QED BY <2>1, StepGuard DEF GInv, Removed
<1>2. ASSUME NEW d \in Destroys, stage'[d] = "expired" PROVE aged' >= 1
  BY <1>0, <1>2, DestroyMoves, ExpiredIsOld DEF GInv, Removed
<1>3. ASSUME NEW p \in Provisions, stage'[p] \in Provisioning, written' = 1,
             Guard \notin files'
      PROVE  aged' >= 1
  <2>1. CASE WriteGuard(p)
    BY <1>3, <2>1 DEF WriteGuard, Goes, GInv, Numbered, TypeOK
  <2>2. CASE ~WriteGuard(p)
    <3>1. stage[p] \in Provisioning /\ written = 1
      BY <1>3, <2>2, ProvisionMoves, StepGuard DEF OneProvision
    <3>2. CASE Guard \notin files
      BY <1>0, <3>1, <3>2 DEF GInv, Removed
    <3>3. ASSUME NEW d \in Destroys, UnlinkExpired(d) PROVE aged' >= 1
      BY <1>0, <3>3 DEF UnlinkExpired, Goes, GInv, Removed
    <3>4. ASSUME NEW q \in Provisions, UnlinkGuard(q) PROVE FALSE
      BY <1>3, <3>4 DEF UnlinkGuard, Goes, OneProvision, TypeOK, StagesOK,
                        Provisioning
    <3> QED BY <1>3, <3>2, <3>3, <3>4, GuardGoes
  <2> QED BY <2>1, <2>2
<1> QED BY <1>1, <1>2, <1>3 DEF Removed

LEMMA StepTenMinutes ==
  ASSUME OneProvision, TypeOK, TypeOK', GInv, Next
  PROVE  GivesTenMinutes'
<1>0. aged' >= aged /\ aged \in Nat /\ aged' \in Nat
  BY AgedGrows DEF TypeOK
<1> SUFFICES ASSUME NEW d \in Destroys, NEW p \in Provisions,
                    stage'[d] \in {"clear", "deleting"},
                    stage'[p] \in Provisioning,
                    guardOf'[p] \in 1 .. passed'[d]
             PROVE  guardOf'[p] <= aged'
  BY DEF GivesTenMinutes
<1>1. guardOf'[p] = 1 /\ written' = 1
  BY StepNumbered DEF Numbered, TypeOK
<1>2. CASE WriteGuard(p)
  <2>1. stage[d] = stage'[d] /\ passed' = passed /\ written = 0
    BY <1>2 DEF WriteGuard, Goes, GInv, Numbered, TypeOK, StagesOK
  <2>2. passed'[d] = 0
    BY <2>1 DEF TypeOK
  <2> QED BY <2>2, <1>1
<1>3. CASE ~WriteGuard(p)
  <2>1. /\ stage[p] \in Provisioning /\ written = 1
        /\ guardOf'[p] = guardOf[p]
    BY <1>1, <1>3, ProvisionMoves, StepGuard DEF OneProvision
  <2>2. CASE GuardGone(d)
    BY <1>0, <1>1, <2>1, <2>2 DEF GuardGone, GInv, Removed
  <2>3. CASE UnlinkExpired(d)
    BY <1>0, <1>1, <2>3 DEF UnlinkExpired, Goes, GInv, Removed
  <2>4. CASE stage[d] \in {"clear", "deleting"} /\ passed'[d] = passed[d]
    BY <1>0, <2>1, <2>4 DEF GInv, GivesTenMinutes, TypeOK
  <2> QED BY <2>2, <2>3, <2>4, DestroyMoves
<1> QED BY <1>2, <1>3

\* The only provision of a machine has its ten minutes: a destroy that finds its
\* guard does not delete the machine under it before.
THEOREM OneProvisionProtected ==
  ASSUME OneProvision
  PROVE  Spec => []GivesTenMinutes
<1>1. IInv /\ IInv' /\ GInv /\ [Next]_vars => GInv'
  <2>1. CASE Next
    BY <2>1, StepNumbered, StepRemoved, StepTenMinutes DEF IInv, GInv
  <2>2. CASE UNCHANGED vars
    BY <2>2 DEF vars, agentVars, historyVars, GInv, Numbered, Removed,
                GivesTenMinutes
  <2> QED BY <2>1, <2>2
<1>2. GInv => GivesTenMinutes
  BY DEF GInv
<1> QED BY <1>1, <1>2, InitGInv, Invariance, PTL DEF Spec
=============================================================================
