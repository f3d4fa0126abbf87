------------------- MODULE ScheduledMachineResources_proofs -------------------
(***************************************************************************)
(* Proofs about the CAPI objects of a ScheduledMachine, for every grace    *)
(* period and every number of edits and reclaims: that none is left behind *)
(* by a resource that has no use for it, as long as no call fails and the  *)
(* controller does not die; and that a running resource reports their      *)
(* removal only when it is complete, whatever fails. Both rest on where a  *)
(* reconcile stands (ScheduledMachine_proofs), and so on reconciles that   *)
(* start from the current object.                                          *)
(***************************************************************************)
EXTENDS ScheduledMachine_proofs

(***************************************************************************)
(* The inductive invariant.                                                *)
(***************************************************************************)
\* The phases in which the resource may have CAPI objects in place.
Holding == {"Active", "ShuttingDown", "EmergencyRemove"}

InCreation == ctl.pc \in CreateSteps \/ (ctl.pc = "patch" /\ ctl.target = "Active")

EmergencyUnderWay ==
  /\ ctl.task = "emergency"
  /\ ctl.pc \in EmergencySteps \/ (ctl.pc = "patch" /\ ctl.target = "Disabled")

\* No phase is written before the finalizer is; only the emergency flow writes
\* EmergencyRemove. Faults and crashes change neither.
Routed ==
  /\ ~sm.finalizer => sm.phase = "Unset"
  /\ ctl.pc = "patch" /\ ctl.target = "EmergencyRemove" => ctl.task = "emergency"

\* What is in place, by the phase and by how far the removal has come. Without
\* faults EmergencyRemove is a phase no reconcile starts from.
Accounts ==
  /\ sm.phase \notin Holding /\ ~InCreation => NothingPresent
  /\ sm.phase = "EmergencyRemove" => EmergencyUnderWay
  /\ ctl.pc \in {"deleteBootstrap", "deleteInfrastructure"} => capi["Machine"] # "present"
  /\ ctl.pc = "deleteInfrastructure" => capi["Bootstrap"] # "present"
  /\ ctl.pc \in {"unfinalize", "disable", "clear"} => NothingPresent
  /\ ctl.pc = "patch" /\ ctl.target \notin Holding => NothingPresent

Accounted == FaultFree => Accounts

(***************************************************************************)
(* Faults.                                                                 *)
(***************************************************************************)
\* Counts of faults and crashes only grow, so what is free of them always was.
LEMMA FaultFreeBefore ==
  ASSUME TypeOK, [Next]_vars, FaultFree'
  PROVE  FaultFree /\ ~Crash /\ ~CleanupTimesOut
<1>1. spent \in Budget /\ spent.faults \in Nat /\ spent.crashes \in Nat
  BY ConstantsAssumption DEF ConstantsAssumption, TypeOK, Budget
<1>2. ASSUME spent' = [spent EXCEPT !.faults = @ + 1] PROVE FALSE
  BY <1>1, <1>2 DEF FaultFree, Budget
<1>3. ASSUME spent' = [spent EXCEPT !.crashes = @ + 1] PROVE FALSE
  BY <1>1, <1>3 DEF FaultFree, Budget
<1>4. spent' = spent => FaultFree
  BY DEF FaultFree
<1>5. ASSUME UserEdits \/ AgentRequestsReclaim PROVE FaultFree
  <2>1. spent'.faults = spent.faults /\ spent'.crashes = spent.crashes
    BY <1>1, <1>5 DEF UserEdits, AgentRequestsReclaim, Budget
  <2> QED
    BY <2>1 DEF FaultFree
<1>6. \/ spent' = spent \/ spent' = [spent EXCEPT !.faults = @ + 1]
      \/ spent' = [spent EXCEPT !.crashes = @ + 1]
      \/ UserEdits \/ AgentRequestsReclaim
  BY DEF Next, Reconcile, Capi, Observe, Outside, StartDeletion, StartFinalizer, RejectSpec,
     StartKillSwitch, StartInner, AddFinalizer, RemoveFinalizer, UpdatePhase,
     CheckEmergencyReclaim, ResolveSchedule, Preflight, AddMachineToCluster, CreateObject,
     RemoveMachineFromCluster, DeleteObject, CleanupTimesOut, Drain, DisableSchedule,
     ClearReclaimAnnotations, EnrichStatus, Crash, NodeJoins, NodeLeaves, TeardownEnds,
     GarbageCollect, Tick, Gone, vars, Charge
<1>7. ~Crash /\ ~CleanupTimesOut
  BY <1>2, <1>3 DEF Crash, CleanupTimesOut
<1> QED
  BY <1>2, <1>3, <1>4, <1>5, <1>6, <1>7

\* Without faults every answer is the good one.
LEMMA AnswerIsGood ==
  ASSUME TypeOK, NEW a \in Answers, Charge(a), FaultFree'
  PROVE  a = "ok"
<1>1. spent \in Budget /\ spent.faults \in Nat
  BY ConstantsAssumption DEF ConstantsAssumption, TypeOK, Budget
<1>2. ASSUME a # "ok" PROVE FALSE
  <2>1. spent'.faults = spent.faults + 1
    BY <1>1, <1>2 DEF Charge, Budget
  <2> QED
    BY <1>1, <2>1 DEF FaultFree
<1> QED
  BY <1>2

(***************************************************************************)
(* The finalizer comes before the first phase.                             *)
(***************************************************************************)
\* No step leaves an object that has no finalizer in a phase.
LEMMA FinalizerFirst ==
  ASSUME TypeOK, Standing, Routed, [Next]_vars
  PROVE  ~sm'.finalizer => sm'.phase = "Unset"
<1>0. sm \in Object /\ ctl \in Control /\ ctl.obj \in Object
  BY DEF TypeOK, Control
<1>w. ctl.pc \notin {"idle", "finalize"} => sm.finalizer
  BY DEF Standing, Owned
<1>1. CASE sm' = sm
  BY <1>1 DEF Routed
<1>2. CASE sm' = NoObject
  BY <1>2 DEF NoObject
<1>3. CASE AddFinalizer
  BY <1>0, <1>3 DEF AddFinalizer, Routed, Object
<1>4. CASE UpdatePhase \/ DisableSchedule \/ EnrichStatus
  <2>1. sm.finalizer
    BY <1>4, <1>w DEF UpdatePhase, DisableSchedule, EnrichStatus
  <2>2. sm'.finalizer = sm.finalizer
    BY <1>0, <1>4 DEF UpdatePhase, DisableSchedule, EnrichStatus, WithPhase, Object
  <2> QED
    BY <2>1, <2>2
<1>5. CASE ResolveSchedule
  <2>1. PICK verdict \in Verdicts :
          sm' \in {sm, PersistSpotSchedule(ctl.obj, verdict)}
    BY <1>5 DEF ResolveSchedule
  <2>2. sm.finalizer /\ ctl.obj.active = sm.active
    BY <1>5, <1>w DEF ResolveSchedule, Standing, SnapshotCurrent
  <2> QED
    BY <1>0, <2>1, <2>2, PersistHolds
<1>6. CASE UserEdits
  <2>1. \/ sm' = NoObject
        \/ sm'.finalizer = sm.finalizer /\ sm'.phase = sm.phase
    BY <1>0, <1>6 DEF UserEdits, Edits, Object
  <2> QED
    BY <1>2, <2>1 DEF Routed
<1>7. CASE Tick
  BY <1>0, <1>7 DEF Tick, Aged, Object, Routed
<1>8. \/ sm' = sm \/ sm' = NoObject \/ AddFinalizer \/ UpdatePhase \/ DisableSchedule
      \/ EnrichStatus \/ ResolveSchedule \/ UserEdits \/ Tick
  BY DEF Next, Reconcile, Capi, Observe, Outside, StartDeletion, StartFinalizer, RejectSpec,
     StartKillSwitch, StartInner, RemoveFinalizer, CheckEmergencyReclaim, Preflight,
     AddMachineToCluster, CreateObject, RemoveMachineFromCluster, DeleteObject, CleanupTimesOut,
     Drain, ClearReclaimAnnotations, Crash, AgentRequestsReclaim, NodeJoins, NodeLeaves,
     TeardownEnds, GarbageCollect, Gone, vars
<1> QED
  BY <1>1, <1>2, <1>3, <1>4, <1>5, <1>6, <1>7, <1>8

\* The phase writes a step may lead to: EmergencyRemove is for the emergency flow.
LEMMA EmergencyAnnounced ==
  ASSUME TypeOK, TaskKnown, Routed, [Next]_vars,
         ctl'.pc = "patch", ctl'.target = "EmergencyRemove"
  PROVE  ctl'.task = "emergency"
<1>0. ctl \in Control /\ ctl.obj \in Object /\ ctl.task \in Tasks
  BY DEF TypeOK, Control
<1>1. CASE ctl'.pc = ctl.pc /\ ctl'.target = ctl.target /\ ctl'.task = ctl.task
  BY <1>1 DEF Routed
<1>2. ASSUME ctl' = Idle PROVE FALSE
  BY <1>2, IdleFacts
<1>3. ASSUME NEW pc \in Steps \ {"patch"}, NEW task \in Tasks, ctl' = At(pc, task) PROVE FALSE
  BY <1>3, AtFacts
<1>4. ASSUME NEW task \in Tasks, NEW target \in Phases \ {"EmergencyRemove"},
             ctl' = PatchPhase(task, target)
      PROVE  FALSE
  BY <1>4, PatchFacts
<1>5. CASE ctl' = PatchPhase("emergency", "EmergencyRemove")
  <2>1. "emergency" \in Tasks /\ "EmergencyRemove" \in Phases
    BY DEF Tasks, Phases
  <2> QED
    BY <1>5, <2>1, PatchFacts
<1>6. /\ {"none", "deletion", "kill", "shutdown", "emergency"} = Tasks
      /\ {"Active", "Inactive", "Disabled", "ShuttingDown", "Pending", "Terminated", "Error"}
           = Phases \ {"EmergencyRemove", "Unset"}
      /\ {"finalize", "unfinalize", "preflight", "enrich", "drain", "disable", "clear",
          "createBootstrap", "createInfrastructure", "createMachine",
          "deleteMachine", "deleteBootstrap", "deleteInfrastructure"} \subseteq Steps \ {"patch"}
  BY Literals DEF Tasks, Phases
<1>7. CASE ResolveSchedule
  <2>1. PICK verdict \in Verdicts :
          ctl' = PhaseHandler(ctl.obj, ShouldBeActive(ctl.obj, verdict))
    BY <1>2, <1>7 DEF ResolveSchedule, Proceed, Succeed, GoTo, Fail
  <2> DEFINE active == ShouldBeActive(ctl.obj, verdict)
  <2>2. active \in BOOLEAN
    BY DEF ShouldBeActive
  <2> HIDE DEF active
  <2>3. \/ ctl' = Idle \/ ctl' = At("preflight", "none") \/ ctl' = At("enrich", "none")
        \/ ctl' = At("drain", "shutdown") \/ ctl' = PatchPhaseWithGrace("ShuttingDown")
        \/ \E t \in {"Disabled", "Inactive", "ShuttingDown", "Pending"} :
             ctl' = PatchPhase("none", t)
    BY <1>0, <2>1, <2>2, HandlerCases DEF active
  <2> QED
    BY <1>2, <1>3, <1>4, <1>6, <2>3, GracePatchFacts
<1>8. CASE RemoveMachineFromCluster
  <2>1. ctl.task \in Tasks \ {"none"}
    BY <1>0, <1>8 DEF RemoveMachineFromCluster, DeleteObject, DeleteSteps, TaskKnown
  <2>2. \/ ctl' = Idle
        \/ \E pc \in DeleteSteps : ctl' = At(pc, ctl.task)
        \/ ctl' = AfterRemoval(ctl.task)
        \/ ctl' = PatchPhase("shutdown", "Error")
    BY <1>8 DEF RemoveMachineFromCluster, DeleteObject, RemovalFailed, Fail, GoTo, DeleteSteps
  <2>3. CASE ctl' = AfterRemoval(ctl.task)
    <3>1. \/ ctl' = At("unfinalize", "deletion") \/ ctl' = PatchPhase("kill", "Terminated")
          \/ ctl' = PatchPhase("shutdown", "Inactive") \/ ctl' = At("disable", "emergency")
      BY <2>1, <2>3 DEF AfterRemoval, Tasks
    <3> QED
      BY <1>3, <1>4, <1>6, <3>1
  <2> QED
    BY <1>0, <1>2, <1>3, <1>4, <1>6, <2>2, <2>3, Literals
<1>9. CASE StartInner
  BY <1>9, AtFacts, Literals DEF StartInner, GoTo, Control
<1>10. CASE Tick
  <2>1. ctl'.pc = ctl.pc /\ ctl'.target = ctl.target /\ ctl'.task = ctl.task
    BY <1>0, <1>10 DEF Tick, Control
  <2> QED
    BY <1>1, <2>1
<1>11. CASE CheckEmergencyReclaim
  <2>1. \/ ctl' = Idle \/ ctl' = [ctl EXCEPT !.pc = "resolve"]
        \/ ctl' = PatchPhase("emergency", "EmergencyRemove")
    BY <1>11 DEF CheckEmergencyReclaim, AfterReclaimCheck, GoTo, Fail
  <2>2. [ctl EXCEPT !.pc = "resolve"].pc = "resolve"
    BY <1>0 DEF Control
  <2> QED
    BY <1>2, <1>5, <2>1, <2>2
<1>12. CASE \/ StartDeletion \/ StartFinalizer \/ StartKillSwitch \/ CleanupTimesOut
            \/ Preflight \/ AddMachineToCluster \/ Drain \/ DisableSchedule
            \/ ClearReclaimAnnotations \/ UpdatePhase
  <2>1. \/ ctl' = Idle
        \/ \E pc \in {"deleteMachine", "unfinalize", "finalize", "createBootstrap",
                      "createInfrastructure", "createMachine", "drain", "clear"}, task \in Tasks :
             ctl' = At(pc, task)
        \/ \E task \in Tasks, target \in {"Terminated", "Error", "Active", "Disabled"} :
             ctl' = PatchPhase(task, target)
    BY <1>0, <1>6, <1>12 DEF StartDeletion, StartFinalizer, StartKillSwitch, CleanupTimesOut,
       HandleDeletion, HandleKillSwitch, Proceed, GoTo, Succeed, Fail, Preflight,
       CreationFailed, AddMachineToCluster, CreateObject, Drain, DisableSchedule,
       ClearReclaimAnnotations, UpdatePhase, AfterPatch
  <2> QED
    BY <1>2, <1>3, <1>4, <1>6, <2>1
<1>13. RejectSpec \/ AddFinalizer \/ RemoveFinalizer \/ EnrichStatus \/ Crash => ctl' = Idle
  BY DEF RejectSpec, AddFinalizer, RemoveFinalizer, EnrichStatus, Crash, Succeed, SucceedEarly, Fail
<1>14. Observe \/ UserEdits \/ AgentRequestsReclaim \/ NodeJoins \/ NodeLeaves \/ Gone
         \/ GarbageCollect \/ (\E k \in Kinds : TeardownEnds(k)) \/ UNCHANGED vars => ctl' = ctl
  BY DEF Observe, UserEdits, AgentRequestsReclaim, NodeJoins, NodeLeaves, GarbageCollect,
         TeardownEnds, Gone, vars
<1> QED
  BY <1>1, <1>2, <1>7, <1>8, <1>9, <1>10, <1>11, <1>12, <1>13, <1>14 DEF Next, Reconcile, Capi

(***************************************************************************)
(* What is in place.                                                       *)
(***************************************************************************)
\* Every step that is free of faults keeps the account of what is in place.
LEMMA AccountsStep ==
  ASSUME ~CacheLag, TypeOK, TaskKnown, Standing, Routed, Accounts,
         TypeOK', TaskKnown', Standing', FaultFree', [Next]_vars
  PROVE  Accounts'
<1>0. /\ sm \in Object /\ ctl \in Control /\ ctl.obj \in Object /\ ctl.task \in Tasks
      /\ capi \in [Kinds -> {"absent", "present", "deleting"}]
      /\ ctl.target \in Phases /\ sm.phase \in Phases
  BY DEF TypeOK, Control, Object
<1>s. Seen = sm /\ Owned /\ SnapshotCurrent /\ PhaseKnown /\ PhaseKnown'
  BY DEF Seen, Standing
<1>w. ctl.pc \notin {"idle", "finalize"} => sm.exists /\ sm.finalizer
  BY <1>s DEF Owned
<1>t. /\ Tasks = {"none", "deletion", "kill", "shutdown", "emergency"}
      /\ {"Active", "Inactive", "Disabled", "ShuttingDown", "Pending", "Terminated", "Error",
          "EmergencyRemove"} \subseteq Phases
  BY DEF Tasks, Phases
\* Where the reconcile stands before the step.
<1>x. ASSUME ctl.pc \in {"idle", "finalize", "unfinalize", "reclaim", "resolve", "preflight", "enrich"}
      PROVE  /\ sm.phase # "EmergencyRemove"
             /\ sm.phase \notin Holding => NothingPresent
  BY <1>x DEF Accounts, EmergencyUnderWay, InCreation, EmergencySteps, DeleteSteps, CreateSteps
<1>p. capi' = capi /\ NothingPresent => NothingPresent'
  BY DEF NothingPresent
\* How the step ends, by the kind of place it leads to.
<1>a. ASSUME ctl'.pc \in {"idle", "finalize", "reclaim", "resolve", "preflight", "enrich"},
             sm'.phase # "EmergencyRemove", sm'.phase \notin Holding => NothingPresent'
      PROVE  Accounts'
  BY <1>a DEF Accounts
<1>c. ASSUME InCreation', sm'.phase # "EmergencyRemove"
      PROVE  Accounts'
  BY <1>c DEF Accounts, InCreation, CreateSteps, Holding
<1>n. ASSUME NothingPresent', sm'.phase = "EmergencyRemove" => EmergencyUnderWay'
      PROVE  Accounts'
  BY <1>n DEF Accounts, NothingPresent, Kinds
<1>k. ASSUME ctl'.pc = "patch", ctl'.target \in {"ShuttingDown", "EmergencyRemove"},
             sm'.phase # "EmergencyRemove", sm'.phase \notin Holding => NothingPresent'
      PROVE  Accounts'
  BY <1>k DEF Accounts, Holding
<1>d. ASSUME ctl'.pc \in DeleteSteps \cup {"drain"},
             ctl'.pc \in {"deleteBootstrap", "deleteInfrastructure"} => capi'["Machine"] # "present",
             ctl'.pc = "deleteInfrastructure" => capi'["Bootstrap"] # "present"
      PROVE  Accounts'
  <2>1. ctl'.task \in Tasks
    BY DEF TypeOK, Control
  <2>2. /\ ctl'.pc \in DeleteSteps => ctl'.task # "none"
        /\ ctl'.pc = "drain" => ctl'.task \in {"shutdown", "emergency"}
    BY DEF TaskKnown
  <2>3. /\ ctl'.pc \in DeleteSteps /\ ctl'.task \in {"deletion", "kill"} => sm'.phase \in Running
        /\ ctl'.task = "shutdown" => sm'.phase = "ShuttingDown"
        /\ ctl'.task = "emergency" => sm'.phase = "EmergencyRemove"
    BY <1>s, <1>d DEF PhaseKnown, EmergencySteps
  <2>4. sm'.phase \in Holding
    BY <1>d, <2>1, <2>2, <2>3, <1>t DEF Running, Holding, DeleteSteps
  <2>5. sm'.phase = "EmergencyRemove" => EmergencyUnderWay'
    BY <1>d, <2>1, <2>2, <2>3, <1>t DEF Running, EmergencyUnderWay, EmergencySteps, DeleteSteps
  <2>6. ctl'.pc \notin {"unfinalize", "disable", "clear", "patch"}
    BY <1>d DEF DeleteSteps
  <2> QED
    BY <1>d, <2>4, <2>5, <2>6 DEF Accounts
\* The steps that touch neither the phase nor where the reconcile stands.
<1>u. ASSUME sm'.phase = sm.phase, ctl'.pc = ctl.pc, ctl'.task = ctl.task, ctl'.target = ctl.target,
             \A k \in Kinds : capi'[k] = "present" => capi[k] = "present"
      PROVE  Accounts'
  <2>1. NothingPresent => NothingPresent'
    BY <1>u DEF NothingPresent
  <2>2. InCreation' <=> InCreation
    BY <1>u DEF InCreation
  <2>3. EmergencyUnderWay' <=> EmergencyUnderWay
    BY <1>u DEF EmergencyUnderWay
  <2> QED
    BY <1>u, <2>1, <2>2, <2>3 DEF Accounts, Kinds
<1>v. ASSUME sm' = sm, ctl' = ctl, capi' = capi PROVE Accounts'
  BY <1>v, <1>u
\* A step that ends the reconcile and leaves phase and objects alone.
<1>e. ASSUME sm'.phase = sm.phase, capi' = capi, ctl' = Idle,
             ctl.pc \in {"idle", "finalize", "reclaim", "resolve", "enrich"}
      PROVE  Accounts'
  BY <1>e, <1>a, <1>x, <1>p, IdleFacts
<1>1. CASE StartDeletion
  <2>1. sm' = sm /\ capi' = capi /\ ctl.pc = "idle"
    BY <1>1 DEF StartDeletion, Triggered, Outside
  <2>2. CASE sm.phase \in Running
    <3>1. ctl'.pc = "deleteMachine"
      BY <1>1, <1>s, <2>2, AtFacts, Literals DEF StartDeletion, HandleDeletion, GoTo
    <3> QED
      BY <3>1, <1>d DEF DeleteSteps
  <2>3. CASE sm.phase \notin Running
    BY <2>1, <2>3, <1>x, <1>p, <1>n DEF Running, Holding
  <2> QED
    BY <2>2, <2>3
<1>2. CASE StartFinalizer
  <2>1. sm' = sm /\ capi' = capi /\ ctl.pc = "idle" /\ ctl'.pc = "finalize"
    BY <1>2, AtFacts, Literals DEF StartFinalizer, Triggered, Outside, GoTo
  <2> QED
    BY <2>1, <1>x, <1>p, <1>a
<1>3. CASE RejectSpec
  BY <1>3, <1>e DEF RejectSpec, Admitted, Triggered, Fail, Outside
<1>4. CASE StartKillSwitch
  <2>1. sm' = sm /\ capi' = capi /\ ctl.pc = "idle"
    BY <1>4 DEF StartKillSwitch, Admitted, Triggered, Outside
  <2>2. CASE HandleKillSwitch(sm) = Idle
    BY <1>4, <1>s, <2>1, <2>2, <1>e DEF StartKillSwitch, Proceed, Succeed
  <2>3. CASE HandleKillSwitch(sm) = At("deleteMachine", "kill")
    <3>1. ctl'.pc = "deleteMachine"
      BY <1>4, <1>s, <2>3, AtFacts, IdleFacts, Literals DEF StartKillSwitch, Proceed, GoTo
    <3> QED
      BY <3>1, <1>d DEF DeleteSteps
  <2>4. CASE sm.phase \notin Running
    BY <2>1, <2>4, <1>x, <1>p, <1>n DEF Running, Holding
  <2> QED
    BY <2>2, <2>3, <2>4 DEF HandleKillSwitch, Running
<1>5. CASE StartInner
  <2>1. sm' = sm /\ capi' = capi /\ ctl.pc = "idle"
    BY <1>5 DEF StartInner, Admitted, Triggered, Outside
  <2>2. ctl'.pc = "reclaim"
    BY <1>5, AtFacts, Literals DEF StartInner, GoTo, Control
  <2> QED
    BY <2>1, <2>2, <1>x, <1>p, <1>a
<1>6. CASE AddFinalizer
  <2>1. sm'.phase = sm.phase /\ capi' = capi /\ ctl.pc = "finalize" /\ ctl' = Idle
    BY <1>0, <1>6 DEF AddFinalizer, SucceedEarly, Fail, Object
  <2> QED
    BY <2>1, <1>e
<1>7. CASE RemoveFinalizer
  <2>1. sm' \in {sm, NoObject} /\ capi' = capi /\ ctl.pc = "unfinalize"
    BY <1>7 DEF RemoveFinalizer
  <2>2. NothingPresent /\ sm.phase # "EmergencyRemove"
    BY <2>1, <1>x DEF Accounts
  <2> QED
    BY <2>1, <2>2, <1>p, <1>n DEF NoObject
<1>8. CASE UpdatePhase
  <2>1. PICK a \in Answers :
          /\ Charge(a)
          /\ sm' = IF Applied(a) THEN WithPhase(sm, ctl.target, ctl.grace) ELSE sm
          /\ IF Acknowledged(a) THEN AfterPatch ELSE Fail
    BY <1>8 DEF UpdatePhase
  <2>2. ctl.pc = "patch" /\ sm.exists /\ capi' = capi
    BY <1>8, <1>w DEF UpdatePhase
  <2>3. a = "ok"
    BY <2>1, AnswerIsGood
  <2>4. sm' = WithPhase(sm, ctl.target, ctl.grace) /\ AfterPatch
    BY <2>1, <2>2, <2>3 DEF Applied, Acknowledged
  <2>5. sm'.phase = ctl.target
    BY <1>0, <2>4 DEF WithPhase, Object
  <2>6. CASE ctl.target = "EmergencyRemove"
    <3>1. ctl.task = "emergency"
      BY <2>2, <2>6 DEF Routed
    <3>2. ctl'.pc = "drain"
      BY <2>4, <2>6, <3>1, AtFacts, Literals DEF AfterPatch, GoTo
    <3> QED
      BY <3>2, <1>d
  <2>7. CASE ctl.target # "EmergencyRemove"
    <3>1. ctl' = Idle
      BY <2>4, <2>7 DEF AfterPatch, Succeed
    <3>2. ctl.target \notin Holding => NothingPresent'
      BY <2>2, <1>p DEF Accounts
    <3> QED
      BY <2>5, <2>7, <3>1, <3>2, <1>a, IdleFacts
  <2> QED
    BY <2>6, <2>7
<1>9. CASE CheckEmergencyReclaim
  <2>1. sm' = sm /\ capi' = capi /\ ctl.pc = "reclaim"
    BY <1>9 DEF CheckEmergencyReclaim
  <2>2. CASE ctl' = Idle
    BY <2>1, <2>2, <1>e
  <2>3. CASE ctl' = [ctl EXCEPT !.pc = "resolve"]
    <3>1. ctl'.pc = "resolve"
      BY <1>0, <2>3 DEF Control
    <3> QED
      BY <2>1, <3>1, <1>x, <1>p, <1>a
  <2>4. CASE ctl' = PatchPhase("emergency", "EmergencyRemove")
    <3>1. ctl'.pc = "patch" /\ ctl'.target = "EmergencyRemove"
      BY <2>4, <1>t, PatchFacts
    <3> QED
      BY <2>1, <3>1, <1>x, <1>p, <1>k
  <2> QED
    BY <1>9, <2>2, <2>3, <2>4 DEF CheckEmergencyReclaim, AfterReclaimCheck, GoTo, Fail
<1>10. CASE ResolveSchedule
  <2>1. PICK verdict \in Verdicts :
          /\ sm' \in {sm, PersistSpotSchedule(ctl.obj, verdict)}
          /\ \/ Proceed(PhaseHandler(ctl.obj, ShouldBeActive(ctl.obj, verdict)))
             \/ Fail
    BY <1>10 DEF ResolveSchedule
  <2>2. ctl.pc = "resolve" /\ capi' = capi
    BY <1>10 DEF ResolveSchedule
  <2>3. ctl.obj.phase = sm.phase /\ ctl.obj.active = sm.active
    BY <2>2, <1>s DEF SnapshotCurrent
  <2>4. sm'.phase = sm.phase
    BY <1>0, <2>1, <2>3, PersistHolds
  <2>5. /\ sm.phase # "EmergencyRemove"
        /\ sm.phase \notin Holding => NothingPresent'
    BY <2>2, <1>x, <1>p
  <2>6. CASE ctl' = Idle
    BY <2>2, <2>4, <2>6, <1>e
  <2> DEFINE active == ShouldBeActive(ctl.obj, verdict)
             h == PhaseHandler(ctl.obj, active)
  <2>7. ASSUME ctl' = h PROVE Accounts'
    <3>1. active \in BOOLEAN
      BY DEF ShouldBeActive
    <3> HIDE DEF active, h
    <3>2. CASE sm.phase \notin Holding
      BY <2>4, <2>5, <3>2, <1>n
    <3>3. CASE \/ h = PatchPhase("none", "ShuttingDown")
               \/ h = PatchPhaseWithGrace("ShuttingDown")
      <4>1. ctl'.pc = "patch" /\ ctl'.target = "ShuttingDown"
        BY <2>7, <3>3, <1>t, PatchFacts, GracePatchFacts
      <4> QED
        BY <2>4, <2>5, <4>1, <1>k
    <3>4. CASE h = At("enrich", "none")
      BY <2>4, <2>5, <2>7, <3>4, <1>a, <1>t, AtFacts, Literals
    <3>5. CASE h = At("drain", "shutdown")
      <4>1. ctl'.pc = "drain"
        BY <2>7, <3>5, <1>t, AtFacts, Literals
      <4> QED
        BY <4>1, <1>d
    <3>6. \/ h = Idle \/ sm.phase \notin Holding
          \/ h = PatchPhase("none", "ShuttingDown") \/ h = PatchPhaseWithGrace("ShuttingDown")
          \/ h = At("enrich", "none") \/ h = At("drain", "shutdown")
      BY <1>0, <2>3, <2>5, <3>1, HandlerCases DEF h, Holding
    <3> QED
      BY <2>6, <2>7, <3>2, <3>3, <3>4, <3>5, <3>6
  <2> QED
    BY <2>1, <2>6, <2>7 DEF Proceed, Succeed, GoTo, Fail
<1>11. CASE Preflight
  <2>1. PICK a \in Answers :
          Charge(a) /\ GoTo(IF a = "ok" THEN At("createBootstrap", "none") ELSE CreationFailed)
    BY <1>11 DEF Preflight
  <2>2. sm' = sm /\ ctl.pc = "preflight"
    BY <1>11 DEF Preflight
  <2>3. ctl'.pc = "createBootstrap"
    BY <2>1, <1>t, AnswerIsGood, AtFacts, Literals DEF GoTo
  <2> QED
    BY <2>2, <2>3, <1>x, <1>c DEF InCreation, CreateSteps
<1>12. CASE AddMachineToCluster
  <2>1. ctl.pc \in CreateSteps /\ sm' = sm
    BY <1>12 DEF AddMachineToCluster, CreateObject, CreateSteps
  <2>2. sm.phase # "EmergencyRemove"
    BY <2>1, <1>s DEF PhaseKnown, Provisioning
  <2>3. PICK a \in Answers :
          /\ Charge(a)
          /\ \E next \in {At("createInfrastructure", "none"), At("createMachine", "none"),
                          PatchPhase("none", "Active")} :
               GoTo(IF a = "ok" THEN next ELSE CreationFailed)
    BY <1>12 DEF AddMachineToCluster, CreateObject
  <2>4. ctl' \in {At("createInfrastructure", "none"), At("createMachine", "none"),
                  PatchPhase("none", "Active")}
    BY <2>3, AnswerIsGood DEF GoTo
  <2>5. InCreation'
    BY <2>4, <1>t, AtFacts, PatchFacts, Literals DEF InCreation, CreateSteps
  <2> QED
    BY <2>1, <2>2, <2>5, <1>c
<1>13. CASE RemoveMachineFromCluster
  <2>0. "Machine" \in Kinds /\ "Bootstrap" \in Kinds /\ "Infrastructure" \in Kinds
    BY DEF Kinds
  <2>1. ctl.task \in Tasks \ {"none"} /\ sm' = sm
    BY <1>0, <1>13 DEF RemoveMachineFromCluster, DeleteObject, DeleteSteps, TaskKnown
  <2>2. ASSUME NEW k \in Kinds, NEW next, NEW pc, DeleteObject(pc, k, next)
        PROVE  capi' = Deleted(k) /\ ctl' = next /\ ctl.pc = pc
    <3>1. PICK a \in Answers :
            /\ Charge(a)
            /\ capi' = IF a = "refused" THEN capi ELSE Deleted(k)
            /\ IF a = "ok" THEN GoTo(next) ELSE RemovalFailed(ctl.task)
      BY <2>2 DEF DeleteObject
    <3> QED
      BY <2>2, <3>1, AnswerIsGood DEF DeleteObject, GoTo
  <2>3. ASSUME NEW k \in Kinds, capi' = Deleted(k)
        PROVE  /\ capi'[k] # "present"
               /\ \A other \in Kinds : capi[other] # "present" => capi'[other] # "present"
    BY <1>0, <2>3 DEF Deleted
  <2>4. CASE DeleteObject("deleteMachine", "Machine", At("deleteBootstrap", ctl.task))
    <3>1. ctl'.pc = "deleteBootstrap" /\ capi'["Machine"] # "present"
      BY <2>0, <2>1, <2>2, <2>3, <2>4, AtFacts, Literals
    <3> QED
      BY <3>1, <1>d DEF DeleteSteps
  <2>5. CASE DeleteObject("deleteBootstrap", "Bootstrap", At("deleteInfrastructure", ctl.task))
    <3>1. /\ ctl'.pc = "deleteInfrastructure" /\ ctl.pc = "deleteBootstrap"
          /\ capi' = Deleted("Bootstrap")
      BY <2>0, <2>1, <2>2, <2>5, AtFacts, Literals
    <3>2. capi'["Machine"] # "present" /\ capi'["Bootstrap"] # "present"
      BY <2>0, <2>3, <3>1 DEF Accounts
    <3> QED
      BY <3>1, <3>2, <1>d DEF DeleteSteps
  <2>6. CASE DeleteObject("deleteInfrastructure", "Infrastructure", AfterRemoval(ctl.task))
    <3>1. /\ ctl' = AfterRemoval(ctl.task) /\ ctl.pc = "deleteInfrastructure"
          /\ capi' = Deleted("Infrastructure")
      BY <2>0, <2>2, <2>6
    <3>2. NothingPresent'
      BY <2>0, <2>3, <3>1 DEF Accounts, NothingPresent, Kinds
    <3>3. sm.phase = "EmergencyRemove" => ctl.task = "emergency"
      BY DEF Accounts, EmergencyUnderWay
    <3>4. ctl.task = "emergency" => ctl'.pc = "disable" /\ ctl'.task = "emergency"
      BY <3>1, <1>t, AtFacts, Literals DEF AfterRemoval
    <3> QED
      BY <2>1, <3>2, <3>3, <3>4, <1>n DEF EmergencyUnderWay, EmergencySteps
  <2> QED
    BY <1>13, <2>4, <2>5, <2>6 DEF RemoveMachineFromCluster
<1>14. CASE Drain
  <2>1. PICK a \in Answers : Charge(a) /\ (GoTo(At("deleteMachine", ctl.task)) \/ a # "ok")
    BY <1>14 DEF Drain
  <2>2. ctl'.pc = "deleteMachine"
    BY <1>0, <2>1, AnswerIsGood, AtFacts, Literals DEF GoTo
  <2> QED
    BY <2>2, <1>d DEF DeleteSteps
<1>15. CASE DisableSchedule
  <2>1. PICK a \in Answers :
          /\ Charge(a)
          /\ IF Acknowledged(a) THEN GoTo(At("clear", "emergency")) ELSE Fail
    BY <1>15 DEF DisableSchedule
  <2>2. ctl.pc = "disable" /\ sm.exists /\ capi' = capi
    BY <1>15, <1>w DEF DisableSchedule
  <2>3. ctl'.pc = "clear" /\ ctl'.task = "emergency"
    BY <2>1, <2>2, <1>t, AnswerIsGood, AtFacts, Literals DEF Acknowledged, GoTo
  <2>4. NothingPresent'
    BY <2>2, <1>p DEF Accounts
  <2> QED
    BY <2>3, <2>4, <1>n DEF EmergencyUnderWay, EmergencySteps
<1>16. CASE ClearReclaimAnnotations
  <2>1. ctl.pc = "clear" /\ capi' = capi
    BY <1>16 DEF ClearReclaimAnnotations
  <2>2. ctl'.pc = "patch" /\ ctl'.target = "Disabled" /\ ctl'.task = "emergency"
    BY <1>16, <1>t, PatchFacts DEF ClearReclaimAnnotations, GoTo
  <2>3. NothingPresent'
    BY <2>1, <1>p DEF Accounts
  <2> QED
    BY <2>2, <2>3, <1>n DEF EmergencyUnderWay
<1>17. CASE EnrichStatus
  <2>1. sm'.phase = sm.phase /\ capi' = capi /\ ctl.pc = "enrich" /\ ctl' = Idle
    BY <1>0, <1>17 DEF EnrichStatus, Succeed, Object
  <2> QED
    BY <2>1, <1>e
<1>18. CASE UserEdits
  <2>1. ctl' = ctl /\ capi' = capi
    BY <1>18 DEF UserEdits
  <2>2. CASE sm' = NoObject /\ ~sm.finalizer
    <3>1. sm.phase = "Unset" /\ sm'.phase = "Unset"
      BY <2>2 DEF Routed, NoObject
    <3> QED
      BY <2>1, <3>1, <1>u
  <2>3. CASE sm'.phase = sm.phase
    BY <2>1, <2>3, <1>u
  <2> QED
    BY <1>0, <1>18, <2>2, <2>3 DEF UserEdits, Edits, Object
<1>19. CASE AgentRequestsReclaim \/ NodeJoins \/ NodeLeaves \/ Gone \/ Observe \/ UNCHANGED vars
  BY <1>19, <1>v DEF AgentRequestsReclaim, NodeJoins, NodeLeaves, Gone, Observe, vars
<1>20. CASE GarbageCollect \/ \E k \in Kinds : TeardownEnds(k)
  <2>1. sm' = sm /\ ctl' = ctl
    BY <1>20 DEF GarbageCollect, TeardownEnds
  <2>2. \A k \in Kinds : capi'[k] = "present" => capi[k] = "present"
    BY <1>0, <1>20 DEF GarbageCollect, TeardownEnds, Deleted
  <2> QED
    BY <2>1, <2>2, <1>u
<1>21. CASE Tick
  <2>1. sm'.phase = sm.phase /\ capi' = capi
    BY <1>0, <1>21 DEF Tick, Aged, Object
  <2>2. ctl'.pc = ctl.pc /\ ctl'.task = ctl.task /\ ctl'.target = ctl.target
    BY <1>0, <1>21 DEF Tick, Control
  <2> QED
    BY <2>1, <2>2, <1>u
<1>22. ~Crash /\ ~CleanupTimesOut
  BY FaultFreeBefore
<1> QED
  BY <1>1, <1>2, <1>3, <1>4, <1>5, <1>6, <1>7, <1>8, <1>9, <1>10, <1>11, <1>12, <1>13, <1>14,
     <1>15, <1>16, <1>17, <1>18, <1>19, <1>20, <1>21, <1>22 DEF Next, Reconcile, Capi

\* The account stands by the phase alone: creation happens in Unset and Pending.
LEMMA AccountsSuffice ==
  ASSUME TypeOK, Standing, Accounted PROVE ResourcesAccounted
<1> SUFFICES ASSUME FaultFree,
                    ~sm.exists \/ sm.phase \in {"Inactive", "Disabled", "Terminated"}
             PROVE  NothingPresent
  BY DEF ResourcesAccounted
<1>1. sm.phase \notin Holding
  BY NoObjectFacts DEF Standing, Owned, Holding
<1>2. ASSUME ctl.pc \in CreateSteps PROVE FALSE
  <2>1. sm.phase \in {"Unset", "Pending"} /\ sm.exists
    BY <1>2 DEF Standing, Owned, PhaseKnown, Provisioning, CreateSteps
  <2> QED
    BY <2>1
<1>3. ASSUME ctl.pc = "patch", ctl.target = "Active" PROVE FALSE
  <2>1. sm.exists /\ Lifecycle!MayMove(sm.phase, "Active")
    BY <1>1, <1>3 DEF Standing, Owned, PhaseKnown, Holding
  <2> QED
    BY <2>1 DEF Lifecycle!MayMove, Lifecycle!Schedule, Lifecycle!Initial
<1> QED
  BY <1>1, <1>2, <1>3 DEF Accounted, Accounts, InCreation

\* Without stale reads, as long as no call fails and the controller does not die,
\* neither a deleted resource nor one whose phase says its machine is gone leaves
\* a CAPI object undeleted, however edits, reclaims and the clock interleave with
\* the calls of a reconcile.
THEOREM ResourcesAccountedHolds ==
  ASSUME ~CacheLag PROVE Spec => []ResourcesAccounted
<1>1. ASSUME Init PROVE Routed /\ Accounted
  <2>1. sm.phase = "Unset" /\ ctl.pc = "idle" /\ NothingPresent
    BY <1>1, IdleFacts DEF Init, NewObject, NoObject, NothingPresent
  <2> QED
    BY <2>1 DEF Routed, Accounted, Accounts
<1> DEFINE Known == TypeOK /\ TaskKnown /\ Standing
<1>2. ASSUME Known, Known', Routed, Accounted, [Next]_vars PROVE (Routed /\ Accounted)'
  <2>1. Routed'
    BY <1>2, FinalizerFirst, EmergencyAnnounced DEF Routed
  <2>2. ASSUME FaultFree' PROVE Accounts'
    BY <1>2, <2>2, FaultFreeBefore, AccountsStep DEF Accounted
  <2> QED
    BY <2>1, <2>2 DEF Accounted
<1>3. Known /\ Accounted => ResourcesAccounted
  BY AccountsSuffice
<1>4. Spec => []Known
  BY StandingAlways
<1> HIDE DEF Known
<1> QED
  BY <1>1, <1>2, <1>3, <1>4, PTL DEF Spec

(***************************************************************************)
(* The removal is reported only when it is complete, faults or not.        *)
(***************************************************************************)
Reports == {"Inactive", "Terminated"}

\* How far the removal has come, and that a resource which is running is about to
\* report its end, or to be released, only behind a complete one.
Removed ==
  /\ ctl.pc \in {"deleteBootstrap", "deleteInfrastructure"} => capi["Machine"] # "present"
  /\ ctl.pc = "deleteInfrastructure" => capi["Bootstrap"] # "present"
  /\ sm.phase \in Running /\ ctl.pc = "patch" /\ ctl.target \in Reports => NothingPresent
  /\ sm.phase \in Running /\ ctl.pc = "unfinalize" /\ ~ForceFinalizer => NothingPresent

\* Every step keeps that, whatever fails or dies.
LEMMA RemovedStep ==
  ASSUME ~CacheLag, TypeOK, TaskKnown, Standing, Removed, TypeOK', [Next]_vars
  PROVE  Removed'
<1>0. /\ sm \in Object /\ ctl \in Control /\ ctl.obj \in Object /\ ctl.task \in Tasks
      /\ capi \in [Kinds -> {"absent", "present", "deleting"}]
  BY DEF TypeOK, Control, Object
<1>s. Seen = sm /\ Owned /\ SnapshotCurrent /\ PhaseKnown
  BY DEF Seen, Standing
<1>t. /\ Tasks = {"none", "deletion", "kill", "shutdown", "emergency"}
      /\ {"Active", "Inactive", "Disabled", "ShuttingDown", "Pending", "Terminated", "Error",
          "EmergencyRemove"} \subseteq Phases
  BY DEF Tasks, Phases
\* How the step ends, by the kind of place it leads to.
<1>a. ASSUME ctl'.pc \notin {"deleteBootstrap", "deleteInfrastructure", "patch", "unfinalize"}
      PROVE  Removed'
  BY <1>a DEF Removed
<1>b. ASSUME ctl'.pc \in {"patch", "unfinalize"}, sm'.phase \notin Running PROVE Removed'
  BY <1>b DEF Removed
<1>c. ASSUME ctl'.pc = "patch", ctl'.target \notin Reports PROVE Removed'
  BY <1>c DEF Removed
<1>n. ASSUME NothingPresent' PROVE Removed'
  BY <1>n DEF Removed, NothingPresent, Kinds
<1>i. ASSUME ctl' = Idle PROVE Removed'
  BY <1>i, <1>a, IdleFacts
<1>u. ASSUME sm'.phase = sm.phase \/ sm'.phase \notin Running,
             ctl'.pc = ctl.pc, ctl'.target = ctl.target,
             \A k \in Kinds : capi'[k] = "present" => capi[k] = "present"
      PROVE  Removed'
  BY <1>u DEF Removed, NothingPresent, Kinds
<1>1. CASE StartDeletion
  <2>1. CASE sm.phase \in Running
    <3>1. ctl'.pc = "deleteMachine"
      BY <1>1, <1>s, <2>1, AtFacts, Literals DEF StartDeletion, HandleDeletion, GoTo
    <3> QED
      BY <3>1, <1>a
  <2>2. CASE sm.phase \notin Running
    <3>1. ctl'.pc = "unfinalize" /\ sm' = sm
      BY <1>1, <1>s, <2>2, AtFacts, Literals DEF StartDeletion, HandleDeletion, GoTo, Outside
    <3> QED
      BY <2>2, <3>1, <1>b
  <2> QED
    BY <2>1, <2>2
<1>2. CASE StartKillSwitch
  <2>1. CASE HandleKillSwitch(sm) = Idle
    BY <1>2, <1>s, <2>1, <1>i DEF StartKillSwitch, Proceed, Succeed
  <2>2. CASE HandleKillSwitch(sm) = At("deleteMachine", "kill")
    <3>1. ctl'.pc = "deleteMachine"
      BY <1>2, <1>s, <2>2, AtFacts, IdleFacts, Literals DEF StartKillSwitch, Proceed, GoTo
    <3> QED
      BY <3>1, <1>a
  <2>3. CASE HandleKillSwitch(sm) = PatchPhase("kill", "Terminated") /\ sm.phase \notin Running
    <3>1. ctl'.pc = "patch" /\ sm' = sm
      BY <1>2, <1>s, <1>t, <2>3, PatchFacts, IdleFacts DEF StartKillSwitch, Proceed, GoTo, Outside
    <3> QED
      BY <2>3, <3>1, <1>b
  <2> QED
    BY <2>1, <2>2, <2>3 DEF HandleKillSwitch
<1>3. CASE StartFinalizer \/ StartInner
  <2>1. ctl'.pc \in {"finalize", "reclaim"}
    BY <1>3, AtFacts, Literals DEF StartFinalizer, StartInner, GoTo, Control
  <2> QED
    BY <2>1, <1>a
<1>4. CASE UpdatePhase
  <2>1. ctl' = Idle \/ ctl' = At("drain", "emergency")
    BY <1>4 DEF UpdatePhase, AfterPatch, GoTo, Succeed, Fail
  <2> QED
    BY <2>1, <1>a, <1>i, <1>t, AtFacts, Literals
<1>5. CASE CheckEmergencyReclaim
  <2>1. CASE ctl' = [ctl EXCEPT !.pc = "resolve"]
    <3>1. ctl'.pc = "resolve"
      BY <1>0, <2>1 DEF Control
    <3> QED
      BY <3>1, <1>a
  <2>2. CASE ctl' = PatchPhase("emergency", "EmergencyRemove")
    BY <2>2, <1>c, <1>t, PatchFacts DEF Reports
  <2> QED
    BY <1>5, <2>1, <2>2, <1>i DEF CheckEmergencyReclaim, AfterReclaimCheck, GoTo, Fail
<1>6. CASE ResolveSchedule
  <2>1. PICK verdict \in Verdicts :
          /\ sm' \in {sm, PersistSpotSchedule(ctl.obj, verdict)}
          /\ \/ Proceed(PhaseHandler(ctl.obj, ShouldBeActive(ctl.obj, verdict)))
             \/ Fail
    BY <1>6 DEF ResolveSchedule
  <2>2. ctl.obj.phase = sm.phase /\ ctl.obj.active = sm.active
    BY <1>6, <1>s DEF ResolveSchedule, SnapshotCurrent
  <2>3. sm'.phase = sm.phase
    BY <1>0, <2>1, <2>2, PersistHolds
  <2> DEFINE active == ShouldBeActive(ctl.obj, verdict)
             h == PhaseHandler(ctl.obj, active)
  <2>4. ASSUME ctl' = h PROVE Removed'
    <3>1. active \in BOOLEAN
      BY DEF ShouldBeActive
    <3> HIDE DEF active, h
    <3>2. CASE \E t \in {"Disabled", "ShuttingDown", "Pending"} : h = PatchPhase("none", t)
      BY <2>4, <3>2, <1>c, <1>t, PatchFacts DEF Reports
    <3>3. CASE h = PatchPhase("none", "Inactive") /\ sm.phase \notin Running
      BY <2>3, <2>4, <3>3, <1>b, <1>t, PatchFacts
    <3>4. CASE h = PatchPhaseWithGrace("ShuttingDown")
      BY <2>4, <3>4, <1>c, GracePatchFacts DEF Reports
    <3>5. CASE h = At("preflight", "none") \/ h = At("enrich", "none") \/ h = At("drain", "shutdown")
      BY <2>4, <3>5, <1>a, <1>t, AtFacts, Literals
    <3>6. \/ h = Idle \/ h = PatchPhaseWithGrace("ShuttingDown")
          \/ \E t \in {"Disabled", "ShuttingDown", "Pending"} : h = PatchPhase("none", t)
          \/ h = PatchPhase("none", "Inactive") /\ sm.phase \notin Running
          \/ h = At("preflight", "none") \/ h = At("enrich", "none") \/ h = At("drain", "shutdown")
      BY <1>0, <2>2, <3>1, HandlerCases DEF h, Running
    <3> QED
      BY <2>4, <3>2, <3>3, <3>4, <3>5, <3>6, <1>i
  <2> QED
    BY <2>1, <2>4, <1>i DEF Proceed, Succeed, GoTo, Fail
<1>7. CASE Preflight \/ AddMachineToCluster
  <2>1. ctl' \in {At("createBootstrap", "none"), At("createInfrastructure", "none"),
                  At("createMachine", "none"), PatchPhase("none", "Active"),
                  PatchPhase("none", "Error")}
    BY <1>7 DEF Preflight, AddMachineToCluster, CreateObject, GoTo, CreationFailed
  <2>2. CASE ctl' \in {PatchPhase("none", "Active"), PatchPhase("none", "Error")}
    BY <2>2, <1>c, <1>t, PatchFacts DEF Reports
  <2> QED
    BY <2>1, <2>2, <1>a, <1>t, AtFacts, Literals
<1>8. CASE RemoveMachineFromCluster
  <2>0. "Machine" \in Kinds /\ "Bootstrap" \in Kinds /\ "Infrastructure" \in Kinds
    BY DEF Kinds
  <2>1. ctl.task \in Tasks \ {"none"}
    BY <1>0, <1>8 DEF RemoveMachineFromCluster, DeleteObject, DeleteSteps, TaskKnown
  <2>2. ASSUME NEW k \in Kinds, NEW next, NEW pc, DeleteObject(pc, k, next)
        PROVE  /\ ctl.pc = pc
               /\ RemovalFailed(ctl.task) \/ (capi' = Deleted(k) /\ ctl' = next)
    BY <2>2 DEF DeleteObject, GoTo
  <2>3. ASSUME NEW k \in Kinds, capi' = Deleted(k)
        PROVE  /\ capi'[k] # "present"
               /\ \A other \in Kinds : capi[other] # "present" => capi'[other] # "present"
    BY <1>0, <2>3 DEF Deleted
  <2>4. CASE RemovalFailed(ctl.task)
    <3>1. ctl' = Idle \/ ctl' = PatchPhase("shutdown", "Error")
      BY <2>4 DEF RemovalFailed, GoTo, Fail
    <3> QED
      BY <3>1, <1>c, <1>i, <1>t, PatchFacts DEF Reports
  <2>5. CASE DeleteObject("deleteMachine", "Machine", At("deleteBootstrap", ctl.task))
             /\ ~RemovalFailed(ctl.task)
    <3>1. ctl'.pc = "deleteBootstrap" /\ capi'["Machine"] # "present"
      BY <2>0, <2>1, <2>2, <2>3, <2>5, AtFacts, Literals
    <3> QED
      BY <3>1 DEF Removed
  <2>6. CASE DeleteObject("deleteBootstrap", "Bootstrap", At("deleteInfrastructure", ctl.task))
             /\ ~RemovalFailed(ctl.task)
    <3>1. /\ ctl'.pc = "deleteInfrastructure" /\ ctl.pc = "deleteBootstrap"
          /\ capi' = Deleted("Bootstrap")
      BY <2>0, <2>1, <2>2, <2>6, AtFacts, Literals
    <3>2. capi'["Machine"] # "present" /\ capi'["Bootstrap"] # "present"
      BY <2>0, <2>3, <3>1 DEF Removed
    <3> QED
      BY <3>1, <3>2 DEF Removed
  <2>7. CASE DeleteObject("deleteInfrastructure", "Infrastructure", AfterRemoval(ctl.task))
             /\ ~RemovalFailed(ctl.task)
    <3>1. ctl.pc = "deleteInfrastructure" /\ capi' = Deleted("Infrastructure")
      BY <2>0, <2>2, <2>7
    <3>2. NothingPresent'
      BY <2>0, <2>3, <3>1 DEF Removed, NothingPresent, Kinds
    <3> QED
      BY <3>2, <1>n
  <2> QED
    BY <1>8, <2>4, <2>5, <2>6, <2>7 DEF RemoveMachineFromCluster
<1>9. CASE CleanupTimesOut
  <2>1. CASE ctl' = Idle
    BY <2>1, <1>i
  <2>2. CASE ForceFinalizer /\ ctl' = At("unfinalize", "deletion")
    <3>1. ctl'.pc = "unfinalize"
      BY <2>2, <1>t, AtFacts, Literals
    <3> QED
      BY <2>2, <3>1 DEF Removed
  <2> QED
    BY <1>9, <2>1, <2>2 DEF CleanupTimesOut, GoTo, Fail
<1>10. CASE Drain
  <2>1. ctl' = Idle \/ ctl' = At("deleteMachine", ctl.task)
    BY <1>10 DEF Drain, GoTo, Fail
  <2> QED
    BY <1>0, <2>1, <1>a, <1>i, AtFacts, Literals
<1>11. CASE DisableSchedule
  <2>1. ctl' = Idle \/ ctl' = At("clear", "emergency")
    BY <1>11 DEF DisableSchedule, GoTo, Fail
  <2> QED
    BY <2>1, <1>a, <1>i, <1>t, AtFacts, Literals
<1>12. CASE ClearReclaimAnnotations
  <2>1. ctl' = PatchPhase("emergency", "Disabled")
    BY <1>12 DEF ClearReclaimAnnotations, GoTo
  <2> QED
    BY <2>1, <1>c, <1>t, PatchFacts DEF Reports
<1>13. RejectSpec \/ AddFinalizer \/ RemoveFinalizer \/ EnrichStatus \/ Crash => ctl' = Idle
  BY DEF RejectSpec, AddFinalizer, RemoveFinalizer, EnrichStatus, Crash, Succeed, SucceedEarly, Fail
<1>14. CASE UserEdits
  <2>1. ctl' = ctl /\ capi' = capi
    BY <1>14 DEF UserEdits
  <2>2. sm' = NoObject \/ sm'.phase = sm.phase
    BY <1>0, <1>14 DEF UserEdits, Edits, Object
  <2>3. sm'.phase = sm.phase \/ sm'.phase \notin Running
    BY <2>2, NoObjectFacts DEF Running
  <2> QED
    BY <2>1, <2>3, <1>u
<1>15. CASE AgentRequestsReclaim \/ NodeJoins \/ NodeLeaves \/ Gone \/ Observe \/ UNCHANGED vars
  BY <1>15, <1>u DEF AgentRequestsReclaim, NodeJoins, NodeLeaves, Gone, Observe, vars
<1>16. CASE GarbageCollect \/ \E k \in Kinds : TeardownEnds(k)
  <2>1. sm' = sm /\ ctl' = ctl
    BY <1>16 DEF GarbageCollect, TeardownEnds
  <2>2. \A k \in Kinds : capi'[k] = "present" => capi[k] = "present"
    BY <1>0, <1>16 DEF GarbageCollect, TeardownEnds, Deleted
  <2> QED
    BY <2>1, <2>2, <1>u
<1>17. CASE Tick
  <2>1. sm'.phase = sm.phase /\ capi' = capi
    BY <1>0, <1>17 DEF Tick, Aged, Object
  <2>2. ctl'.pc = ctl.pc /\ ctl'.target = ctl.target
    BY <1>0, <1>17 DEF Tick, Control
  <2> QED
    BY <2>1, <2>2, <1>u
<1> QED
  BY <1>1, <1>2, <1>3, <1>4, <1>5, <1>6, <1>7, <1>8, <1>9, <1>10, <1>11, <1>12, <1>13, <1>14,
     <1>15, <1>16, <1>17, <1>i DEF Next, Reconcile, Capi

\* The steps that end a running resource's phase, or the resource, are the phase
\* write and the removal of the finalizer.
LEMMA ReportStep ==
  ASSUME TypeOK, Standing, Routed, Removed, [Next]_vars, sm.phase \in Running,
         sm'.phase \in Reports \/ (~sm'.exists /\ ~ForceFinalizer)
  PROVE  NothingPresent
<1>0. sm \in Object /\ ctl.obj \in Object /\ sm.phase \notin Reports
  BY DEF TypeOK, Control, Running, Reports
<1>1. sm.exists /\ sm.finalizer
  BY NoObjectFacts DEF Standing, Owned, Routed, Running
<1>2. ASSUME sm'.exists, sm'.phase = sm.phase PROVE FALSE
  BY <1>0, <1>2
<1>3. CASE UpdatePhase
  <2>1. ctl.pc = "patch" /\ sm' \in {sm, WithPhase(sm, ctl.target, ctl.grace)}
    BY <1>3 DEF UpdatePhase
  <2>2. sm'.exists /\ sm'.phase \in {sm.phase, ctl.target}
    BY <1>0, <1>1, <2>1 DEF WithPhase, Object
  <2> QED
    BY <1>0, <2>1, <2>2 DEF Removed
<1>4. CASE RemoveFinalizer
  <2>1. ctl.pc = "unfinalize" /\ (sm' = sm \/ sm' = NoObject)
    BY <1>4 DEF RemoveFinalizer
  <2>2. ~ForceFinalizer
    BY <1>0, <1>1, <2>1, NoObjectFacts DEF Reports
  <2> QED
    BY <2>1, <2>2 DEF Removed
<1>5. ASSUME AddFinalizer \/ DisableSchedule \/ EnrichStatus \/ Tick PROVE FALSE
  <2>1. sm'.exists = sm.exists /\ sm'.phase = sm.phase
    BY <1>0, <1>5 DEF AddFinalizer, DisableSchedule, EnrichStatus, Tick, Aged, Object
  <2> QED
    BY <1>1, <1>2, <2>1
<1>6. ASSUME ResolveSchedule PROVE FALSE
  <2>1. PICK verdict \in Verdicts : sm' \in {sm, PersistSpotSchedule(ctl.obj, verdict)}
    BY <1>6 DEF ResolveSchedule
  <2>2. ctl.obj.active = sm.active
    BY <1>6 DEF ResolveSchedule, Standing, SnapshotCurrent
  <2>3. sm'.exists = sm.exists /\ sm'.phase = sm.phase
    BY <1>0, <2>1, <2>2, PersistHolds
  <2> QED
    BY <1>1, <1>2, <2>3
<1>7. ASSUME UserEdits PROVE FALSE
  <2>1. sm'.exists = sm.exists /\ sm'.phase = sm.phase
    BY <1>0, <1>1, <1>7 DEF UserEdits, Edits, Object
  <2> QED
    BY <1>1, <1>2, <2>1
<1>8. \/ sm' = sm \/ AddFinalizer \/ RemoveFinalizer \/ UpdatePhase \/ DisableSchedule
      \/ EnrichStatus \/ ResolveSchedule \/ UserEdits \/ Tick
  BY DEF Next, Reconcile, Capi, Observe, Outside, StartDeletion, StartFinalizer, RejectSpec,
     StartKillSwitch, StartInner, CheckEmergencyReclaim, Preflight,
     AddMachineToCluster, CreateObject, RemoveMachineFromCluster, DeleteObject, CleanupTimesOut,
     Drain, ClearReclaimAnnotations, Crash, AgentRequestsReclaim, NodeJoins, NodeLeaves,
     TeardownEnds, GarbageCollect, Gone, vars
<1> QED
  BY <1>1, <1>2, <1>3, <1>4, <1>5, <1>6, <1>7, <1>8

\* Without stale reads, but through any number of faults and crashes, a running
\* resource reports the end of its machine, or is released, only behind a removal
\* that deleted all three CAPI objects; a release that the cleanup timeout may
\* force is the exception.
THEOREM RemovalBeforeReportHolds ==
  ASSUME ~CacheLag PROVE Spec => RemovalBeforeReport
<1> DEFINE Known == TypeOK /\ TaskKnown /\ Standing
           Report == /\ sm.phase \in Running
                     /\ sm'.phase \in Reports \/ (~sm'.exists /\ ~ForceFinalizer)
                     => NothingPresent
<1>1. Init => Routed /\ Removed
  BY IdleFacts DEF Init, NewObject, NoObject, Routed, Removed
<1>2. Known /\ Known' /\ Routed /\ Removed /\ [Next]_vars => (Routed /\ Removed)'
  BY FinalizerFirst, EmergencyAnnounced, RemovedStep DEF Routed
<1>3. Known /\ Routed /\ Removed /\ [Next]_vars => [Report]_vars
  BY ReportStep
<1>4. Spec => []Known
  BY StandingAlways
<1>5. RemovalBeforeReport <=> [][Report]_vars
  BY DEF RemovalBeforeReport, Reports
<1> HIDE DEF Known, Report
<1> QED
  BY <1>1, <1>2, <1>3, <1>4, <1>5, PTL DEF Spec

=============================================================================
