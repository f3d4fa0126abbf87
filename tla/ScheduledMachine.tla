-------------------------- MODULE ScheduledMachine --------------------------
(***************************************************************************)
(* The lifecycle of one ScheduledMachine, as the 5-Spot reconciler drives  *)
(* it: the custom resource in the API server, the reflector's copy of it,  *)
(* the three CAPI objects it stands for, the Node they become, and the     *)
(* controller that works through one reconcile, one API call per step.     *)
(*                                                                         *)
(* Between two API calls of a reconcile everybody else may act: the user   *)
(* edits or deletes the resource, CAPI builds or tears down, the node-side *)
(* agent asks for the node back, the clock ticks, the controller process   *)
(* dies. The schedule provider may answer anything whenever it is asked.   *)
(***************************************************************************)
EXTENDS Integers

CONSTANTS
  GraceTimeout,    \* spec.gracefulShutdownTimeout, in clock ticks
  ForceFinalizer,  \* Context.force_finalizer_on_timeout
  CacheLag,        \* may a reconcile start from a stale reflector copy?
  MaxEdits,        \* bound: user edits of the resource
  MaxReclaims,     \* bound: reclaim requests by the node-side agent
  MaxFaults,       \* bound: API calls that fail or whose answer is lost
  MaxCrashes,      \* bound: restarts of the controller process
  RetryCap         \* the retry count from which compute_backoff_secs is flat

ASSUME ConstantsAssumption ==
  /\ GraceTimeout \in Nat
  /\ ForceFinalizer \in BOOLEAN
  /\ CacheLag \in BOOLEAN
  /\ MaxEdits \in Nat /\ MaxReclaims \in Nat
  /\ MaxFaults \in Nat /\ MaxCrashes \in Nat
  /\ RetryCap \in Nat \ {0}

VARIABLES
  sm,          \* the ScheduledMachine in the API server
  cache,       \* the reflector's copy, which reconciles start from
  capi,        \* the CAPI Machine, bootstrap and infrastructure objects
  machineRef,  \* Machine.status.nodeRef is set
  node,        \* the Node the Machine becomes
  ctl,         \* the reconcile in progress
  retryCount,  \* Context.retry_counts of this resource
  spent,       \* how much of each bound is used up
  (*************************************************************************)
  (* History variables: no action reads them.                              *)
  (*************************************************************************)
  shut,        \* why and how long ago the resource entered ShuttingDown
  ejected      \* did an emergency reclaim take the Machine since the last enable

vars == <<sm, cache, capi, machineRef, node, ctl, retryCount, spent,
          shut, ejected>>

(***************************************************************************)
(* Data                                                                    *)
(***************************************************************************)
Phases == {"Unset", "Pending", "Active", "ShuttingDown", "Inactive",
           "Disabled", "Terminated", "EmergencyRemove", "Error"}

\* Mutant: the removal is skipped for a machine already shutting down.
Running_OnlyActive == {"Active"}

\* The phases in which handle_deletion and handle_kill_switch remove the machine.
Running == {"Active", "ShuttingDown"}

Tristate == {"unset", "yes", "no"}

Verdicts == {"Active", "Inactive", "Unresolved"}

Kinds == {"Machine", "Bootstrap", "Infrastructure"}

\* graceLeft: ticks until check_grace_period_elapsed answers true, 0 when the
\* status holds no GracePeriod condition. resolved, active: status.spotSchedule.
Object == [exists : BOOLEAN, deleting : BOOLEAN, finalizer : BOOLEAN,
           valid : BOOLEAN, enabled : BOOLEAN, killSwitch : BOOLEAN,
           phase : Phases, graceLeft : 0..GraceTimeout, nodeRef : BOOLEAN,
           resolved : Tristate, active : Tristate]

NoObject == [exists |-> FALSE, deleting |-> FALSE, finalizer |-> FALSE,
             valid |-> FALSE, enabled |-> FALSE, killSwitch |-> FALSE,
             phase |-> "Unset", graceLeft |-> 0, nodeRef |-> FALSE,
             resolved |-> "unset", active |-> "unset"]

\* The resource as the user applies it.
NewObject == [NoObject EXCEPT !.exists = TRUE, !.valid = TRUE, !.enabled = TRUE]

Node == [exists : BOOLEAN, cordoned : BOOLEAN, reclaim : BOOLEAN]

NoNode == [exists |-> FALSE, cordoned |-> FALSE, reclaim |-> FALSE]

CreateSteps == {"createBootstrap", "createInfrastructure", "createMachine"}

DeleteSteps == {"deleteMachine", "deleteBootstrap", "deleteInfrastructure"}

Steps == {"idle", "finalize", "unfinalize", "reclaim", "resolve", "preflight",
          "enrich", "drain", "disable", "clear", "patch"}
           \cup CreateSteps \cup DeleteSteps

\* What a reconcile is about, once it left the ordinary path.
Tasks == {"none", "deletion", "kill", "shutdown", "emergency"}

Control == [pc : Steps, task : Tasks, obj : Object, target : Phases,
            grace : BOOLEAN]

Idle == [pc |-> "idle", task |-> "none", obj |-> NoObject,
         target |-> "Unset", grace |-> FALSE]

Budget == [edits : 0..MaxEdits, reclaims : 0..MaxReclaims,
           faults : 0..MaxFaults, crashes : 0..MaxCrashes]

TypeOK ==
  /\ sm \in Object
  /\ cache \in Object
  /\ capi \in [Kinds -> {"absent", "present", "deleting"}]
  /\ machineRef \in BOOLEAN
  /\ node \in Node
  /\ ctl \in Control
  /\ retryCount \in 0..RetryCap
  /\ spent \in Budget
  /\ shut \in [cause : {"none", "window", "disabled"}, age : 0..GraceTimeout]
  /\ ejected \in {"no", "yes", "nodeLost"}

Init ==
  /\ sm = NewObject
  /\ cache = NewObject
  /\ capi = [k \in Kinds |-> "absent"]
  /\ machineRef = FALSE
  /\ node = NoNode
  /\ ctl = Idle
  /\ retryCount = 0
  /\ spent = [edits |-> 0, reclaims |-> 0, faults |-> 0, crashes |-> 0]
  /\ shut = [cause |-> "none", age |-> 0]
  /\ ejected = "no"

(***************************************************************************)
(* How a reconcile moves on.                                               *)
(***************************************************************************)
At(pc, task) == [Idle EXCEPT !.pc = pc, !.task = task]

\* Before update_phase, and before update_phase_with_grace_period.
PatchPhase(task, target) ==
  [Idle EXCEPT !.pc = "patch", !.task = task, !.target = target]

PatchPhaseWithGrace(target) == [PatchPhase("none", target) EXCEPT !.grace = TRUE]

\* reconcile_inner returned Ok: reconcile_guarded clears the retry count.
Succeed == ctl' = Idle /\ retryCount' = 0

\* handle_deletion or add_finalizer returned Ok: the retry count stays.
SucceedEarly == ctl' = Idle /\ UNCHANGED retryCount

\* Err: the error policy counts the failure and requeues.
Fail ==
  /\ ctl' = Idle
  /\ retryCount' = IF retryCount < RetryCap THEN retryCount + 1 ELSE RetryCap

GoTo(c) == ctl' = c /\ UNCHANGED retryCount

\* A handler of reconcile_inner with nothing to call is done.
Proceed(c) == IF c = Idle THEN Succeed ELSE GoTo(c)

(***************************************************************************)
(* An API call is answered ("ok"), refused without effect ("refused"), or  *)
(* takes effect while its answer is lost ("lost"). The last two cost one   *)
(* of MaxFaults.                                                           *)
(***************************************************************************)
Answers == {"ok"} \cup (IF spent.faults < MaxFaults THEN {"refused", "lost"} ELSE {})

Charge(a) == spent' = IF a = "ok" THEN spent ELSE [spent EXCEPT !.faults = @ + 1]

\* A patch of a ScheduledMachine that is gone is a 404, an error like any other.
Applied(a) == a # "refused" /\ sm.exists

Acknowledged(a) == a = "ok" /\ sm.exists

(***************************************************************************)
(* The start of a reconcile: reconcile_guarded up to the first API call,   *)
(* on the object the reflector holds. This replica leads.                  *)
(***************************************************************************)
Observe ==
  /\ CacheLag
  /\ cache # sm
  /\ cache' = sm
  /\ UNCHANGED <<sm, capi, machineRef, node, ctl, retryCount, spent, shut, ejected>>

\* The object a reconcile starts from: without lag, the current one.
Seen == IF CacheLag THEN cache ELSE sm

Triggered == ctl.pc = "idle" /\ Seen.exists

Outside == <<sm, cache, capi, machineRef, node, spent, shut, ejected>>

\* Mutant: cleanup is retried until the phase says the machine is gone.
HandleDeletion_WaitsForPhase(o) ==
  CASE o.phase \in Running -> At("deleteMachine", "deletion")
    [] o.phase \in {"Error", "EmergencyRemove"} -> Idle
    [] OTHER -> At("unfinalize", "deletion")

\* handle_deletion up to its first API call.
HandleDeletion(o) ==
  IF o.phase \in Running THEN At("deleteMachine", "deletion")
  ELSE At("unfinalize", "deletion")

StartDeletion ==
  /\ Triggered
  /\ Seen.deleting
  /\ GoTo(HandleDeletion(Seen))
  /\ UNCHANGED Outside

StartFinalizer ==
  /\ Triggered
  /\ ~Seen.deleting /\ ~Seen.finalizer
  /\ GoTo(At("finalize", "none"))
  /\ UNCHANGED Outside

Admitted == Triggered /\ ~Seen.deleting /\ Seen.finalizer

\* validate_cluster_name, validate_kill_if_commands and validate_schedule_ref
\* come before the kill switch.
RejectSpec ==
  /\ Admitted
  /\ ~Seen.valid
  /\ Fail
  /\ UNCHANGED Outside

\* Mutant: a resource that is not running is left alone.
HandleKillSwitch_OnlyRunning(o) ==
  IF o.phase \in Running THEN At("deleteMachine", "kill") ELSE Idle

\* handle_kill_switch up to its first API call; Idle when already Terminated.
HandleKillSwitch(o) ==
  CASE o.phase = "Terminated" -> Idle
    [] o.phase \in Running -> At("deleteMachine", "kill")
    [] OTHER -> PatchPhase("kill", "Terminated")

StartKillSwitch ==
  /\ Admitted
  /\ Seen.valid /\ Seen.killSwitch
  /\ Proceed(HandleKillSwitch(Seen))
  /\ UNCHANGED Outside

StartInner ==
  /\ Admitted
  /\ Seen.valid /\ ~Seen.killSwitch
  /\ GoTo([At("reclaim", "none") EXCEPT !.obj = Seen])
  /\ UNCHANGED Outside

(***************************************************************************)
(* Finalizer and phase writes on the ScheduledMachine.                     *)
(***************************************************************************)
AddFinalizer ==
  /\ ctl.pc = "finalize"
  /\ \E a \in Answers :
       /\ Charge(a)
       /\ sm' = IF Applied(a) THEN [sm EXCEPT !.finalizer = TRUE] ELSE sm
       /\ IF Acknowledged(a) THEN SucceedEarly ELSE Fail
  /\ UNCHANGED <<cache, capi, machineRef, node, shut, ejected>>

\* The last finalizer of a deleting object: the API server drops the object.
RemoveFinalizer ==
  /\ ctl.pc = "unfinalize"
  /\ \E a \in Answers :
       /\ Charge(a)
       /\ sm' = IF Applied(a) THEN NoObject ELSE sm
       /\ IF Acknowledged(a) THEN SucceedEarly ELSE Fail
  /\ UNCHANGED <<cache, capi, machineRef, node, shut, ejected>>

\* The merge patch of update_phase and update_phase_with_grace_period: it
\* replaces phase and conditions and leaves nodeRef and spotSchedule alone.
WithPhase(o, target, grace) ==
  [o EXCEPT !.phase = target, !.graceLeft = IF grace THEN GraceTimeout ELSE 0]

\* History: entering ShuttingDown restarts the age.
ShutAfter(target, grace) ==
  IF target = "ShuttingDown"
  THEN [cause |-> IF grace THEN "window" ELSE "disabled", age |-> 0]
  ELSE [cause |-> "none", age |-> 0]

\* Where the reconcile goes once its phase patch is acknowledged.
AfterPatch ==
  IF ctl.task = "emergency" /\ ctl.target = "EmergencyRemove"
  THEN GoTo(At("drain", "emergency"))
  ELSE Succeed

UpdatePhase ==
  /\ ctl.pc = "patch"
  /\ \E a \in Answers :
       /\ Charge(a)
       /\ sm' = IF Applied(a) THEN WithPhase(sm, ctl.target, ctl.grace) ELSE sm
       /\ shut' = IF Applied(a) THEN ShutAfter(ctl.target, ctl.grace) ELSE shut
       /\ IF Acknowledged(a) THEN AfterPatch ELSE Fail
  /\ UNCHANGED <<cache, capi, machineRef, node, ejected>>

(***************************************************************************)
(* check_emergency_reclaim: the Node named by the status of the snapshot.  *)
(***************************************************************************)
\* Mutant: the flow starts without recording EmergencyRemove.
AfterReclaimCheck_Unannounced ==
  IF node.exists /\ node.reclaim THEN At("drain", "emergency")
  ELSE [ctl EXCEPT !.pc = "resolve"]

\* Mutant: only an Active machine is reclaimed.
AfterReclaimCheck_OnlyActive ==
  IF node.exists /\ node.reclaim /\ ctl.obj.phase = "Active"
  THEN PatchPhase("emergency", "EmergencyRemove")
  ELSE [ctl EXCEPT !.pc = "resolve"]

AfterReclaimCheck ==
  IF node.exists /\ node.reclaim
  THEN PatchPhase("emergency", "EmergencyRemove")
  ELSE [ctl EXCEPT !.pc = "resolve"]

CheckEmergencyReclaim ==
  /\ ctl.pc = "reclaim"
  /\ \/ /\ ~ctl.obj.nodeRef
        /\ GoTo([ctl EXCEPT !.pc = "resolve"])
        /\ UNCHANGED spent
     \/ /\ ctl.obj.nodeRef
        /\ \E a \in Answers :
             /\ Charge(a)
             /\ IF a = "ok" THEN GoTo(AfterReclaimCheck) ELSE Fail
  /\ UNCHANGED <<sm, cache, capi, machineRef, node, shut, ejected>>

(***************************************************************************)
(* Schedule resolution, its persisted hold-last-state, and the dispatch on *)
(* the phase of the snapshot.                                              *)
(***************************************************************************)
\* The active value to persist: the fresh verdict, or the one already held.
HeldActive(o, verdict) ==
  CASE verdict = "Active"     -> "yes"
    [] verdict = "Inactive"   -> "no"
    [] verdict = "Unresolved" -> o.active

ResolvedBy(verdict) == IF verdict = "Unresolved" THEN "no" ELSE "yes"

\* Mutant: an unresolved provider counts as inactive.
ShouldBeActive_FailClosed(o, verdict) == verdict = "Active"

\* compose_should_be_active: an unresolved provider holds the last known value.
ShouldBeActive(o, verdict) == HeldActive(o, verdict) = "yes"

\* The no-op guard: nothing in the snapshot's status.spotSchedule changes.
SpotScheduleKept(o, verdict) ==
  o.resolved = ResolvedBy(verdict) /\ o.active = HeldActive(o, verdict)

\* Mutant: an unresolved provider overwrites the held value.
PersistSpotSchedule_Forgets(o, verdict) ==
  [sm EXCEPT !.resolved = ResolvedBy(verdict),
             !.active = IF verdict = "Active" THEN "yes" ELSE "no"]

\* The merge patch leaves out an active value that was never known.
PersistSpotSchedule(o, verdict) ==
  IF SpotScheduleKept(o, verdict) THEN sm
  ELSE [sm EXCEPT !.resolved = ResolvedBy(verdict),
                  !.active = IF HeldActive(o, verdict) = "unset" THEN @
                             ELSE HeldActive(o, verdict)]

\* Mutant: off by one at the end of the grace period.
GraceElapsed_OffByOne(o) == o.graceLeft <= 1

\* Mutant: a shutdown without a recorded grace start never ends.
GraceElapsed_NeedsWindow(o) == o.graceLeft = 0 /\ o.enabled

\* check_grace_period_elapsed
GraceElapsed(o) == o.graceLeft = 0

\* The phase handlers, each up to its first API call; Idle where the handler
\* only requeues.
HandlePendingPhase(o, active) ==
  CASE ~o.enabled            -> PatchPhase("none", "Disabled")
    [] o.enabled /\ ~active  -> PatchPhase("none", "Inactive")
    [] o.enabled /\ active   -> At("preflight", "none")

\* Only the closed window records the GracePeriod reason.
HandleActivePhase(o, active) ==
  CASE ~o.enabled            -> PatchPhase("none", "ShuttingDown")
    [] o.enabled /\ ~active  -> PatchPhaseWithGrace("ShuttingDown")
    [] o.enabled /\ active   -> At("enrich", "none")

HandleShuttingDownPhase(o) ==
  IF GraceElapsed(o) THEN At("drain", "shutdown") ELSE Idle

HandleInactivePhase(o, active) ==
  IF o.enabled /\ active THEN PatchPhase("none", "Pending") ELSE Idle

HandleDisabledPhase(o) ==
  IF o.enabled THEN PatchPhase("none", "Pending") ELSE Idle

HandleEmergencyRemovePhase == PatchPhase("none", "Disabled")

HandleTerminatedPhase == Idle

HandleErrorPhase == Idle

PhaseHandler(o, active) ==
  CASE o.phase \in {"Unset", "Pending"} -> HandlePendingPhase(o, active)
    [] o.phase = "Active"          -> HandleActivePhase(o, active)
    [] o.phase = "ShuttingDown"    -> HandleShuttingDownPhase(o)
    [] o.phase = "Inactive"        -> HandleInactivePhase(o, active)
    [] o.phase = "Disabled"        -> HandleDisabledPhase(o)
    [] o.phase = "Terminated"      -> HandleTerminatedPhase
    [] o.phase = "EmergencyRemove" -> HandleEmergencyRemovePhase
    [] o.phase = "Error"           -> HandleErrorPhase

\* The provider may answer anything at any time.
ResolveSchedule ==
  /\ ctl.pc = "resolve"
  /\ \E verdict \in Verdicts, a \in Answers :
       LET o == ctl.obj
           handler == PhaseHandler(o, ShouldBeActive(o, verdict))
       IN /\ Charge(a)
          /\ sm' = IF Applied(a) THEN PersistSpotSchedule(o, verdict) ELSE sm
          /\ IF a = "ok" /\ (SpotScheduleKept(o, verdict) \/ sm.exists)
             THEN Proceed(handler)
             ELSE Fail
  /\ UNCHANGED <<cache, capi, machineRef, node, shut, ejected>>

(***************************************************************************)
(* add_machine_to_cluster: validation and three access preflights, then    *)
(* the bootstrap object, the infrastructure object and the Machine. Any    *)
(* error sends the resource to Error.                                      *)
(***************************************************************************)
CreationFailed == PatchPhase("none", "Error")

Preflight ==
  /\ ctl.pc = "preflight"
  /\ \E a \in Answers :
       /\ Charge(a)
       /\ GoTo(IF a = "ok" THEN At("createBootstrap", "none") ELSE CreationFailed)
  /\ UNCHANGED <<sm, cache, capi, machineRef, node, shut, ejected>>

\* create_dynamic_resource: AlreadyExists counts as created.
Created(k) == [capi EXCEPT ![k] = IF @ = "absent" THEN "present" ELSE @]

CreateObject(pc, k, next) ==
  /\ ctl.pc = pc
  /\ \E a \in Answers :
       /\ Charge(a)
       /\ capi' = IF a = "refused" THEN capi ELSE Created(k)
       /\ GoTo(IF a = "ok" THEN next ELSE CreationFailed)
  /\ UNCHANGED <<sm, cache, machineRef, node, shut, ejected>>

AddMachineToCluster ==
  \/ CreateObject("createBootstrap", "Bootstrap", At("createInfrastructure", "none"))
  \/ CreateObject("createInfrastructure", "Infrastructure", At("createMachine", "none"))
  \/ CreateObject("createMachine", "Machine", PatchPhase("none", "Active"))

(***************************************************************************)
(* remove_machine_from_cluster: the Machine, the bootstrap object, the     *)
(* infrastructure object, the first error ends it. Deletion is a request;  *)
(* a 404 counts as deleted.                                                *)
(***************************************************************************)
Deleted(k) == [capi EXCEPT ![k] = IF @ = "present" THEN "deleting" ELSE @]

\* Mutant: step 5 of the emergency flow, the loop breaker, is skipped.
AfterRemoval_NoDisable(task) ==
  CASE task = "deletion"  -> At("unfinalize", "deletion")
    [] task = "kill"      -> PatchPhase("kill", "Terminated")
    [] task = "shutdown"  -> PatchPhase("shutdown", "Inactive")
    [] task = "emergency" -> At("clear", "emergency")

AfterRemoval(task) ==
  CASE task = "deletion"  -> At("unfinalize", "deletion")
    [] task = "kill"      -> PatchPhase("kill", "Terminated")
    [] task = "shutdown"  -> PatchPhase("shutdown", "Inactive")
    [] task = "emergency" -> At("disable", "emergency")

\* Mutant: the emergency flow goes on when a delete fails.
RemovalFailed_BestEffort(task) ==
  CASE task = "shutdown"  -> GoTo(PatchPhase("shutdown", "Error"))
    [] task = "emergency" -> GoTo(AfterRemoval(task))
    [] OTHER              -> Fail

\* Mutant: the grace period is over, so the shutdown goes on when a delete fails.
RemovalFailed_ShutdownGoesOn(task) ==
  IF task = "shutdown" THEN GoTo(AfterRemoval(task)) ELSE Fail

\* Only handle_shutting_down_phase turns the error into a phase.
RemovalFailed(task) ==
  IF task = "shutdown" THEN GoTo(PatchPhase("shutdown", "Error")) ELSE Fail

\* History: is there still a Node to replay the reclaim from, where it is needed?
EjectedNow == IF ~sm.enabled \/ (node.exists /\ node.reclaim) THEN "yes" ELSE "nodeLost"

DeleteObject(pc, k, next) ==
  /\ ctl.pc = pc
  /\ \E a \in Answers :
       /\ Charge(a)
       /\ capi' = IF a = "refused" THEN capi ELSE Deleted(k)
       /\ ejected' = IF a # "refused" /\ k = "Machine" /\ ctl.task = "emergency"
                     THEN EjectedNow ELSE ejected
       /\ IF a = "ok" THEN GoTo(next) ELSE RemovalFailed(ctl.task)
  /\ UNCHANGED <<sm, cache, machineRef, node, shut>>

\* Mutant: the bootstrap object is deleted before the Machine.
RemoveMachineFromCluster_BootstrapFirst ==
  \/ DeleteObject("deleteMachine", "Bootstrap", At("deleteBootstrap", ctl.task))
  \/ DeleteObject("deleteBootstrap", "Machine", At("deleteInfrastructure", ctl.task))
  \/ DeleteObject("deleteInfrastructure", "Infrastructure", AfterRemoval(ctl.task))

RemoveMachineFromCluster ==
  \/ DeleteObject("deleteMachine", "Machine", At("deleteBootstrap", ctl.task))
  \/ DeleteObject("deleteBootstrap", "Bootstrap", At("deleteInfrastructure", ctl.task))
  \/ DeleteObject("deleteInfrastructure", "Infrastructure", AfterRemoval(ctl.task))

\* run_cleanup_with_timeout gives up on the removal of a deleted resource.
CleanupTimesOut ==
  /\ ctl.pc \in DeleteSteps /\ ctl.task = "deletion"
  /\ spent.faults < MaxFaults
  /\ spent' = [spent EXCEPT !.faults = @ + 1]
  /\ IF ForceFinalizer THEN GoTo(At("unfinalize", "deletion")) ELSE Fail
  /\ UNCHANGED <<sm, cache, capi, machineRef, node, shut, ejected>>

(***************************************************************************)
(* Drain, shared by handle_shutting_down_phase and handle_emergency_remove. *)
(* An unreadable Machine or an unresolvable child cluster is an error; a   *)
(* drain that fails is not.                                                *)
(***************************************************************************)
\* get_node_from_machine; the emergency flow has the node from the status.
DrainsNode == ctl.task = "emergency" \/ (machineRef /\ capi["Machine"] # "absent")

Drain ==
  /\ ctl.pc = "drain"
  /\ \E a \in Answers :
       /\ Charge(a)
       /\ \/ GoTo(At("deleteMachine", ctl.task))
          \/ a # "ok" /\ Fail
       /\ node' = IF a # "refused" /\ DrainsNode
                  THEN [node EXCEPT !.cordoned = node.exists] ELSE node
  /\ UNCHANGED <<sm, cache, capi, machineRef, shut, ejected>>

(***************************************************************************)
(* The rest of handle_emergency_remove: disable the schedule, then clear   *)
(* the request on the Node, then move to Disabled.                         *)
(***************************************************************************)
DisableSchedule ==
  /\ ctl.pc = "disable"
  /\ \E a \in Answers :
       /\ Charge(a)
       /\ sm' = IF Applied(a) THEN [sm EXCEPT !.enabled = FALSE] ELSE sm
       /\ IF Acknowledged(a) THEN GoTo(At("clear", "emergency")) ELSE Fail
  /\ UNCHANGED <<cache, capi, machineRef, node, shut, ejected>>

\* Best effort: the flow goes on whatever the answer.
ClearReclaimAnnotations ==
  /\ ctl.pc = "clear"
  /\ \E a \in Answers :
       /\ Charge(a)
       /\ node' = IF a = "refused" THEN node ELSE [node EXCEPT !.reclaim = FALSE]
       /\ GoTo(PatchPhase("emergency", "Disabled"))
  /\ UNCHANGED <<sm, cache, capi, machineRef, shut, ejected>>

(***************************************************************************)
(* The happy path of handle_active_phase copies the Machine's nodeRef into *)
(* the status; it never clears it, and no failure here is fatal.           *)
(***************************************************************************)
EnrichStatus ==
  /\ ctl.pc = "enrich"
  /\ \E a \in Answers :
       /\ Charge(a)
       /\ sm' = IF Applied(a) /\ machineRef /\ capi["Machine"] # "absent"
                THEN [sm EXCEPT !.nodeRef = TRUE] ELSE sm
  /\ Succeed
  /\ UNCHANGED <<cache, capi, machineRef, node, shut, ejected>>

\* The process dies between two API calls; the restart lists afresh.
Crash ==
  /\ spent.crashes < MaxCrashes
  /\ ctl.pc # "idle"
  /\ spent' = [spent EXCEPT !.crashes = @ + 1]
  /\ ctl' = Idle
  /\ retryCount' = 0
  /\ cache' = IF CacheLag THEN sm ELSE cache
  /\ UNCHANGED <<sm, capi, machineRef, node, shut, ejected>>

(***************************************************************************)
(* Everybody else.                                                         *)
(***************************************************************************)
\* An object with no finalizer vanishes when it is deleted.
Edits ==
  {[sm EXCEPT !.enabled = ~@], [sm EXCEPT !.killSwitch = ~@], [sm EXCEPT !.valid = ~@],
   IF sm.finalizer THEN [sm EXCEPT !.deleting = TRUE] ELSE NoObject}

UserEdits ==
  /\ sm.exists
  /\ spent.edits < MaxEdits
  /\ spent' = [spent EXCEPT !.edits = @ + 1]
  /\ sm' \in Edits \ {sm}
  /\ ejected' = IF ~sm.enabled /\ sm'.enabled THEN "no" ELSE ejected
  /\ UNCHANGED <<cache, capi, machineRef, node, ctl, retryCount, shut>>

AgentRequestsReclaim ==
  /\ node.exists /\ ~node.reclaim
  /\ spent.reclaims < MaxReclaims
  /\ spent' = [spent EXCEPT !.reclaims = @ + 1]
  /\ node' = [node EXCEPT !.reclaim = TRUE]
  /\ UNCHANGED <<sm, cache, capi, machineRef, ctl, retryCount, shut, ejected>>

\* CAPI turns a complete Machine into a Node.
NodeJoins ==
  /\ \A k \in Kinds : capi[k] = "present"
  /\ ~node.exists
  /\ node' = [NoNode EXCEPT !.exists = TRUE]
  /\ machineRef' = TRUE
  /\ UNCHANGED <<sm, cache, capi, ctl, retryCount, spent, shut, ejected>>

\* CAPI tears a deleted Machine down, its Node first.
NodeLeaves ==
  /\ capi["Machine"] = "deleting"
  /\ node.exists
  /\ node' = NoNode
  /\ ejected' = IF ejected = "yes" /\ sm.enabled THEN "nodeLost" ELSE ejected
  /\ UNCHANGED <<sm, cache, capi, machineRef, ctl, retryCount, spent, shut>>

TeardownEnds(k) ==
  /\ capi[k] = "deleting"
  /\ k = "Machine" => ~node.exists
  /\ capi' = [capi EXCEPT ![k] = "absent"]
  /\ machineRef' = (machineRef /\ k # "Machine")
  /\ UNCHANGED <<sm, cache, node, ctl, retryCount, spent, shut, ejected>>

\* Only the Machine carries an owner reference to the ScheduledMachine.
GarbageCollect ==
  /\ ~sm.exists
  /\ capi["Machine"] = "present"
  /\ capi' = Deleted("Machine")
  /\ UNCHANGED <<sm, cache, machineRef, node, ctl, retryCount, spent, shut, ejected>>

\* Time passes for every copy of the recorded grace start alike.
Aged(o) == [o EXCEPT !.graceLeft = IF @ > 0 THEN @ - 1 ELSE 0]

Tick ==
  /\ sm.phase = "ShuttingDown" /\ shut.age < GraceTimeout
  /\ sm' = Aged(sm)
  /\ cache' = Aged(cache)
  /\ ctl' = [ctl EXCEPT !.obj = Aged(@)]
  /\ shut' = [shut EXCEPT !.age = @ + 1]
  /\ UNCHANGED <<capi, machineRef, node, retryCount, spent, ejected>>

\* The resource is gone: the system may rest.
Gone == ~sm.exists /\ ctl.pc = "idle" /\ UNCHANGED vars

Reconcile ==
  \/ StartDeletion \/ StartFinalizer \/ RejectSpec \/ StartKillSwitch \/ StartInner
  \/ AddFinalizer \/ RemoveFinalizer \/ UpdatePhase
  \/ CheckEmergencyReclaim \/ ResolveSchedule
  \/ Preflight \/ AddMachineToCluster \/ RemoveMachineFromCluster \/ CleanupTimesOut
  \/ Drain \/ DisableSchedule \/ ClearReclaimAnnotations \/ EnrichStatus

Capi == NodeJoins \/ NodeLeaves \/ (\E k \in Kinds : TeardownEnds(k)) \/ GarbageCollect

Next ==
  \/ Observe \/ Reconcile \/ Crash
  \/ UserEdits \/ AgentRequestsReclaim \/ Capi \/ Tick \/ Gone

Spec == Init /\ [][Next]_vars

(***************************************************************************)
(* Every outcome of a reconcile but the end of a deletion requeues, so the *)
(* controller keeps working; CAPI and the clock do not stop either. Users, *)
(* agents, faults and crashes owe nothing.                                 *)
(***************************************************************************)
Fairness ==
  /\ WF_vars(Observe)
  /\ WF_vars(Reconcile)
  /\ WF_vars(Tick)
  /\ WF_vars(NodeLeaves)
  /\ \A k \in Kinds : WF_vars(TeardownEnds(k))
  /\ WF_vars(GarbageCollect)

FairSpec == Spec /\ Fairness

(***************************************************************************)
(* Safety.                                                                 *)
(***************************************************************************)
Provisioning == ctl.pc \in CreateSteps \cup {"preflight"}

\* handle_emergency_remove disables the schedule before it clears the request,
\* so as long as the annotated Node outlives the flow, no crash or API failure
\* lets the controller provision the reclaimed machine again before the user
\* has re-enabled it.
NoReAddWhileNodeLives == ejected = "yes" => ~Provisioning

RemovingAfterShutdown == ctl.task = "shutdown" /\ ctl.pc \in DeleteSteps

\* When the window closes, handle_shutting_down_phase deletes the CAPI objects
\* only after the resource has been ShuttingDown for the whole grace period,
\* however reconciles, restarts and edits fall.
GraceForClosedWindow ==
  RemovingAfterShutdown /\ shut.cause = "window" => shut.age = GraceTimeout

\* The persisted verdict stands behind what the controller does: it provisions
\* only while the status says the window is open, and closes a window only
\* while the status says it is shut. An unresolved provider starts neither.
VerdictBehindAction ==
  /\ Provisioning => sm.active = "yes"
  /\ ctl.pc = "patch" /\ ctl.grace => sm.active = "no"

NothingPresent == \A k \in Kinds : capi[k] # "present"

FaultFree == spent.faults = 0 /\ spent.crashes = 0

\* CAPI objects never outlive the resource's interest in them: as long as no call
\* fails and the controller does not die, no phase that says the machine is gone, and
\* no deleted resource, leaves one undeleted.
ResourcesAccounted ==
  FaultFree /\ (~sm.exists \/ sm.phase \in {"Inactive", "Disabled", "Terminated"})
    => NothingPresent

\* Whatever fails or dies, a resource that is Active or ShuttingDown turns Inactive
\* or Terminated, or goes (unless the cleanup timeout may force its finalizer), only
\* once remove_machine_from_cluster has deleted all three objects: an error of one
\* of its steps keeps the caller from reporting the removal.
RemovalBeforeReport ==
  [][/\ sm.phase \in Running
     /\ sm'.phase \in {"Inactive", "Terminated"} \/ (~sm'.exists /\ ~ForceFinalizer)
     => NothingPresent]_vars

\* An active value is only ever replaced by a resolved verdict.
HoldLastState ==
  [][sm.active # sm'.active /\ sm'.exists => sm'.resolved = "yes"]_vars

\* handle_emergency_remove clears the request on the Node only after the Machine
\* is deleted, so a flow that fails or dies before that is replayed from the
\* annotation: a Node is never left running with its reclaim forgotten, not by
\* a reconcile from a stale object either.
RequestOutlivesMachine ==
  [][node.reclaim /\ ~node'.reclaim => capi["Machine"] # "present"]_vars

\* remove_machine_from_cluster takes nothing from under a Machine that is in place:
\* the bootstrap object goes only after the Machine, the infrastructure object last,
\* however many removals were cut short before by failures, restarts or timeouts.
TornDownInOrder ==
  [][/\ capi["Bootstrap"] = "present" /\ capi'["Bootstrap"] # "present"
          => capi["Machine"] # "present"
     /\ capi["Infrastructure"] = "present" /\ capi'["Infrastructure"] # "present"
          => capi["Machine"] # "present" /\ capi["Bootstrap"] # "present"]_vars

(***************************************************************************)
(* The abstract lifecycle.                                                 *)
(***************************************************************************)
lifecyclePhase == IF sm.exists THEN sm.phase ELSE "Gone"

Lifecycle == INSTANCE MachineLifecycle
               WITH phase <- lifecyclePhase, machine <- capi["Machine"]

\* Every write of a phase is an edge of the lifecycle diagram; the Machine is
\* created only while the resource is Pending, and given up only while it is
\* Active, ShuttingDown or EmergencyRemove, or after the resource is gone.
ImplementsLifecycle == Lifecycle!LifecycleSpec

(***************************************************************************)
(* Liveness.                                                               *)
(***************************************************************************)
\* A kill switch on a valid resource ends in Terminated unless the user takes
\* it back, breaks the spec or deletes the resource.
KillSwitchTakesEffect ==
  sm.exists /\ sm.killSwitch /\ sm.valid
    ~> sm.phase = "Terminated" \/ ~sm.killSwitch \/ ~sm.valid \/ sm.deleting \/ ~sm.exists

\* A deleted resource is eventually released, whatever its phase or spec.
DeletionCompletes == sm.deleting ~> ~sm.exists

\* If the window stays closed, and no call failed that sends the resource to Error for
\* good, the machine is eventually gone for good.
ClosedWindowReleases ==
  <>[](FaultFree /\ sm.exists /\ sm.valid /\ sm.active = "no") => <>[](capi["Machine"] = "absent")

\* A reclaim request the controller can see empties the Node, unless a kill
\* switch, a broken spec or a deletion takes over.
ReclaimHonoured ==
  node.exists /\ node.reclaim /\ sm.nodeRef /\ sm.valid /\ ~sm.killSwitch
    ~> ~node.exists \/ sm.killSwitch \/ ~sm.valid \/ ~sm.exists

=============================================================================
