----------------------- MODULE ScheduledMachine_proofs -----------------------
(***************************************************************************)
(* Proofs about ScheduledMachine, for every grace period, every number of  *)
(* edits, reclaims, faults and crashes. Safety beyond the types is proved  *)
(* for reconciles that start from the current object (~CacheLag): from a   *)
(* stale one it does not hold.                                             *)
(***************************************************************************)
EXTENDS ScheduledMachine, TLAPS

(***************************************************************************)
(* The inductive invariant, one definition per piece of the argument.      *)
(***************************************************************************)
EmergencySteps == DeleteSteps \cup {"drain", "disable", "clear"}

\* Every step of the removal knows what it removes for.
TaskKnown ==
  /\ ctl.pc \in DeleteSteps => ctl.task # "none"
  /\ ctl.pc = "drain" => ctl.task \in {"shutdown", "emergency"}
  /\ ctl.pc \in {"disable", "clear"} => ctl.task = "emergency"

\* While a reconcile works on the resource, the finalizer keeps it. A resource
\* that became Active has had a verdict.
Owned ==
  /\ sm.phase = "Active" => sm.active # "unset"
  /\ ~sm.exists => sm = NoObject
  /\ sm.deleting => sm.finalizer
  /\ ctl.pc \notin {"idle", "finalize"} => sm.exists /\ sm.finalizer

\* Only the controller writes the status, so the snapshot's is current.
SnapshotCurrent ==
  ctl.pc \in {"reclaim", "resolve"} =>
    /\ ctl.obj.phase = sm.phase
    /\ ctl.obj.graceLeft = sm.graceLeft
    /\ ctl.obj.nodeRef = sm.nodeRef
    /\ ctl.obj.resolved = sm.resolved
    /\ ctl.obj.active = sm.active

\* Where a reconcile stands tells the phase it found and has not yet changed.
PhaseKnown ==
  /\ Provisioning => sm.phase \in {"Unset", "Pending"} /\ sm.active = "yes"
  /\ ctl.pc \in DeleteSteps /\ ctl.task \in {"deletion", "kill"} => sm.phase \in Running
  /\ ctl.pc \in EmergencySteps /\ ctl.task = "shutdown"
       => sm.phase = "ShuttingDown" /\ sm.graceLeft = 0
  /\ ctl.pc \in EmergencySteps /\ ctl.task = "emergency" => sm.phase = "EmergencyRemove"
  /\ ctl.pc = "patch" => ctl.target = sm.phase \/ Lifecycle!MayMove(sm.phase, ctl.target)
  /\ ctl.pc = "patch" /\ ctl.grace => sm.active = "no" /\ ctl.target = "ShuttingDown"
  /\ ctl.pc = "patch" /\ ctl.target = "Active" => sm.active # "unset"

\* The recorded grace start and the age of the shutdown add up.
GraceBooked ==
  shut.cause = "window" /\ sm.exists =>
    sm.phase = "ShuttingDown" /\ sm.graceLeft + shut.age = GraceTimeout

Reclaimed == {"EmergencyRemove", "Disabled", "Terminated"}

\* A reclaimed resource that is still enabled is told by its Node: the next
\* reconcile finds the request and starts the emergency flow over.
EjectionHeld ==
  /\ sm.phase \in Reclaimed
  /\ sm.enabled => /\ sm.phase # "Disabled"
                   /\ sm.nodeRef /\ node.exists /\ node.reclaim
  /\ ctl.pc \in {"resolve", "clear"} => ~sm.enabled
  /\ ctl.pc \in {"reclaim", "resolve"} /\ sm.phase = "Disabled" => ~ctl.obj.enabled
  /\ ctl.pc = "patch" =>
       ctl.target \in Reclaimed /\ (ctl.target = "Disabled" => ~sm.enabled)

EjectionBooked == ejected = "yes" /\ sm.exists => EjectionHeld

\* The emergency flow works on a resource whose status names the Node.
NodeRecorded ==
  ctl.pc \in EmergencySteps \cup {"patch"} /\ ctl.task = "emergency" => sm.nodeRef

(***************************************************************************)
(* Lemmas about the operators of the model.                                *)
(***************************************************************************)
\* The resource before creation and as the user applies it are objects.
LEMMA ObjectFacts == NoObject \in Object /\ NewObject \in Object
<1>1. 0 \in 0..GraceTimeout
  BY ConstantsAssumption DEF ConstantsAssumption
<1>2. NoObject \in Object
  BY <1>1 DEF NoObject, Object, Phases, Tristate
<1> QED
  BY <1>2 DEF NewObject, Object

\* A resource that is gone has no status either.
LEMMA NoObjectFacts == NoObject.exists = FALSE /\ NoObject.phase = "Unset"
  BY DEF NoObject

\* At builds a well-formed control state with an empty snapshot.
LEMMA AtFacts ==
  ASSUME NEW pc \in Steps, NEW task \in Tasks
  PROVE  /\ At(pc, task) \in Control
         /\ At(pc, task).pc = pc /\ At(pc, task).task = task
         /\ ~At(pc, task).grace
  BY ObjectFacts DEF At, Idle, Control, Steps, Tasks, Phases

\* PatchPhase builds the control state that stands before a phase write.
LEMMA PatchFacts ==
  ASSUME NEW task \in Tasks, NEW target \in Phases
  PROVE  /\ PatchPhase(task, target) \in Control
         /\ PatchPhase(task, target).pc = "patch"
         /\ PatchPhase(task, target).task = task
         /\ PatchPhase(task, target).target = target
         /\ ~PatchPhase(task, target).grace
  BY ObjectFacts DEF PatchPhase, Idle, Control, Steps, Tasks, Phases

\* The same for the one write that starts a grace period.
LEMMA GracePatchFacts ==
  LET c == PatchPhaseWithGrace("ShuttingDown")
  IN  c \in Control /\ c.pc = "patch" /\ c.task = "none" /\ c.target = "ShuttingDown"
        /\ c.grace
  BY ObjectFacts DEF PatchPhaseWithGrace, PatchPhase, Idle, Control, Steps, Tasks, Phases

\* Between reconciles the control state is well formed and about nothing.
LEMMA IdleFacts == Idle \in Control /\ Idle.pc = "idle" /\ Idle.task = "none"
  BY ObjectFacts DEF Idle, Control, Steps, Tasks, Phases

\* What a phase handler starts with, by phase: the table of PhaseHandler.
LEMMA HandlerCases ==
  ASSUME NEW o \in Object, NEW active \in BOOLEAN
  PROVE  LET h == PhaseHandler(o, active) IN
         \/ h = Idle
         \/ /\ o.phase \in {"Unset", "Pending"}
            /\ \/ ~o.enabled /\ h = PatchPhase("none", "Disabled")
               \/ ~active /\ h = PatchPhase("none", "Inactive")
               \/ active /\ h = At("preflight", "none")
         \/ /\ o.phase = "Active"
            /\ \/ ~o.enabled /\ h = PatchPhase("none", "ShuttingDown")
               \/ ~active /\ h = PatchPhaseWithGrace("ShuttingDown")
               \/ h = At("enrich", "none")
         \/ o.phase = "ShuttingDown" /\ o.graceLeft = 0 /\ h = At("drain", "shutdown")
         \/ o.phase = "Inactive" /\ h = PatchPhase("none", "Pending")
         \/ o.phase = "Disabled" /\ o.enabled /\ h = PatchPhase("none", "Pending")
         \/ o.phase = "EmergencyRemove" /\ h = PatchPhase("none", "Disabled")
<1>1. o.phase \in Phases /\ o.enabled \in BOOLEAN
  BY DEF Object
<1>2. CASE o.phase \in {"Unset", "Pending"}
  BY <1>1, <1>2 DEF PhaseHandler, HandlePendingPhase
<1>3. CASE o.phase = "Active"
  BY <1>1, <1>3 DEF PhaseHandler, HandleActivePhase
<1>4. CASE o.phase = "ShuttingDown"
  BY <1>1, <1>4 DEF PhaseHandler, HandleShuttingDownPhase, GraceElapsed
<1>5. CASE o.phase = "Inactive"
  BY <1>1, <1>5 DEF PhaseHandler, HandleInactivePhase
<1>6. CASE o.phase = "Disabled"
  BY <1>1, <1>6 DEF PhaseHandler, HandleDisabledPhase
<1>7. CASE o.phase = "EmergencyRemove"
  BY <1>1, <1>7 DEF PhaseHandler, HandleEmergencyRemovePhase
<1>8. CASE o.phase = "Terminated"
  BY <1>1, <1>8 DEF PhaseHandler, HandleTerminatedPhase
<1>9. CASE o.phase = "Error"
  BY <1>1, <1>9 DEF PhaseHandler, HandleErrorPhase
<1> QED
  BY <1>1, <1>2, <1>3, <1>4, <1>5, <1>6, <1>7, <1>8, <1>9 DEF Phases

\* Whatever a handler starts with is a well-formed control state.
LEMMA HandlerFacts ==
  ASSUME NEW o \in Object, NEW active \in BOOLEAN
  PROVE  LET h == PhaseHandler(o, active) IN
         /\ h \in Control
         /\ h.pc \in {"idle", "patch", "preflight", "enrich", "drain"}
         /\ h.pc = "drain" => h.task = "shutdown"
         /\ h.task \in {"none", "shutdown"}
<1> DEFINE h == PhaseHandler(o, active)
<1>1. /\ {"none", "shutdown"} \subseteq Tasks
      /\ {"preflight", "enrich", "drain"} \subseteq Steps
      /\ {"Disabled", "Inactive", "ShuttingDown", "Pending"} \subseteq Phases
  BY DEF Tasks, Steps, Phases
<1>2. CASE h = Idle
  BY <1>2, IdleFacts
<1>3. CASE \E t \in {"Disabled", "Inactive", "ShuttingDown", "Pending"} :
             h = PatchPhase("none", t)
  BY <1>1, <1>3, PatchFacts
<1>7. CASE h = PatchPhaseWithGrace("ShuttingDown")
  BY <1>7, GracePatchFacts
<1>4. CASE h = At("preflight", "none") \/ h = At("enrich", "none")
  BY <1>1, <1>4, AtFacts
<1>5. CASE h = At("drain", "shutdown")
  BY <1>1, <1>5, AtFacts
<1> HIDE DEF h
<1>6. \/ h = Idle \/ h = At("preflight", "none") \/ h = At("enrich", "none")
      \/ h = At("drain", "shutdown")
      \/ h = PatchPhaseWithGrace("ShuttingDown")
      \/ \E t \in {"Disabled", "Inactive", "ShuttingDown", "Pending"} :
             h = PatchPhase("none", t)
  BY HandlerCases DEF h
<1> QED
  BY <1>2, <1>3, <1>4, <1>5, <1>6, <1>7 DEF h

(***************************************************************************)
(* Types.                                                                  *)
(***************************************************************************)
\* A reconcile that ends leaves the controller idle and the count in range.
LEMMA EndFacts ==
  ASSUME TypeOK, Succeed \/ SucceedEarly \/ Fail
  PROVE  ctl' = Idle /\ retryCount' \in 0..RetryCap
  BY ConstantsAssumption DEF ConstantsAssumption, TypeOK, Succeed, SucceedEarly, Fail

\* An answer of the API server costs at most one fault, and only if one is left.
LEMMA ChargeFacts ==
  ASSUME TypeOK, NEW a \in Answers, Charge(a)
  PROVE  spent' \in Budget /\ a \in {"ok", "refused", "lost"}
<1>1. spent.faults \in 0..MaxFaults /\ MaxFaults \in Nat
  BY ConstantsAssumption DEF ConstantsAssumption, TypeOK, Budget
<1>2. a \in {"ok", "refused", "lost"} /\ (a # "ok" => spent.faults < MaxFaults)
  BY DEF Answers
<1>3. CASE a = "ok"
  BY <1>2, <1>3 DEF Charge, TypeOK
<1>4. CASE a # "ok"
  <2>1. spent.faults + 1 \in 0..MaxFaults
    BY <1>1, <1>2, <1>4
  <2>2. spent' = [spent EXCEPT !.faults = @ + 1]
    BY <1>4 DEF Charge
  <2> QED
    BY <1>2, <2>1, <2>2 DEF TypeOK, Budget
<1> QED
  BY <1>3, <1>4

\* Time keeps an object an object.
LEMMA AgedFacts ==
  ASSUME NEW o \in Object
  PROVE  /\ Aged(o) \in Object
         /\ Aged(o).graceLeft = IF o.graceLeft > 0 THEN o.graceLeft - 1 ELSE 0
<1>1. o.graceLeft \in 0..GraceTimeout /\ GraceTimeout \in Nat
  BY ConstantsAssumption DEF ConstantsAssumption, Object
<1>2. (IF o.graceLeft > 0 THEN o.graceLeft - 1 ELSE 0) \in 0..GraceTimeout
  BY <1>1
<1> QED
  BY <1>2 DEF Aged, Object

\* A phase write keeps an object an object.
LEMMA WithPhaseFacts ==
  ASSUME NEW o \in Object, NEW target \in Phases, NEW grace \in BOOLEAN
  PROVE  WithPhase(o, target, grace) \in Object
<1>1. (IF grace THEN GraceTimeout ELSE 0) \in 0..GraceTimeout
  BY ConstantsAssumption DEF ConstantsAssumption
<1> QED
  BY <1>1 DEF WithPhase, Object

\* The persisted verdict keeps an object an object.
LEMMA PersistFacts ==
  ASSUME TypeOK, NEW o \in Object, NEW verdict \in Verdicts
  PROVE  PersistSpotSchedule(o, verdict) \in Object
<1>1. ResolvedBy(verdict) \in Tristate /\ HeldActive(o, verdict) \in Tristate
  BY DEF ResolvedBy, HeldActive, Verdicts, Tristate, Object
<1> DEFINE r == ResolvedBy(verdict)
           h == HeldActive(o, verdict)
           v == IF h = "unset" THEN sm.active ELSE h
<1>2. PersistSpotSchedule(o, verdict) \in {sm, [sm EXCEPT !.resolved = r, !.active = v]}
  BY DEF PersistSpotSchedule, TypeOK, Object
<1>3. v \in Tristate /\ r \in Tristate
  BY <1>1 DEF TypeOK, Object
<1> HIDE DEF r, v, h
<1>4. [sm EXCEPT !.resolved = r, !.active = v] \in Object
  BY <1>3 DEF TypeOK, Object
<1> QED
  BY <1>2, <1>4 DEF TypeOK

\* From a current snapshot the persisted value is the held one, and nothing
\* else of the resource changes but the resolved flag.
LEMMA PersistHolds ==
  ASSUME TypeOK, NEW o \in Object, NEW verdict \in Verdicts, o.active = sm.active
  PROVE  LET p == PersistSpotSchedule(o, verdict) IN
         /\ p.active = HeldActive(o, verdict)
         /\ p.exists = sm.exists /\ p.finalizer = sm.finalizer /\ p.deleting = sm.deleting
         /\ p.enabled = sm.enabled /\ p.phase = sm.phase
         /\ p.graceLeft = sm.graceLeft /\ p.nodeRef = sm.nodeRef
<1> DEFINE h == HeldActive(o, verdict)
           v == IF h = "unset" THEN sm.active ELSE h
           q == [sm EXCEPT !.resolved = ResolvedBy(verdict), !.active = v]
<1>1. h \in Tristate /\ (h = "unset" => sm.active = "unset")
  BY DEF HeldActive, Verdicts, Tristate, Object
<1>2. \/ PersistSpotSchedule(o, verdict) = sm /\ sm.active = h
      \/ PersistSpotSchedule(o, verdict) = q
  BY DEF PersistSpotSchedule, SpotScheduleKept, TypeOK, Object
<1>3. v = h
  BY <1>1
<1> HIDE DEF h, v
<1>4. /\ q.active = v
      /\ q.exists = sm.exists /\ q.finalizer = sm.finalizer /\ q.deleting = sm.deleting
      /\ q.enabled = sm.enabled /\ q.phase = sm.phase
      /\ q.graceLeft = sm.graceLeft /\ q.nodeRef = sm.nodeRef
  BY DEF TypeOK, Object
<1> HIDE DEF q
<1> QED
  BY <1>2, <1>3, <1>4 DEF h

\* The literals the steps below mention.
LEMMA Literals ==
  /\ {"idle", "finalize", "unfinalize", "reclaim", "resolve", "preflight", "enrich",
      "drain", "disable", "clear", "patch", "createBootstrap", "createInfrastructure",
      "createMachine", "deleteMachine", "deleteBootstrap", "deleteInfrastructure"}
       = Steps
  /\ Tasks = {"none", "deletion", "kill", "shutdown", "emergency"}
  /\ DeleteSteps = {"deleteMachine", "deleteBootstrap", "deleteInfrastructure"}
  /\ Running \subseteq Phases
  BY DEF Steps, Tasks, CreateSteps, DeleteSteps, Running, Phases

\* A removal ends in a well-formed control state, whatever it was for.
LEMMA RemovalFacts ==
  ASSUME NEW task \in Tasks \ {"none"}
  PROVE  /\ AfterRemoval(task) \in Control
         /\ AfterRemoval(task).pc \in {"unfinalize", "patch", "disable"}
         /\ AfterRemoval(task).task = task
         /\ AfterRemoval(task).pc = "disable" => task = "emergency"
         /\ ~AfterRemoval(task).grace
<1>1. CASE task = "deletion"
  BY <1>1, AtFacts, Literals DEF AfterRemoval
<1>2. CASE task = "kill"
  BY <1>2, ObjectFacts DEF AfterRemoval, PatchPhase, Idle, Control, Steps, Tasks, Phases
<1>3. CASE task = "shutdown"
  BY <1>3, ObjectFacts DEF AfterRemoval, PatchPhase, Idle, Control, Steps, Tasks, Phases
<1>4. CASE task = "emergency"
  BY <1>4, AtFacts, Literals DEF AfterRemoval
<1> QED
  BY <1>1, <1>2, <1>3, <1>4 DEF Tasks

\* Every step keeps the types, and every removal step knows its purpose.
LEMMA TypeStep == TypeOK /\ TaskKnown /\ [Next]_vars => TypeOK' /\ TaskKnown'
<1> SUFFICES ASSUME TypeOK, TaskKnown, [Next]_vars PROVE TypeOK' /\ TaskKnown'
  OBVIOUS
<1> DEFINE Result == ctl' \in Control /\ retryCount' \in 0..RetryCap /\ TaskKnown'
<1>a. ASSUME Succeed \/ SucceedEarly \/ Fail PROVE Result
  BY <1>a, EndFacts, IdleFacts DEF TaskKnown, DeleteSteps
<1>b. ASSUME NEW pc \in Steps \ (DeleteSteps \cup {"drain", "disable", "clear"}),
             NEW task \in Tasks, GoTo(At(pc, task))
      PROVE  Result
  BY <1>b, AtFacts DEF TaskKnown, GoTo, TypeOK
<1>c. ASSUME NEW pc \in EmergencySteps, GoTo(At(pc, "emergency"))
      PROVE  Result
  BY <1>c, AtFacts, Literals DEF TaskKnown, GoTo, TypeOK, EmergencySteps
<1>d. ASSUME NEW pc \in DeleteSteps, NEW task \in Tasks \ {"none"}, GoTo(At(pc, task))
      PROVE  Result
  BY <1>d, AtFacts, Literals DEF TaskKnown, GoTo, TypeOK
<1>e. ASSUME NEW task \in Tasks, NEW target \in Phases, GoTo(PatchPhase(task, target))
      PROVE  Result
  BY <1>e, PatchFacts DEF TaskKnown, GoTo, TypeOK, DeleteSteps
<1>f. ASSUME Result, sm' \in Object, UNCHANGED <<cache, shut, ejected>>,
             capi' \in [Kinds -> {"absent", "present", "deleting"}],
             machineRef' \in BOOLEAN, node' \in Node, spent' \in Budget
      PROVE  TypeOK' /\ TaskKnown'
  BY <1>f DEF TypeOK
<1> HIDE DEF Result
<1>u. ASSUME Result, UNCHANGED Outside PROVE TypeOK' /\ TaskKnown'
  BY <1>u, <1>f DEF Outside, TypeOK
<1>1. CASE Observe
  BY <1>1 DEF Observe, TypeOK, TaskKnown
<1>2. ASSUME UNCHANGED vars PROVE TypeOK' /\ TaskKnown'
  BY <1>2 DEF vars, TypeOK, TaskKnown
<1>3. CASE StartDeletion
  <2>1. \/ GoTo(At("deleteMachine", "deletion")) \/ GoTo(At("unfinalize", "deletion"))
    BY <1>3 DEF StartDeletion, HandleDeletion
  <2> QED
    BY <1>3, <2>1, <1>b, <1>d, <1>u, Literals DEF StartDeletion
<1>4. CASE StartFinalizer
  BY <1>4, <1>b, <1>u, Literals DEF StartFinalizer
<1>5. CASE RejectSpec
  BY <1>5, <1>a, <1>u DEF RejectSpec
<1>6. CASE StartKillSwitch
  <2>1. \/ Succeed \/ GoTo(At("deleteMachine", "kill")) \/ GoTo(PatchPhase("kill", "Terminated"))
    BY <1>6 DEF StartKillSwitch, HandleKillSwitch, Proceed
  <2>2. "Terminated" \in Phases /\ "kill" \in Tasks \ {"none"} /\ "deleteMachine" \in DeleteSteps
    BY DEF Phases, Tasks, DeleteSteps
  <2> QED
    BY <1>6, <2>1, <2>2, <1>a, <1>d, <1>e, <1>u DEF StartKillSwitch
<1>7. CASE StartInner
  <2>1. Seen \in Object
    BY DEF Seen, TypeOK
  <2>2. [At("reclaim", "none") EXCEPT !.obj = Seen] \in Control
    BY <2>1, AtFacts, Literals DEF Control
  <2>3. ctl'.pc = "reclaim"
    BY <1>7, AtFacts, Literals DEF StartInner, GoTo, Control
  <2>4. Result
    BY <1>7, <2>2, <2>3 DEF Result, StartInner, GoTo, TaskKnown, DeleteSteps, TypeOK
  <2> QED
    BY <1>7, <2>4, <1>u DEF StartInner
<1>8. CASE AddFinalizer
  <2>1. PICK a \in Answers :
          /\ Charge(a)
          /\ sm' = IF Applied(a) THEN [sm EXCEPT !.finalizer = TRUE] ELSE sm
          /\ IF Acknowledged(a) THEN SucceedEarly ELSE Fail
    BY <1>8 DEF AddFinalizer
  <2>2. sm' \in Object
    BY <2>1 DEF TypeOK, Object
  <2> QED
    BY <1>8, <2>1, <2>2, <1>a, <1>f, ChargeFacts DEF AddFinalizer, TypeOK
<1>9. CASE RemoveFinalizer
  <2>1. PICK a \in Answers :
          /\ Charge(a)
          /\ sm' = IF Applied(a) THEN NoObject ELSE sm
          /\ IF Acknowledged(a) THEN SucceedEarly ELSE Fail
    BY <1>9 DEF RemoveFinalizer
  <2>2. sm' \in Object
    BY <2>1, ObjectFacts DEF TypeOK
  <2> QED
    BY <1>9, <2>1, <2>2, <1>a, <1>f, ChargeFacts DEF RemoveFinalizer, TypeOK
<1>10. CASE UpdatePhase
  <2>1. PICK a \in Answers :
          /\ Charge(a)
          /\ sm' = IF Applied(a) THEN WithPhase(sm, ctl.target, ctl.grace) ELSE sm
          /\ shut' = IF Applied(a) THEN ShutAfter(ctl.target, ctl.grace) ELSE shut
          /\ IF Acknowledged(a) THEN AfterPatch ELSE Fail
    BY <1>10 DEF UpdatePhase
  <2>2. sm' \in Object
    BY <2>1, WithPhaseFacts DEF TypeOK, Control
  <2>3. shut' \in [cause : {"none", "window", "disabled"}, age : 0..GraceTimeout]
    BY <2>1, ConstantsAssumption DEF ConstantsAssumption, ShutAfter, TypeOK
  <2>4. Result
    BY <2>1, <1>a, <1>c DEF AfterPatch, EmergencySteps
  <2>5. spent' \in Budget
    BY <2>1, ChargeFacts
  <2> QED
    BY <1>10, <2>2, <2>3, <2>4, <2>5 DEF UpdatePhase, TypeOK, Result
<1>11. CASE CheckEmergencyReclaim
  <2>1. [ctl EXCEPT !.pc = "resolve"] \in Control /\ [ctl EXCEPT !.pc = "resolve"].pc = "resolve"
    BY Literals DEF TypeOK, Control
  <2>2. ASSUME GoTo([ctl EXCEPT !.pc = "resolve"]) PROVE Result
    BY <2>1, <2>2 DEF GoTo, Result, TaskKnown, DeleteSteps, TypeOK
  <2>3. ASSUME GoTo(AfterReclaimCheck) PROVE Result
    <3>1. "EmergencyRemove" \in Phases /\ "emergency" \in Tasks
      BY DEF Phases, Tasks
    <3> QED
      BY <2>2, <2>3, <3>1, <1>e DEF AfterReclaimCheck
  <2>4. Result /\ spent' \in Budget
    BY <1>11, <2>2, <2>3, <1>a, ChargeFacts DEF CheckEmergencyReclaim, TypeOK
  <2> QED
    BY <1>11, <2>4, <1>f DEF CheckEmergencyReclaim, TypeOK
<1>12. CASE ResolveSchedule
  <2>1. PICK verdict \in Verdicts, a \in Answers :
          /\ Charge(a)
          /\ sm' = IF Applied(a) THEN PersistSpotSchedule(ctl.obj, verdict) ELSE sm
          /\ \/ Proceed(PhaseHandler(ctl.obj, ShouldBeActive(ctl.obj, verdict)))
             \/ Fail
    BY <1>12 DEF ResolveSchedule
  <2>2. ctl.obj \in Object /\ ShouldBeActive(ctl.obj, verdict) \in BOOLEAN
    BY DEF TypeOK, Control, ShouldBeActive
  <2>3. sm' \in Object
    BY <2>1, <2>2, PersistFacts DEF TypeOK
  <2> DEFINE h == PhaseHandler(ctl.obj, ShouldBeActive(ctl.obj, verdict))
  <2>4. /\ h \in Control
        /\ h.pc \in {"idle", "patch", "preflight", "enrich", "drain"}
        /\ h.pc = "drain" => h.task = "shutdown"
    BY <2>2, HandlerFacts
  <2> HIDE DEF h
  <2>5. ASSUME GoTo(h) PROVE Result
    BY <2>4, <2>5 DEF GoTo, Result, TaskKnown, DeleteSteps, TypeOK
  <2>6. Succeed \/ GoTo(h) \/ Fail
    BY <2>1 DEF Proceed, h
  <2>7. Result
    BY <2>5, <2>6, <1>a
  <2> QED
    BY <1>12, <2>1, <2>3, <2>7, <1>f, ChargeFacts DEF ResolveSchedule, TypeOK
<1>c1. ASSUME GoTo(CreationFailed) PROVE Result
  <2>1. "Error" \in Phases /\ "none" \in Tasks
    BY DEF Phases, Tasks
  <2> QED
    BY <2>1, <1>c1, <1>e DEF CreationFailed
<1>13. CASE Preflight
  <2>1. PICK a \in Answers :
          /\ Charge(a)
          /\ GoTo(At("createBootstrap", "none")) \/ GoTo(CreationFailed)
    BY <1>13 DEF Preflight
  <2>2. Result
    BY <2>1, <1>b, <1>c1, Literals
  <2> QED
    BY <1>13, <2>1, <2>2, <1>f, ChargeFacts DEF Preflight, TypeOK
<1>14. CASE AddMachineToCluster
  <2>1. PICK pc \in CreateSteps, k \in Kinds,
             next \in {At("createInfrastructure", "none"), At("createMachine", "none"),
                       PatchPhase("none", "Active")} :
          CreateObject(pc, k, next)
    BY <1>14 DEF AddMachineToCluster, CreateSteps, Kinds
  <2>2. PICK a \in Answers :
          /\ Charge(a)
          /\ capi' = IF a = "refused" THEN capi ELSE Created(k)
          /\ GoTo(next) \/ GoTo(CreationFailed)
    BY <2>1 DEF CreateObject
  <2>3. capi' \in [Kinds -> {"absent", "present", "deleting"}]
    BY <2>2 DEF TypeOK, Created
  <2>4. "Active" \in Phases /\ "none" \in Tasks
    BY DEF Phases, Tasks
  <2>5. Result
    BY <2>1, <2>2, <2>4, <1>b, <1>c1, <1>e, Literals
  <2> QED
    BY <2>1, <2>2, <2>3, <2>5, <1>f, ChargeFacts DEF CreateObject, TypeOK
<1>15. CASE RemoveMachineFromCluster
  <2>1. ctl.pc \in DeleteSteps /\ ctl.task \in Tasks \ {"none"}
    BY <1>15 DEF RemoveMachineFromCluster, DeleteObject, DeleteSteps, TaskKnown, TypeOK, Control
  <2>2. PICK k \in Kinds,
             next \in {At("deleteBootstrap", ctl.task), At("deleteInfrastructure", ctl.task),
                       AfterRemoval(ctl.task)} :
          DeleteObject(ctl.pc, k, next)
    BY <1>15 DEF RemoveMachineFromCluster, Kinds, DeleteObject
  <2>3. PICK a \in Answers :
          /\ Charge(a)
          /\ capi' = IF a = "refused" THEN capi ELSE Deleted(k)
          /\ ejected' \in {EjectedNow, ejected}
          /\ GoTo(next) \/ RemovalFailed(ctl.task)
    BY <2>2 DEF DeleteObject
  <2>4. capi' \in [Kinds -> {"absent", "present", "deleting"}]
    BY <2>3 DEF TypeOK, Deleted
  <2>5. ejected' \in {"no", "yes", "nodeLost"}
    BY <2>3 DEF TypeOK, EjectedNow
  <2>6. ASSUME RemovalFailed(ctl.task) PROVE Result
    <3>1. "Error" \in Phases /\ "shutdown" \in Tasks
      BY DEF Phases, Tasks
    <3> QED
      BY <2>6, <3>1, <1>a, <1>e DEF RemovalFailed
  <2>7. ASSUME GoTo(AfterRemoval(ctl.task)) PROVE Result
    BY <2>1, <2>7, RemovalFacts DEF GoTo, Result, TaskKnown, TypeOK, DeleteSteps
  <2>8. Result
    BY <2>1, <2>2, <2>3, <2>6, <2>7, <1>d DEF DeleteSteps
  <2>9. spent' \in Budget
    BY <2>3, ChargeFacts
  <2> QED
    BY <2>2, <2>4, <2>5, <2>8, <2>9 DEF DeleteObject, TypeOK, Result
<1>16. CASE CleanupTimesOut
  <2>1. Fail \/ GoTo(At("unfinalize", "deletion"))
    BY <1>16 DEF CleanupTimesOut
  <2>2. Result
    BY <2>1, <1>a, <1>b, Literals
  <2>3. spent.faults \in Nat /\ spent.faults + 1 \in 0..MaxFaults
    BY <1>16, ConstantsAssumption DEF ConstantsAssumption, CleanupTimesOut, TypeOK, Budget
  <2>4. spent' \in Budget
    BY <1>16, <2>3 DEF CleanupTimesOut, TypeOK, Budget
  <2> QED
    BY <1>16, <2>2, <2>4, <1>f DEF CleanupTimesOut, TypeOK
<1>17. CASE Drain
  <2>1. ctl.task \in Tasks \ {"none"} /\ "deleteMachine" \in DeleteSteps
    BY <1>17 DEF Drain, TaskKnown, TypeOK, Control, DeleteSteps
  <2>2. PICK a \in Answers :
          /\ Charge(a)
          /\ GoTo(At("deleteMachine", ctl.task)) \/ Fail
          /\ node' \in {node, [node EXCEPT !.cordoned = node.exists]}
    BY <1>17 DEF Drain
  <2>3. node' \in Node
    BY <2>2 DEF TypeOK, Node
  <2>4. Result
    BY <2>1, <2>2, <1>a, <1>d
  <2> QED
    BY <1>17, <2>2, <2>3, <2>4, <1>f, ChargeFacts DEF Drain, TypeOK
<1>18. CASE DisableSchedule
  <2>1. PICK a \in Answers :
          /\ Charge(a)
          /\ sm' = IF Applied(a) THEN [sm EXCEPT !.enabled = FALSE] ELSE sm
          /\ GoTo(At("clear", "emergency")) \/ Fail
    BY <1>18 DEF DisableSchedule
  <2>2. sm' \in Object
    BY <2>1 DEF TypeOK, Object
  <2>3. Result
    BY <2>1, <1>a, <1>c DEF EmergencySteps
  <2> QED
    BY <1>18, <2>1, <2>2, <2>3, <1>f, ChargeFacts DEF DisableSchedule, TypeOK
<1>19. CASE ClearReclaimAnnotations
  <2>1. PICK a \in Answers :
          /\ Charge(a)
          /\ node' = IF a = "refused" THEN node ELSE [node EXCEPT !.reclaim = FALSE]
          /\ GoTo(PatchPhase("emergency", "Disabled"))
    BY <1>19 DEF ClearReclaimAnnotations
  <2>2. node' \in Node
    BY <2>1 DEF TypeOK, Node
  <2>3. "Disabled" \in Phases /\ "emergency" \in Tasks
    BY DEF Phases, Tasks
  <2>4. Result
    BY <2>1, <2>3, <1>e
  <2> QED
    BY <1>19, <2>1, <2>2, <2>4, <1>f, ChargeFacts DEF ClearReclaimAnnotations, TypeOK
<1>20. CASE EnrichStatus
  <2>1. PICK a \in Answers :
          /\ Charge(a)
          /\ sm' \in {sm, [sm EXCEPT !.nodeRef = TRUE]}
    BY <1>20 DEF EnrichStatus
  <2>2. sm' \in Object
    <3>1. [sm EXCEPT !.nodeRef = TRUE] \in Object
      BY DEF TypeOK, Object
    <3> QED
      BY <2>1, <3>1 DEF TypeOK
  <2> QED
    BY <1>20, <2>1, <2>2, <1>a, <1>f, ChargeFacts DEF EnrichStatus, TypeOK
<1>21. CASE Crash
  <2>1. spent' \in Budget
    <3>1. spent.crashes + 1 \in 0..MaxCrashes
      BY <1>21, ConstantsAssumption DEF ConstantsAssumption, Crash, TypeOK, Budget
    <3> QED
      BY <1>21, <3>1 DEF Crash, TypeOK, Budget
  <2>2. ctl' \in Control /\ ctl'.pc = "idle"
    BY <1>21, IdleFacts DEF Crash
  <2>3. retryCount' \in 0..RetryCap
    BY <1>21, ConstantsAssumption DEF ConstantsAssumption, Crash
  <2> QED
    BY <1>21, <2>1, <2>2, <2>3 DEF Crash, TypeOK, TaskKnown, DeleteSteps
<1>22. CASE UserEdits
  <2>1. spent' \in Budget
    <3>1. spent.edits + 1 \in 0..MaxEdits
      BY <1>22, ConstantsAssumption DEF ConstantsAssumption, UserEdits, TypeOK, Budget
    <3> QED
      BY <1>22, <3>1 DEF UserEdits, TypeOK, Budget
  <2>2. Edits \subseteq Object
    <3>1. /\ [sm EXCEPT !.enabled = ~@] \in Object /\ [sm EXCEPT !.killSwitch = ~@] \in Object
          /\ [sm EXCEPT !.valid = ~@] \in Object /\ [sm EXCEPT !.deleting = TRUE] \in Object
      BY DEF TypeOK, Object
    <3> QED
      BY <3>1, ObjectFacts DEF Edits
  <2>3. sm' \in Object /\ ejected' \in {"no", "yes", "nodeLost"}
    BY <1>22, <2>2 DEF UserEdits, TypeOK
  <2> QED
    BY <1>22, <2>1, <2>3 DEF UserEdits, TypeOK, TaskKnown
<1>23. CASE AgentRequestsReclaim
  <2>1. spent' \in Budget
    <3>1. spent.reclaims + 1 \in 0..MaxReclaims
      BY <1>23, ConstantsAssumption DEF ConstantsAssumption, AgentRequestsReclaim, TypeOK, Budget
    <3> QED
      BY <1>23, <3>1 DEF AgentRequestsReclaim, TypeOK, Budget
  <2>2. node' \in Node
    BY <1>23 DEF AgentRequestsReclaim, TypeOK, Node
  <2> QED
    BY <1>23, <2>1, <2>2 DEF AgentRequestsReclaim, TypeOK, TaskKnown
<1>24. CASE NodeJoins
  BY <1>24 DEF NodeJoins, NoNode, Node, TypeOK, TaskKnown
<1>25. CASE NodeLeaves
  BY <1>25 DEF NodeLeaves, NoNode, Node, TypeOK, TaskKnown
<1>26. ASSUME NEW k \in Kinds, TeardownEnds(k) PROVE TypeOK' /\ TaskKnown'
  BY <1>26 DEF TeardownEnds, TypeOK, TaskKnown
<1>27. CASE GarbageCollect
  BY <1>27 DEF GarbageCollect, Deleted, TypeOK, TaskKnown
<1>28. CASE Tick
  <2>1. sm' \in Object /\ cache' \in Object
    BY <1>28, AgedFacts DEF Tick, TypeOK
  <2>2. ctl.obj \in Object
    BY DEF TypeOK, Control
  <2>3. ctl' \in Control /\ ctl'.pc = ctl.pc /\ ctl'.task = ctl.task
    BY <1>28, <2>2, AgedFacts DEF Tick, TypeOK, Control
  <2>4. shut' \in [cause : {"none", "window", "disabled"}, age : 0..GraceTimeout]
    BY <1>28, ConstantsAssumption DEF ConstantsAssumption, Tick, TypeOK
  <2> QED
    BY <1>28, <2>1, <2>3, <2>4 DEF Tick, TypeOK, TaskKnown
<1>29. CASE Gone
  BY <1>29, <1>2 DEF Gone
<1> QED
  BY <1>1, <1>2, <1>3, <1>4, <1>5, <1>6, <1>7, <1>8, <1>9, <1>10, <1>11, <1>12, <1>13,
     <1>14, <1>15, <1>16, <1>17, <1>18, <1>19, <1>20, <1>21, <1>22, <1>23, <1>24, <1>25,
     <1>26, <1>27, <1>28, <1>29
     DEF Next, Reconcile, Capi

\* The first state has the right types.
LEMMA InitTypes == Init => TypeOK /\ TaskKnown
<1>1. 0 \in 0..GraceTimeout /\ 0 \in 0..RetryCap /\ 0 \in 0..MaxEdits /\ 0 \in 0..MaxReclaims
      /\ 0 \in 0..MaxFaults /\ 0 \in 0..MaxCrashes
  BY ConstantsAssumption DEF ConstantsAssumption
<1> QED
  <2> SUFFICES ASSUME Init PROVE TypeOK /\ TaskKnown
    OBVIOUS
  <2>1. sm \in Object /\ cache \in Object /\ ctl \in Control /\ TaskKnown
    BY ObjectFacts, IdleFacts DEF Init, TaskKnown, DeleteSteps
  <2>2. capi \in [Kinds -> {"absent", "present", "deleting"}] /\ node \in Node
    BY DEF Init, NoNode, Node
  <2>3. spent \in Budget
    BY <1>1 DEF Init, Budget
  <2> QED
    BY <1>1, <2>1, <2>2, <2>3 DEF Init, TypeOK

\* Every state the reconciler and its surroundings reach is well-formed: the
\* control state, the retry count, the grace clock and the budgets stay in range.
THEOREM TypeCorrect == Spec => []TypeOK
  BY InitTypes, TypeStep, PTL DEF Spec

(***************************************************************************)
(* The reclaim request and the Machine, with stale reads too: past its     *)
(* start the emergency flow reads no snapshot.                             *)
(***************************************************************************)
PastDelete == {"deleteBootstrap", "deleteInfrastructure", "disable", "clear"}

\* Past its delete step the emergency flow has no Machine in place, and only a
\* Node that exists carries a request.
RequestBooked ==
  /\ node.reclaim => node.exists
  /\ ctl.task = "emergency" /\ ctl.pc \in PastDelete => capi["Machine"] # "present"

\* The request stays on its Node but for the two steps that may take it away.
LEMMA RequestStep ==
  ASSUME TypeOK, TaskKnown, RequestBooked, [Next]_vars
  PROVE  /\ node'.reclaim => node'.exists
         /\ node.reclaim /\ ~node'.reclaim => capi["Machine"] # "present"
<1>0. node \in Node
  BY DEF TypeOK
<1>1. CASE node' = node
  BY <1>1 DEF RequestBooked
<1>2. CASE Drain
  BY <1>0, <1>2 DEF Drain, Node, RequestBooked
<1>3. CASE ClearReclaimAnnotations
  <2>1. ctl.pc = "clear" /\ ctl.task = "emergency"
    BY <1>3 DEF ClearReclaimAnnotations, TaskKnown
  <2> QED
    BY <1>0, <1>3, <2>1 DEF ClearReclaimAnnotations, Node, RequestBooked, PastDelete
<1>4. CASE AgentRequestsReclaim
  BY <1>0, <1>4 DEF AgentRequestsReclaim, Node
<1>5. CASE NodeJoins
  BY <1>5 DEF NodeJoins, NoNode, RequestBooked
<1>6. CASE NodeLeaves
  BY <1>6 DEF NodeLeaves, NoNode
<1>7. \/ node' = node \/ Drain \/ ClearReclaimAnnotations \/ AgentRequestsReclaim
      \/ NodeJoins \/ NodeLeaves
  BY DEF Next, Reconcile, Capi, Observe, Outside, StartDeletion, StartFinalizer, RejectSpec,
     StartKillSwitch, StartInner, AddFinalizer, RemoveFinalizer, UpdatePhase,
     CheckEmergencyReclaim, ResolveSchedule, Preflight, AddMachineToCluster, CreateObject,
     RemoveMachineFromCluster, DeleteObject, CleanupTimesOut, DisableSchedule, EnrichStatus,
     Crash, UserEdits, TeardownEnds, GarbageCollect, Tick, Gone, vars
<1> QED
  BY <1>1, <1>2, <1>3, <1>4, <1>5, <1>6, <1>7

\* Every step keeps the Machine away while the emergency flow goes on.
LEMMA MachineDeletedStep ==
  ASSUME TypeOK, TaskKnown, RequestBooked, [Next]_vars,
         ctl'.task = "emergency", ctl'.pc \in PastDelete
  PROVE  capi'["Machine"] # "present"
<1>0. /\ ctl \in Control /\ ctl.task \in Tasks /\ ctl' # Idle
      /\ capi \in [Kinds -> {"absent", "present", "deleting"}] /\ "Machine" \in Kinds
  BY IdleFacts DEF TypeOK, Control, PastDelete, Kinds
<1>1. ASSUME ctl.task = "emergency", ctl.pc \in PastDelete, capi' = capi
      PROVE  capi'["Machine"] # "present"
  BY <1>1 DEF RequestBooked
<1>2. CASE RemoveMachineFromCluster
  <2>1. ctl.task \in Tasks \ {"none"}
    BY <1>0, <1>2 DEF RemoveMachineFromCluster, DeleteObject, DeleteSteps, TaskKnown
  <2>2. CASE ctl.pc = "deleteMachine"
    <3>1. PICK a \in Answers :
            /\ capi' = IF a = "refused" THEN capi ELSE Deleted("Machine")
            /\ IF a = "ok" THEN GoTo(At("deleteBootstrap", ctl.task)) ELSE RemovalFailed(ctl.task)
      BY <1>2, <2>2 DEF RemoveMachineFromCluster, DeleteObject
    <3>2. CASE a = "ok"
      BY <1>0, <3>1, <3>2 DEF Deleted
    <3>3. CASE a # "ok"
      <4>1. ctl' = PatchPhase("shutdown", "Error")
        BY <1>0, <3>1, <3>3 DEF RemovalFailed, GoTo, Fail
      <4>2. "shutdown" \in Tasks /\ "Error" \in Phases
        BY DEF Tasks, Phases
      <4> QED
        BY <4>1, <4>2, PatchFacts DEF PastDelete
    <3> QED
      BY <3>2, <3>3
  <2>3. CASE ctl.pc # "deleteMachine"
    <3>1. ctl.pc \in {"deleteBootstrap", "deleteInfrastructure"}
          /\ capi'["Machine"] = capi["Machine"]
      BY <1>0, <1>2, <2>3 DEF RemoveMachineFromCluster, DeleteObject, Deleted
    <3>2. \/ ctl' = At("deleteInfrastructure", ctl.task) \/ ctl' = AfterRemoval(ctl.task)
          \/ ctl' = PatchPhase("shutdown", "Error")
      BY <1>0, <1>2, <2>3 DEF RemoveMachineFromCluster, DeleteObject, RemovalFailed, Fail, GoTo
    <3>3. ctl' # PatchPhase("shutdown", "Error")
      <4>1. "shutdown" \in Tasks /\ "Error" \in Phases
        BY DEF Tasks, Phases
      <4> QED
        BY <4>1, PatchFacts DEF PastDelete
    <3>4. ctl.task = "emergency"
      BY <2>1, <3>2, <3>3, AtFacts, RemovalFacts, Literals
    <3> QED
      BY <3>1, <3>4 DEF RequestBooked, PastDelete
  <2> QED
    BY <2>2, <2>3
<1>3. CASE DisableSchedule
  <2>1. ctl.pc = "disable" /\ ctl.task = "emergency" /\ capi' = capi
    BY <1>3 DEF DisableSchedule, TaskKnown
  <2> QED
    BY <2>1, <1>1 DEF PastDelete
<1>4. CASE ctl'.pc = ctl.pc /\ ctl'.task = ctl.task /\ capi' = capi
  BY <1>1, <1>4
<1>5. CASE Tick
  <2>1. ctl'.pc = ctl.pc /\ ctl'.task = ctl.task /\ capi' = capi
    BY <1>0, <1>5 DEF Tick, Control
  <2> QED
    BY <2>1, <1>4
<1>6. ASSUME GarbageCollect \/ \E k \in Kinds : TeardownEnds(k)
      PROVE  capi'["Machine"] # "present"
  <2>1. ctl' = ctl /\ (capi'["Machine"] = capi["Machine"] \/ capi'["Machine"] # "present")
    BY <1>0, <1>6 DEF GarbageCollect, TeardownEnds, Deleted
  <2> QED
    BY <2>1 DEF RequestBooked
<1>7. ASSUME ctl' = ctl, capi' = capi PROVE capi'["Machine"] # "present"
  BY <1>7, <1>4
<1>8. CASE ResolveSchedule
  <2>1. PICK verdict \in Verdicts :
          ctl' = PhaseHandler(ctl.obj, ShouldBeActive(ctl.obj, verdict))
    BY <1>0, <1>8 DEF ResolveSchedule, Proceed, Succeed, GoTo, Fail
  <2>2. ctl.obj \in Object /\ ShouldBeActive(ctl.obj, verdict) \in BOOLEAN
    BY <1>0 DEF Control, ShouldBeActive
  <2> QED
    BY <2>1, <2>2, HandlerFacts DEF PastDelete
<1>9. CASE \/ StartDeletion \/ StartFinalizer \/ StartKillSwitch \/ CleanupTimesOut
           \/ Preflight \/ AddMachineToCluster \/ Drain \/ ClearReclaimAnnotations
  <2>1. \/ \E pc \in {"deleteMachine", "unfinalize", "finalize", "createBootstrap",
                      "createInfrastructure", "createMachine"}, task \in Tasks :
             ctl' = At(pc, task)
        \/ \E task \in Tasks, target \in Phases : ctl' = PatchPhase(task, target)
    <3>1. {"none", "deletion", "kill", "emergency"} \subseteq Tasks
          /\ {"Terminated", "Error", "Active", "Disabled"} \subseteq Phases
      BY DEF Tasks, Phases
    <3> QED
      BY <1>0, <1>9, <3>1 DEF StartDeletion, StartFinalizer, StartKillSwitch, CleanupTimesOut,
         HandleDeletion, HandleKillSwitch, Proceed, GoTo, Succeed, Fail, Preflight,
         CreationFailed, AddMachineToCluster, CreateObject, Drain, ClearReclaimAnnotations
  <2> QED
    BY <2>1, AtFacts, PatchFacts, Literals DEF PastDelete
<1>10. CASE StartInner \/ CheckEmergencyReclaim \/ UpdatePhase
  <2>1. \/ ctl'.pc \in {"reclaim", "resolve"} \/ ctl' = At("drain", "emergency")
        \/ ctl' = PatchPhase("emergency", "EmergencyRemove")
    BY <1>0, <1>10, AtFacts, Literals DEF StartInner, CheckEmergencyReclaim, AfterReclaimCheck,
       UpdatePhase, AfterPatch, Succeed, Fail, GoTo, Control
  <2>2. "emergency" \in Tasks /\ "EmergencyRemove" \in Phases
    BY DEF Tasks, Phases
  <2> QED
    BY <2>1, <2>2, AtFacts, PatchFacts, Literals DEF PastDelete
<1>11. RejectSpec \/ AddFinalizer \/ RemoveFinalizer \/ EnrichStatus \/ Crash => ctl' = Idle
  BY DEF RejectSpec, AddFinalizer, RemoveFinalizer, EnrichStatus, Crash, Succeed, SucceedEarly, Fail
<1>12. Observe \/ UserEdits \/ AgentRequestsReclaim \/ NodeJoins \/ NodeLeaves \/ Gone
         \/ UNCHANGED vars => ctl' = ctl /\ capi' = capi
  BY DEF Observe, UserEdits, AgentRequestsReclaim, NodeJoins, NodeLeaves, Gone, vars
<1> QED
  BY <1>0, <1>2, <1>3, <1>5, <1>6, <1>7, <1>8, <1>9, <1>10, <1>11, <1>12
     DEF Next, Reconcile, Capi

\* Through stale reads, faults and crashes, the emergency flow never clears a
\* reclaim request while the Machine it is about is still in place.
THEOREM RequestOutlivesMachineHolds == Spec => RequestOutlivesMachine
<1>1. Init => RequestBooked
  BY IdleFacts DEF Init, RequestBooked, NoNode
<1>2. ASSUME TypeOK, TaskKnown, RequestBooked, [Next]_vars PROVE RequestBooked'
  BY <1>2, RequestStep, MachineDeletedStep DEF RequestBooked
<1>3. ASSUME TypeOK, TaskKnown, RequestBooked, [Next]_vars
      PROVE  [node.reclaim /\ ~node'.reclaim => capi["Machine"] # "present"]_vars
  BY <1>3, RequestStep
<1> QED
  BY <1>1, <1>2, <1>3, InitTypes, TypeStep, PTL DEF Spec, RequestOutlivesMachine

(***************************************************************************)
(* The order of a removal, with stale reads too.                           *)
(***************************************************************************)
MidRemoval == {"deleteBootstrap", "deleteInfrastructure"}

\* How far a removal has come is how much of it is no longer in place.
RemovedSoFar ==
  /\ ctl.pc \in MidRemoval => capi["Machine"] # "present"
  /\ ctl.pc = "deleteInfrastructure" => capi["Bootstrap"] # "present"

\* The middle of a removal is reached only from its start.
LEMMA RemovalGoesOn ==
  ASSUME TypeOK, TaskKnown, [Next]_vars, ctl'.pc \in MidRemoval
  PROVE  \/ RemoveMachineFromCluster
         \/ ctl'.pc = ctl.pc /\ UNCHANGED capi
         \/ ctl'.pc = ctl.pc /\ (GarbageCollect \/ \E k \in Kinds : TeardownEnds(k))
<1>0. ctl \in Control /\ ctl' # Idle
  BY IdleFacts DEF TypeOK, MidRemoval
<1>1. CASE Tick
  BY <1>0, <1>1 DEF Tick, Control
<1>2. CASE ResolveSchedule
  <2>1. PICK verdict \in Verdicts :
          ctl' = PhaseHandler(ctl.obj, ShouldBeActive(ctl.obj, verdict))
    BY <1>0, <1>2 DEF ResolveSchedule, Proceed, Succeed, GoTo, Fail
  <2>2. ctl.obj \in Object /\ ShouldBeActive(ctl.obj, verdict) \in BOOLEAN
    BY <1>0 DEF Control, ShouldBeActive
  <2> QED
    BY <2>1, <2>2, HandlerFacts DEF MidRemoval
<1>3. CASE \/ StartDeletion \/ StartFinalizer \/ StartKillSwitch \/ CleanupTimesOut
           \/ Preflight \/ AddMachineToCluster \/ Drain \/ DisableSchedule \/ ClearReclaimAnnotations
  <2>1. \/ \E pc \in {"deleteMachine", "unfinalize", "finalize", "clear", "createBootstrap",
                      "createInfrastructure", "createMachine"}, task \in Tasks :
             ctl' = At(pc, task)
        \/ \E task \in Tasks, target \in Phases : ctl' = PatchPhase(task, target)
    <3>1. {"none", "deletion", "kill", "emergency"} \subseteq Tasks /\ ctl.task \in Tasks
          /\ {"Terminated", "Error", "Active", "Disabled"} \subseteq Phases
      BY <1>0 DEF Tasks, Phases, Control
    <3> QED
      BY <1>0, <1>3, <3>1 DEF StartDeletion, StartFinalizer, StartKillSwitch, CleanupTimesOut,
         HandleDeletion, HandleKillSwitch, Proceed, GoTo, Succeed, Fail, Preflight,
         CreationFailed, AddMachineToCluster, CreateObject, Drain, DisableSchedule,
         ClearReclaimAnnotations
  <2> QED
    BY <2>1, AtFacts, PatchFacts, Literals DEF MidRemoval
<1>4. CASE StartInner \/ CheckEmergencyReclaim \/ UpdatePhase
  <2>1. \/ ctl'.pc \in {"reclaim", "resolve"} \/ ctl' = At("drain", "emergency")
        \/ ctl' = PatchPhase("emergency", "EmergencyRemove")
    BY <1>0, <1>4, AtFacts, Literals DEF StartInner, CheckEmergencyReclaim, AfterReclaimCheck,
       UpdatePhase, AfterPatch, Succeed, Fail, GoTo, Control
  <2>2. "emergency" \in Tasks /\ "EmergencyRemove" \in Phases
    BY DEF Tasks, Phases
  <2> QED
    BY <2>1, <2>2, AtFacts, PatchFacts, Literals DEF MidRemoval
<1>5. RejectSpec \/ AddFinalizer \/ RemoveFinalizer \/ EnrichStatus \/ Crash => ctl' = Idle
  BY DEF RejectSpec, AddFinalizer, RemoveFinalizer, EnrichStatus, Crash, Succeed, SucceedEarly, Fail
<1>6. Observe \/ UserEdits \/ AgentRequestsReclaim \/ NodeJoins \/ NodeLeaves \/ Gone
         \/ UNCHANGED vars => ctl' = ctl /\ capi' = capi
  BY DEF Observe, UserEdits, AgentRequestsReclaim, NodeJoins, NodeLeaves, Gone, vars
<1>7. GarbageCollect \/ (\E k \in Kinds : TeardownEnds(k)) => ctl' = ctl
  BY DEF GarbageCollect, TeardownEnds
<1> QED
  BY <1>0, <1>1, <1>2, <1>3, <1>4, <1>5, <1>6, <1>7 DEF Next, Reconcile, Capi

\* Each delete leaves its object out of place, and nobody puts one back meanwhile.
LEMMA RemovedSoFarStep ==
  ASSUME TypeOK, TaskKnown, RemovedSoFar, [Next]_vars
  PROVE  RemovedSoFar'
<1>0. capi \in [Kinds -> {"absent", "present", "deleting"}] /\ Kinds = {"Machine", "Bootstrap", "Infrastructure"}
  BY DEF TypeOK, Kinds
<1> SUFFICES ASSUME ctl'.pc \in MidRemoval
             PROVE  /\ capi'["Machine"] # "present"
                    /\ ctl'.pc = "deleteInfrastructure" => capi'["Bootstrap"] # "present"
  BY DEF RemovedSoFar, MidRemoval
<1>1. CASE ctl'.pc = ctl.pc /\ UNCHANGED capi
  BY <1>1 DEF RemovedSoFar
<1>2. CASE ctl'.pc = ctl.pc /\ (GarbageCollect \/ \E k \in Kinds : TeardownEnds(k))
  <2>1. \A k \in Kinds : capi'[k] = "present" => capi[k] = "present"
    BY <1>0, <1>2 DEF GarbageCollect, TeardownEnds, Deleted
  <2> QED
    BY <1>0, <1>2, <2>1 DEF RemovedSoFar
<1>3. CASE RemoveMachineFromCluster
  <2>1. /\ ctl' # Idle /\ ctl.task \in Tasks \ {"none"}
        /\ "shutdown" \in Tasks /\ "Error" \in Phases
    BY <1>3, IdleFacts DEF RemoveMachineFromCluster, DeleteObject, DeleteSteps, TaskKnown,
       MidRemoval, TypeOK, Control, Tasks, Phases
  <2>2. PatchPhase("shutdown", "Error").pc \notin MidRemoval
    BY <2>1, PatchFacts DEF MidRemoval
  <2>3. CASE ctl.pc = "deleteMachine"
    <3>1. /\ ctl' = At("deleteBootstrap", ctl.task) /\ capi' = Deleted("Machine")
      BY <1>3, <2>1, <2>2, <2>3
         DEF RemoveMachineFromCluster, DeleteObject, RemovalFailed, Fail, GoTo
    <3>2. ctl'.pc = "deleteBootstrap"
      BY <2>1, <3>1, AtFacts, Literals
    <3> QED
      BY <1>0, <3>1, <3>2 DEF Deleted
  <2>4. CASE ctl.pc = "deleteBootstrap"
    <3>1. capi' = Deleted("Bootstrap")
      BY <1>3, <2>1, <2>2, <2>4
         DEF RemoveMachineFromCluster, DeleteObject, RemovalFailed, Fail, GoTo
    <3> QED
      BY <1>0, <2>4, <3>1 DEF Deleted, RemovedSoFar, MidRemoval
  <2>5. CASE ctl.pc = "deleteInfrastructure"
    <3>1. ctl' = AfterRemoval(ctl.task)
      BY <1>3, <2>1, <2>2, <2>5
         DEF RemoveMachineFromCluster, DeleteObject, RemovalFailed, Fail, GoTo
    <3> QED
      BY <2>1, <3>1, RemovalFacts DEF MidRemoval
  <2> QED
    BY <1>3, <2>3, <2>4, <2>5 DEF RemoveMachineFromCluster, DeleteObject
<1> QED
  BY <1>1, <1>2, <1>3, RemovalGoesOn

\* Through stale reads, faults, crashes and cleanup timeouts, a removal takes the
\* objects in the order Machine, bootstrap, infrastructure, never one from under another.
THEOREM TornDownInOrderHolds == Spec => TornDownInOrder
<1> DEFINE Ordered ==
      /\ capi["Bootstrap"] = "present" /\ capi'["Bootstrap"] # "present"
           => capi["Machine"] # "present"
      /\ capi["Infrastructure"] = "present" /\ capi'["Infrastructure"] # "present"
           => capi["Machine"] # "present" /\ capi["Bootstrap"] # "present"
<1>1. Init => RemovedSoFar
  BY IdleFacts DEF Init, RemovedSoFar, MidRemoval
<1>2. ASSUME TypeOK, TaskKnown, RemovedSoFar, [Next]_vars PROVE RemovedSoFar'
  BY <1>2, RemovedSoFarStep
<1>3. ASSUME TypeOK, TaskKnown, RemovedSoFar, [Next]_vars PROVE [Ordered]_vars
  <2>0. /\ capi \in [Kinds -> {"absent", "present", "deleting"}]
        /\ Kinds = {"Machine", "Bootstrap", "Infrastructure"}
    BY <1>3 DEF TypeOK, Kinds
  <2>1. CASE UNCHANGED capi
    BY <2>1
  <2>2. CASE AddMachineToCluster
    <3>1. \A k \in Kinds : capi[k] = "present" => capi'[k] = "present"
      BY <2>0, <2>2 DEF AddMachineToCluster, CreateObject, Created
    <3> QED
      BY <2>0, <3>1
  <2>3. CASE GarbageCollect \/ \E k \in Kinds : TeardownEnds(k)
    <3>1. \A k \in Kinds \ {"Machine"} : capi[k] = "present" => capi'[k] = "present"
      BY <2>0, <2>3 DEF GarbageCollect, TeardownEnds, Deleted
    <3> QED
      BY <2>0, <3>1
  <2>4. CASE RemoveMachineFromCluster
    <3>1. PICK k \in Kinds :
            /\ capi' \in {capi, Deleted(k)}
            /\ k = "Bootstrap" => ctl.pc = "deleteBootstrap"
            /\ k = "Infrastructure" => ctl.pc = "deleteInfrastructure"
      BY <2>0, <2>4 DEF RemoveMachineFromCluster, DeleteObject
    <3>2. \A j \in Kinds : capi[j] = "present" /\ capi'[j] # "present" => j = k
      BY <2>0, <3>1 DEF Deleted
    <3> QED
      BY <1>3, <2>0, <3>1, <3>2 DEF RemovedSoFar, MidRemoval
  <2>5. \/ UNCHANGED capi \/ AddMachineToCluster \/ RemoveMachineFromCluster
        \/ GarbageCollect \/ \E k \in Kinds : TeardownEnds(k)
    BY <1>3 DEF Next, Reconcile, Capi, Observe, Outside, StartDeletion, StartFinalizer, RejectSpec,
       StartKillSwitch, StartInner, AddFinalizer, RemoveFinalizer, UpdatePhase,
       CheckEmergencyReclaim, ResolveSchedule, Preflight, CleanupTimesOut, Drain,
       DisableSchedule, ClearReclaimAnnotations, EnrichStatus, Crash, UserEdits,
       AgentRequestsReclaim, NodeJoins, NodeLeaves, Tick, Gone, vars
  <2> QED
    BY <2>1, <2>2, <2>3, <2>4, <2>5
<1> QED
  BY <1>1, <1>2, <1>3, InitTypes, TypeStep, PTL DEF Spec, TornDownInOrder

(***************************************************************************)
(* The length of a reconcile, with stale reads too.                        *)
(***************************************************************************)
\* The steps a reconcile has before it at most, from where it stands.
Ahead == [reclaim |-> 9, resolve |-> 8, drain |-> 7, deleteMachine |-> 6,
          deleteBootstrap |-> 5, deleteInfrastructure |-> 4, disable |-> 3, clear |-> 2,
          preflight |-> 5, createBootstrap |-> 4, createInfrastructure |-> 3,
          createMachine |-> 2, finalize |-> 1, unfinalize |-> 1, enrich |-> 1,
          patch |-> 1, idle |-> 0]

\* Only the write that opens the emergency flow has the whole flow after it.
StepsLeft(c) ==
  IF c.pc = "patch" /\ c.task = "emergency" /\ c.target = "EmergencyRemove" THEN 8
  ELSE Ahead[c.pc]

\* A reconcile is at most nine steps: no handler leads back to an earlier one, whatever
\* the calls answer, and nothing that happens meanwhile prolongs it. It always returns
\* to the work queue, and what it left undone is the next reconcile's business.
EveryReconcileEnds ==
  [][/\ StepsLeft(ctl) \in 0..9
     /\ ctl.pc # "idle" /\ Reconcile => StepsLeft(ctl') < StepsLeft(ctl)
     /\ ctl.pc # "idle" /\ ~Reconcile => StepsLeft(ctl') = StepsLeft(ctl) \/ ctl' = Idle]_vars

\* The table, entry by entry.
LEMMA AheadFacts ==
  /\ Ahead["reclaim"] = 9 /\ Ahead["resolve"] = 8 /\ Ahead["drain"] = 7
  /\ Ahead["deleteMachine"] = 6 /\ Ahead["deleteBootstrap"] = 5
  /\ Ahead["deleteInfrastructure"] = 4 /\ Ahead["disable"] = 3 /\ Ahead["clear"] = 2
  /\ Ahead["preflight"] = 5 /\ Ahead["createBootstrap"] = 4
  /\ Ahead["createInfrastructure"] = 3 /\ Ahead["createMachine"] = 2
  /\ Ahead["finalize"] = 1 /\ Ahead["unfinalize"] = 1 /\ Ahead["enrich"] = 1
  /\ Ahead["patch"] = 1 /\ Ahead["idle"] = 0
  BY DEF Ahead

\* The count for each way of moving on.
LEMMA StepsLeftFacts ==
  /\ StepsLeft(Idle) = 0
  /\ \A pc \in Steps \ {"patch"}, task \in Tasks : StepsLeft(At(pc, task)) = Ahead[pc]
  /\ \A task \in Tasks, target \in Phases :
       target # "EmergencyRemove" => StepsLeft(PatchPhase(task, target)) = 1
  /\ StepsLeft(PatchPhase("emergency", "EmergencyRemove")) = 8
  /\ StepsLeft(PatchPhaseWithGrace("ShuttingDown")) = 1
  /\ \A c \in Control : StepsLeft(c) \in 0..9 /\ (c.pc # "idle" => StepsLeft(c) >= 1)
<1>1. StepsLeft(Idle) = 0
  BY AheadFacts, IdleFacts DEF StepsLeft
<1>2. ASSUME NEW pc \in Steps \ {"patch"}, NEW task \in Tasks
      PROVE  StepsLeft(At(pc, task)) = Ahead[pc]
  BY AtFacts DEF StepsLeft
<1>3. ASSUME NEW task \in Tasks, NEW target \in Phases, target # "EmergencyRemove"
      PROVE  StepsLeft(PatchPhase(task, target)) = 1
  BY <1>3, AheadFacts, PatchFacts DEF StepsLeft
<1>4. StepsLeft(PatchPhase("emergency", "EmergencyRemove")) = 8
  <2>1. "emergency" \in Tasks /\ "EmergencyRemove" \in Phases
    BY DEF Tasks, Phases
  <2> QED
    BY <2>1, PatchFacts DEF StepsLeft
<1>5. StepsLeft(PatchPhaseWithGrace("ShuttingDown")) = 1
  BY AheadFacts, GracePatchFacts DEF StepsLeft
<1>6. ASSUME NEW c \in Control
      PROVE  StepsLeft(c) \in 0..9 /\ (c.pc # "idle" => StepsLeft(c) >= 1)
  <2>1. \A pc \in Steps : Ahead[pc] \in 0..9 /\ (pc # "idle" => Ahead[pc] >= 1)
    BY AheadFacts, Literals
  <2>2. c.pc \in Steps
    BY DEF Control
  <2> QED
    BY <2>1, <2>2 DEF StepsLeft
<1> QED
  BY <1>1, <1>2, <1>3, <1>4, <1>5, <1>6

\* What the phase handlers start with leaves less to do than the schedule check had.
LEMMA HandlerIsShorter ==
  ASSUME NEW o \in Object, NEW active \in BOOLEAN
  PROVE  StepsLeft(PhaseHandler(o, active)) < 8
<1> DEFINE h == PhaseHandler(o, active)
<1>1. /\ {"none", "shutdown"} \subseteq Tasks
      /\ {"preflight", "enrich", "drain"} \subseteq Steps \ {"patch"}
      /\ {"Disabled", "Inactive", "ShuttingDown", "Pending"} \subseteq Phases \ {"EmergencyRemove"}
      /\ Ahead["preflight"] = 5 /\ Ahead["enrich"] = 1 /\ Ahead["drain"] = 7
  BY AheadFacts DEF Tasks, Steps, Phases
<1>2. \/ h = Idle \/ h = At("preflight", "none") \/ h = At("enrich", "none")
      \/ h = At("drain", "shutdown")
      \/ h = PatchPhaseWithGrace("ShuttingDown")
      \/ \E t \in {"Disabled", "Inactive", "ShuttingDown", "Pending"} :
             h = PatchPhase("none", t)
  BY HandlerCases DEF h
<1> HIDE DEF h
<1>3. CASE \E t \in {"Disabled", "Inactive", "ShuttingDown", "Pending"} :
             h = PatchPhase("none", t)
  BY <1>1, <1>3, StepsLeftFacts DEF h
<1>4. CASE h = At("preflight", "none") \/ h = At("enrich", "none") \/ h = At("drain", "shutdown")
  BY <1>1, <1>4, StepsLeftFacts DEF h
<1>5. CASE h = Idle \/ h = PatchPhaseWithGrace("ShuttingDown")
  BY <1>5, StepsLeftFacts DEF h
<1> QED
  BY <1>2, <1>3, <1>4, <1>5

\* Every step of a reconcile under way leaves it with less to do.
LEMMA ReconcileStep ==
  ASSUME TypeOK, TaskKnown, ctl.pc # "idle", Reconcile
  PROVE  StepsLeft(ctl') < StepsLeft(ctl)
<1>0. ctl \in Control /\ ctl.pc \in Steps /\ ctl.task \in Tasks
  BY DEF TypeOK, Control
<1>1. StepsLeft(ctl) \in 0..9 /\ StepsLeft(ctl) >= 1
  BY <1>0, StepsLeftFacts
<1>2. ASSUME ctl' = Idle PROVE StepsLeft(ctl') < StepsLeft(ctl)
  BY <1>1, <1>2, StepsLeftFacts
<1>3. ctl.pc # "patch" => StepsLeft(ctl) = Ahead[ctl.pc]
  BY DEF StepsLeft
<1>4. ASSUME NEW pc \in Steps \ {"patch"}, NEW task \in Tasks, ctl' = At(pc, task)
      PROVE  StepsLeft(ctl') = Ahead[pc]
  BY <1>4, StepsLeftFacts
<1>5. ASSUME NEW task \in Tasks, NEW target \in Phases \ {"EmergencyRemove"},
             ctl' = PatchPhase(task, target), ctl.pc # "patch",
             Ahead[ctl.pc] > 1
      PROVE  StepsLeft(ctl') < StepsLeft(ctl)
  BY <1>1, <1>3, <1>5, StepsLeftFacts
<1>6. /\ {"none", "deletion", "kill", "shutdown", "emergency"} = Tasks
      /\ {"Error", "Active", "Terminated", "Inactive", "Disabled"} \subseteq Phases \ {"EmergencyRemove"}
      /\ Steps \ {"patch"} = {"idle", "finalize", "unfinalize", "reclaim", "resolve", "preflight",
           "enrich", "drain", "disable", "clear", "createBootstrap", "createInfrastructure",
           "createMachine", "deleteMachine", "deleteBootstrap", "deleteInfrastructure"}
  BY Literals DEF Phases, Tasks
<1>7. CASE AddFinalizer \/ RemoveFinalizer \/ EnrichStatus
  BY <1>2, <1>7 DEF AddFinalizer, RemoveFinalizer, EnrichStatus, Succeed, SucceedEarly, Fail
<1>8. CASE UpdatePhase
  <2>1. \/ ctl' = Idle
        \/ /\ ctl' = At("drain", "emergency")
           /\ ctl.pc = "patch" /\ ctl.task = "emergency" /\ ctl.target = "EmergencyRemove"
    BY <1>8 DEF UpdatePhase, AfterPatch, Succeed, Fail, GoTo
  <2>2. CASE ctl' # Idle
    BY <1>4, <1>6, <2>1, <2>2, AheadFacts DEF StepsLeft
  <2> QED
    BY <1>2, <2>2
<1>9. CASE CheckEmergencyReclaim
  <2>1. /\ ctl.pc = "reclaim"
        /\ \/ ctl' = Idle \/ ctl' = PatchPhase("emergency", "EmergencyRemove")
           \/ ctl' = [ctl EXCEPT !.pc = "resolve"]
    BY <1>9 DEF CheckEmergencyReclaim, AfterReclaimCheck, Fail, GoTo
  <2>2. ctl' # Idle => StepsLeft(ctl') = 8
    <3>1. ctl' = [ctl EXCEPT !.pc = "resolve"] => ctl'.pc = "resolve"
      BY <1>0 DEF Control
    <3> QED
      BY <2>1, <3>1, AheadFacts, StepsLeftFacts DEF StepsLeft
  <2>3. StepsLeft(ctl) = 9
    BY <1>3, <2>1, AheadFacts
  <2> QED
    BY <1>2, <2>2, <2>3
<1>10. CASE ResolveSchedule
  <2>1. /\ ctl.pc = "resolve"
        /\ \/ ctl' = Idle
           \/ \E verdict \in Verdicts : ctl' = PhaseHandler(ctl.obj, ShouldBeActive(ctl.obj, verdict))
    BY <1>10 DEF ResolveSchedule, Proceed, Succeed, GoTo, Fail
  <2>2. ctl.obj \in Object /\ \A verdict : ShouldBeActive(ctl.obj, verdict) \in BOOLEAN
    BY <1>0 DEF Control, ShouldBeActive
  <2>3. ctl' # Idle => StepsLeft(ctl') < 8
    BY <2>1, <2>2, HandlerIsShorter
  <2>4. StepsLeft(ctl) = 8
    BY <1>3, <2>1, AheadFacts
  <2> QED
    BY <1>2, <2>3, <2>4
<1>11. CASE Preflight \/ AddMachineToCluster
  <2>1. \/ ctl' = PatchPhase("none", "Error") /\ ctl.pc \in CreateSteps \cup {"preflight"}
        \/ ctl' = PatchPhase("none", "Active") /\ ctl.pc = "createMachine"
        \/ ctl' = At("createBootstrap", "none") /\ ctl.pc = "preflight"
        \/ ctl' = At("createInfrastructure", "none") /\ ctl.pc = "createBootstrap"
        \/ ctl' = At("createMachine", "none") /\ ctl.pc = "createInfrastructure"
    BY <1>11 DEF Preflight, AddMachineToCluster, CreateObject, CreationFailed, GoTo, CreateSteps
  <2>2. CASE \/ ctl' = PatchPhase("none", "Error") /\ ctl.pc \in CreateSteps \cup {"preflight"}
             \/ ctl' = PatchPhase("none", "Active") /\ ctl.pc = "createMachine"
    <3>1. ctl.pc # "patch" /\ Ahead[ctl.pc] > 1
      BY <2>2, AheadFacts DEF CreateSteps
    <3> QED
      BY <1>5, <1>6, <2>2, <3>1
  <2>3. CASE \/ ctl' = At("createBootstrap", "none") /\ ctl.pc = "preflight"
             \/ ctl' = At("createInfrastructure", "none") /\ ctl.pc = "createBootstrap"
             \/ ctl' = At("createMachine", "none") /\ ctl.pc = "createInfrastructure"
    BY <1>3, <1>4, <1>6, <2>3, AheadFacts
  <2> QED
    BY <2>1, <2>2, <2>3
<1>12. CASE RemoveMachineFromCluster \/ CleanupTimesOut
  <2>1. /\ ctl.pc \in DeleteSteps
        /\ \/ ctl' = Idle \/ ctl' = PatchPhase("shutdown", "Error")
           \/ ctl' = At("unfinalize", "deletion")
           \/ ctl' = At("deleteBootstrap", ctl.task) /\ ctl.pc = "deleteMachine"
           \/ ctl' = At("deleteInfrastructure", ctl.task) /\ ctl.pc = "deleteBootstrap"
           \/ ctl' = AfterRemoval(ctl.task)
    BY <1>12 DEF RemoveMachineFromCluster, DeleteObject, RemovalFailed, CleanupTimesOut,
       Fail, GoTo, DeleteSteps
  <2>2. ctl.pc # "patch" /\ Ahead[ctl.pc] >= 4 /\ StepsLeft(ctl) = Ahead[ctl.pc]
    BY <1>3, <2>1, AheadFacts DEF DeleteSteps
  <2>3. CASE ctl' = PatchPhase("shutdown", "Error")
    BY <1>1, <1>5, <1>6, <2>2, <2>3
  <2>4. CASE ctl' = At("unfinalize", "deletion")
    BY <1>1, <1>4, <1>6, <2>2, <2>4, AheadFacts
  <2>5. CASE \/ ctl' = At("deleteBootstrap", ctl.task) /\ ctl.pc = "deleteMachine"
             \/ ctl' = At("deleteInfrastructure", ctl.task) /\ ctl.pc = "deleteBootstrap"
    BY <1>0, <1>4, <1>6, <2>2, <2>5, AheadFacts
  <2>6. CASE ctl' = AfterRemoval(ctl.task)
    <3>1. ctl.task # "none"
      BY <2>1 DEF TaskKnown
    <3>2. \/ ctl' = At("unfinalize", "deletion") \/ ctl' = PatchPhase("kill", "Terminated")
          \/ ctl' = PatchPhase("shutdown", "Inactive") \/ ctl' = At("disable", "emergency")
      BY <1>0, <2>6, <3>1 DEF AfterRemoval, Tasks
    <3>3. CASE ctl' = PatchPhase("kill", "Terminated") \/ ctl' = PatchPhase("shutdown", "Inactive")
      BY <1>1, <1>5, <1>6, <2>2, <3>3
    <3>4. CASE ctl' = At("disable", "emergency")
      BY <1>1, <1>4, <1>6, <2>2, <3>4, AheadFacts
    <3> QED
      BY <2>4, <3>2, <3>3, <3>4
  <2> QED
    BY <1>2, <2>1, <2>3, <2>4, <2>5, <2>6
<1>13. CASE Drain \/ DisableSchedule
  <2>1. \/ ctl' = Idle
        \/ ctl' = At("deleteMachine", ctl.task) /\ ctl.pc = "drain"
        \/ ctl' = At("clear", "emergency") /\ ctl.pc = "disable"
    BY <1>13 DEF Drain, DisableSchedule, Fail, GoTo
  <2>2. CASE ctl' # Idle
    BY <1>0, <1>3, <1>4, <1>6, <2>1, <2>2, AheadFacts
  <2> QED
    BY <1>2, <2>2
<1>14. CASE ClearReclaimAnnotations
  <2>1. ctl' = PatchPhase("emergency", "Disabled") /\ ctl.pc = "clear" /\ Ahead["clear"] > 1
    BY <1>14, AheadFacts DEF ClearReclaimAnnotations, GoTo
  <2> QED
    BY <1>5, <1>6, <2>1
<1>15. ~(StartDeletion \/ StartFinalizer \/ RejectSpec \/ StartKillSwitch \/ StartInner)
  BY DEF StartDeletion, StartFinalizer, RejectSpec, StartKillSwitch, StartInner, Admitted, Triggered
<1> QED
  BY <1>7, <1>8, <1>9, <1>10, <1>11, <1>12, <1>13, <1>14, <1>15 DEF Reconcile

\* Whatever fails, dies, is stale or is edited: every reconcile comes to its end in a
\* bounded number of steps.
THEOREM EveryReconcileEndsHolds == Spec => EveryReconcileEnds
<1>1. ASSUME TypeOK, TaskKnown, [Next]_vars
      PROVE  /\ StepsLeft(ctl) \in 0..9
             /\ ctl.pc # "idle" /\ Reconcile => StepsLeft(ctl') < StepsLeft(ctl)
             /\ ctl.pc # "idle" /\ ~Reconcile => StepsLeft(ctl') = StepsLeft(ctl) \/ ctl' = Idle
  <2>1. StepsLeft(ctl) \in 0..9
    BY <1>1, StepsLeftFacts DEF TypeOK
  <2>2. ASSUME ctl.pc # "idle", ~Reconcile
        PROVE  StepsLeft(ctl') = StepsLeft(ctl) \/ ctl' = Idle
    <3>1. CASE Tick
      <4>1. ctl'.pc = ctl.pc /\ ctl'.task = ctl.task /\ ctl'.target = ctl.target
        BY <1>1, <3>1 DEF Tick, TypeOK, Control
      <4> QED
        BY <4>1 DEF StepsLeft
    <3>2. CASE Crash
      BY <3>2 DEF Crash
    <3>3. CASE \/ Observe \/ UserEdits \/ AgentRequestsReclaim \/ Capi \/ Gone \/ UNCHANGED vars
      <4>1. ctl' = ctl
        BY <3>3 DEF Observe, UserEdits, AgentRequestsReclaim, Capi, NodeJoins, NodeLeaves,
           TeardownEnds, GarbageCollect, Gone, vars
      <4> QED
        BY <4>1
    <3> QED
      BY <1>1, <2>2, <3>1, <3>2, <3>3 DEF Next
  <2> QED
    BY <1>1, <2>1, <2>2, ReconcileStep
<1> QED
  BY <1>1, InitTypes, TypeStep, PTL DEF Spec, EveryReconcileEnds

(***************************************************************************)
(* Where a reconcile stands.                                               *)
(***************************************************************************)
\* The edges of the lifecycle diagram the reconciler uses.
LEMMA MoveFacts ==
  /\ \A p \in {"Unset", "Pending"}, t \in {"Active", "Inactive", "Disabled", "Error"} :
       Lifecycle!MayMove(p, t)
  /\ Lifecycle!MayMove("Active", "ShuttingDown")
  /\ Lifecycle!MayMove("ShuttingDown", "Inactive")
  /\ Lifecycle!MayMove("ShuttingDown", "Error")
  /\ Lifecycle!MayMove("Inactive", "Pending")
  /\ Lifecycle!MayMove("Disabled", "Pending")
  /\ Lifecycle!MayMove("EmergencyRemove", "Disabled")
  /\ \A p \in Phases, t \in {"Terminated", "EmergencyRemove", "Gone"} : Lifecycle!MayMove(p, t)
  BY DEF Lifecycle!MayMove, Lifecycle!Schedule, Lifecycle!Initial, Phases

Standing == Owned /\ SnapshotCurrent /\ PhaseKnown

\* An idle controller stands nowhere.
LEMMA IdleStands ==
  ASSUME ctl.pc = "idle", Owned PROVE Standing
  BY DEF Standing, SnapshotCurrent, PhaseKnown, Provisioning, CreateSteps, DeleteSteps,
         EmergencySteps

\* Every step keeps the reconcile standing where its program counter says.
LEMMA StandingStep ==
  ASSUME ~CacheLag, TypeOK, TypeOK', TaskKnown, Standing, [Next]_vars
  PROVE  Standing'
<1>0. sm \in Object /\ sm' \in Object /\ ctl \in Control /\ ctl' \in Control
      /\ sm.phase \in Phases /\ ctl.obj \in Object /\ ctl.task \in Tasks
  BY DEF TypeOK, Object, Control
<1>s. Seen = sm /\ Owned /\ SnapshotCurrent /\ PhaseKnown
  BY DEF Seen, Standing
\* How the step ends, by the kind of place it leads to.
<1>a. ASSUME Owned', ctl'.pc \in {"idle", "finalize", "unfinalize", "enrich"}
      PROVE  Standing'
  BY <1>a DEF Standing, SnapshotCurrent, PhaseKnown, Provisioning, CreateSteps, DeleteSteps,
              EmergencySteps
<1>b. ASSUME Owned', ctl'.pc = "patch", ~ctl'.grace,
             ctl'.target = sm'.phase \/ Lifecycle!MayMove(sm'.phase, ctl'.target),
             ctl'.target # "Active" \/ sm'.active # "unset"
      PROVE  Standing'
  BY <1>b DEF Standing, SnapshotCurrent, PhaseKnown, Provisioning, CreateSteps, DeleteSteps,
              EmergencySteps
<1>c. ASSUME Owned', ctl'.pc \in CreateSteps \cup {"preflight"},
             sm'.phase \in {"Unset", "Pending"}, sm'.active = "yes"
      PROVE  Standing'
  BY <1>c DEF Standing, SnapshotCurrent, PhaseKnown, Provisioning, CreateSteps, DeleteSteps,
              EmergencySteps
<1>d. ASSUME Owned', ctl'.pc \in EmergencySteps,
             \/ ctl'.pc \in DeleteSteps /\ ctl'.task \in {"deletion", "kill"} /\ sm'.phase \in Running
             \/ ctl'.task = "shutdown" /\ sm'.phase = "ShuttingDown" /\ sm'.graceLeft = 0
             \/ ctl'.task = "emergency" /\ sm'.phase = "EmergencyRemove"
      PROVE  Standing'
  BY <1>d DEF Standing, SnapshotCurrent, PhaseKnown, Provisioning, CreateSteps, DeleteSteps,
              EmergencySteps
\* Who keeps the resource.
<1>o. ASSUME sm' = sm, (sm.exists /\ sm.finalizer) \/ ctl'.pc \in {"idle", "finalize"} PROVE Owned'
  BY <1>o, <1>s DEF Owned
<1>w. ASSUME ctl.pc \notin {"idle", "finalize"} PROVE sm.exists /\ sm.finalizer
  BY <1>w, <1>s DEF Owned
<1>e. ASSUME sm' = sm, Succeed \/ SucceedEarly \/ Fail \/ ctl' = Idle PROVE Standing'
  <2>1. ctl' = Idle
    BY <1>e DEF Succeed, SucceedEarly, Fail
  <2> QED
    BY <1>e, <2>1, <1>a, <1>o, IdleFacts
<1>u. ASSUME UNCHANGED <<sm, ctl>> PROVE Standing'
  <2>1. sm' = sm /\ ctl' = ctl
    BY <1>u
  <2>2. Owned'
    BY <2>1, <1>s DEF Owned
  <2>3. SnapshotCurrent'
    BY <2>1, <1>s DEF SnapshotCurrent
  <2>4. PhaseKnown'
    BY <2>1, <1>s DEF PhaseKnown, Provisioning
  <2> QED
    BY <2>2, <2>3, <2>4 DEF Standing
<1>1. CASE Observe
  BY <1>1, <1>u DEF Observe
<1>2. ASSUME UNCHANGED vars PROVE Standing'
  BY <1>2, <1>u DEF vars
<1>3. CASE StartDeletion
  <2>1. sm' = sm /\ sm.exists /\ sm.finalizer
    BY <1>3, <1>s DEF StartDeletion, Triggered, Outside, Owned
  <2>2. CASE sm.phase \in Running
    <3>1. ctl'.pc = "deleteMachine" /\ ctl'.task = "deletion"
      BY <1>3, <1>s, <2>2, AtFacts, Literals DEF StartDeletion, HandleDeletion, GoTo
    <3> QED
      BY <2>1, <2>2, <3>1, <1>d, <1>o DEF EmergencySteps, DeleteSteps
  <2>3. CASE sm.phase \notin Running
    <3>1. ctl'.pc = "unfinalize"
      BY <1>3, <1>s, <2>3, AtFacts, Literals DEF StartDeletion, HandleDeletion, GoTo
    <3> QED
      BY <2>1, <3>1, <1>a, <1>o
  <2> QED
    BY <2>2, <2>3
<1>4. CASE StartFinalizer
  <2>1. sm' = sm /\ ctl'.pc = "finalize"
    BY <1>4, AtFacts, Literals DEF StartFinalizer, Outside, GoTo
  <2> QED
    BY <2>1, <1>a, <1>o
<1>5. CASE RejectSpec
  BY <1>5, <1>e DEF RejectSpec, Outside
<1>6. CASE StartKillSwitch
  <2>1. sm' = sm /\ sm.exists /\ sm.finalizer
    BY <1>6, <1>s DEF StartKillSwitch, Admitted, Triggered, Outside
  <2>2. CASE HandleKillSwitch(sm) = Idle
    BY <1>6, <1>s, <2>1, <2>2, <1>e DEF StartKillSwitch, Proceed
  <2>3. CASE sm.phase \in Running /\ HandleKillSwitch(sm) = At("deleteMachine", "kill")
    <3>1. ctl'.pc = "deleteMachine" /\ ctl'.task = "kill"
      BY <1>6, <1>s, <2>3, AtFacts, IdleFacts, Literals DEF StartKillSwitch, Proceed, GoTo
    <3> QED
      BY <2>1, <2>3, <3>1, <1>d, <1>o DEF EmergencySteps, DeleteSteps
  <2>4. CASE HandleKillSwitch(sm) = PatchPhase("kill", "Terminated")
    <3>1. "kill" \in Tasks /\ "Terminated" \in Phases
      BY DEF Tasks, Phases
    <3>2. ctl'.pc = "patch" /\ ctl'.target = "Terminated" /\ ~ctl'.grace
      BY <1>6, <1>s, <2>4, <3>1, PatchFacts, IdleFacts DEF StartKillSwitch, Proceed, GoTo
    <3> QED
      BY <1>0, <2>1, <3>2, <1>b, <1>o, MoveFacts
  <2> QED
    BY <2>2, <2>3, <2>4 DEF HandleKillSwitch
<1>7. CASE StartInner
  <2>1. sm' = sm /\ sm.exists /\ sm.finalizer
    BY <1>7, <1>s DEF StartInner, Admitted, Triggered, Outside
  <2>2. ctl'.pc = "reclaim" /\ ctl'.obj = sm
    BY <1>7, <1>s, AtFacts, Literals DEF StartInner, GoTo, Control
  <2> QED
    BY <2>1, <2>2, <1>o DEF Standing, SnapshotCurrent, PhaseKnown, Provisioning, CreateSteps,
       DeleteSteps, EmergencySteps
<1>8. CASE AddFinalizer
  <2>1. PICK a \in Answers :
          /\ sm' = IF Applied(a) THEN [sm EXCEPT !.finalizer = TRUE] ELSE sm
          /\ SucceedEarly \/ Fail
    BY <1>8 DEF AddFinalizer
  <2>2. ctl' = Idle
    BY <2>1 DEF SucceedEarly, Fail
  <2>3. Owned'
    BY <2>1, <2>2, <1>s, <1>0, IdleFacts DEF Owned, Applied, Object
  <2> QED
    BY <2>2, <2>3, <1>a, IdleFacts
<1>9. CASE RemoveFinalizer
  <2>1. PICK a \in Answers :
          /\ sm' \in {sm, NoObject}
          /\ SucceedEarly \/ Fail
    BY <1>9 DEF RemoveFinalizer
  <2>2. ctl' = Idle
    BY <2>1 DEF SucceedEarly, Fail
  <2>3. Owned'
    <3>1. ctl'.pc = "idle"
      BY <2>2, IdleFacts
    <3>2. NoObject.phase = "Unset" /\ ~NoObject.deleting
      BY DEF NoObject
    <3> QED
      BY <2>1, <3>1, <3>2, <1>s DEF Owned
  <2> QED
    BY <2>2, <2>3, <1>a, IdleFacts
<1>10. CASE UpdatePhase
  <2>1. PICK a \in Answers :
          /\ sm' = IF Applied(a) THEN WithPhase(sm, ctl.target, ctl.grace) ELSE sm
          /\ IF Acknowledged(a) THEN AfterPatch ELSE Fail
    BY <1>10 DEF UpdatePhase
  <2>2. sm.exists /\ sm.finalizer
    BY <1>10, <1>w DEF UpdatePhase
  <2>3. sm'.exists /\ sm'.finalizer
    BY <2>1, <2>2, <1>0 DEF WithPhase, Object
  <2>4. Owned'
    <3>1. sm'.active = sm.active /\ sm'.phase \in {sm.phase, ctl.target}
      BY <2>1, <1>0 DEF WithPhase, Object
    <3> QED
      BY <1>10, <2>3, <3>1, <1>s DEF Owned, PhaseKnown, UpdatePhase
  <2>5. CASE ctl' = Idle
    BY <2>4, <2>5, <1>a, IdleFacts
  <2>6. CASE Acknowledged(a) /\ ctl.target = "EmergencyRemove" /\ ctl' = At("drain", "emergency")
    <3>1. ctl'.pc = "drain" /\ ctl'.task = "emergency"
      BY <2>6, AtFacts, Literals
    <3>2. sm' = WithPhase(sm, "EmergencyRemove", ctl.grace)
      BY <2>1, <2>6 DEF Acknowledged, Applied
    <3>3. sm'.phase = "EmergencyRemove"
      BY <3>2, <1>0 DEF WithPhase, Object
    <3> QED
      BY <2>4, <3>1, <3>3, <1>d DEF EmergencySteps
  <2> QED
    BY <2>1, <2>5, <2>6 DEF AfterPatch, GoTo, Succeed, Fail
<1>11. CASE CheckEmergencyReclaim
  <2>1. sm' = sm /\ sm.exists /\ sm.finalizer
    BY <1>11, <1>w DEF CheckEmergencyReclaim
  <2>2. ASSUME ctl' = [ctl EXCEPT !.pc = "resolve"] PROVE Standing'
    <3>1. ctl'.pc = "resolve" /\ ctl'.obj = ctl.obj
      BY <2>2, <1>0 DEF Control
    <3> QED
      BY <1>11, <2>1, <3>1, <1>o, <1>s
         DEF Standing, CheckEmergencyReclaim, SnapshotCurrent, PhaseKnown, Provisioning,
             CreateSteps, DeleteSteps, EmergencySteps
  <2>3. ASSUME ctl' = PatchPhase("emergency", "EmergencyRemove") PROVE Standing'
    <3>1. "emergency" \in Tasks /\ "EmergencyRemove" \in Phases
      BY DEF Tasks, Phases
    <3>2. ctl'.pc = "patch" /\ ctl'.target = "EmergencyRemove" /\ ~ctl'.grace
      BY <2>3, <3>1, PatchFacts
    <3> QED
      BY <1>0, <2>1, <3>2, <1>b, <1>o, MoveFacts
  <2>4. CASE Fail
    BY <2>1, <2>4, <1>e
  <2> QED
    BY <1>11, <2>2, <2>3, <2>4 DEF CheckEmergencyReclaim, AfterReclaimCheck, GoTo
<1>12. CASE ResolveSchedule
  <2>1. PICK verdict \in Verdicts, a \in Answers :
          /\ sm' = IF Applied(a) THEN PersistSpotSchedule(ctl.obj, verdict) ELSE sm
          /\ \/ a = "ok" /\ Proceed(PhaseHandler(ctl.obj, ShouldBeActive(ctl.obj, verdict)))
             \/ Fail
    BY <1>12 DEF ResolveSchedule
  <2>2. sm.exists /\ sm.finalizer
    BY <1>12, <1>w DEF ResolveSchedule
  <2>3. /\ ctl.obj.phase = sm.phase
        /\ ctl.obj.graceLeft = sm.graceLeft
        /\ ctl.obj.active = sm.active
    BY <1>12, <1>s DEF ResolveSchedule, SnapshotCurrent
  <2>4. /\ sm'.exists /\ sm'.finalizer
        /\ sm'.phase = sm.phase /\ sm'.graceLeft = sm.graceLeft
        /\ sm'.active \in {sm.active, HeldActive(ctl.obj, verdict)}
    BY <2>1, <2>2, <2>3, <1>0, PersistHolds
  <2>5. Owned'
    BY <2>3, <2>4, <1>s DEF Owned, HeldActive, Verdicts
  <2>6. CASE Fail
    BY <2>5, <2>6, <1>a, IdleFacts DEF Fail
  <2> DEFINE active == ShouldBeActive(ctl.obj, verdict)
             h == PhaseHandler(ctl.obj, active)
  <2>7. CASE a = "ok" /\ Proceed(h)
    <3>1. sm'.active = HeldActive(ctl.obj, verdict)
      BY <2>1, <2>2, <2>3, <2>7, <1>0, PersistHolds DEF Applied
    <3>2. /\ active \in BOOLEAN
          /\ active => sm'.active = "yes"
          /\ ~active /\ sm.phase = "Active" => sm'.active = "no"
      BY <2>3, <3>1, <1>0, <1>s DEF ShouldBeActive, Owned, HeldActive, Verdicts, Object, Tristate
    <3> HIDE DEF active, h
    <3>3. /\ "none" \in Tasks /\ "shutdown" \in Tasks
          /\ {"Disabled", "Inactive", "ShuttingDown", "Pending"} \subseteq Phases
      BY DEF Tasks, Phases
    <3>4. CASE h = Idle
      BY <2>5, <2>7, <3>4, <1>a, IdleFacts DEF Proceed, Succeed
    <3>5. ctl' = h
      BY <2>7 DEF Proceed, Succeed, GoTo
    <3>6. CASE \E t \in {"Disabled", "Inactive", "ShuttingDown", "Pending"} :
                 h = PatchPhase("none", t) /\ Lifecycle!MayMove(sm.phase, t)
      <4>1. PICK t \in {"Disabled", "Inactive", "ShuttingDown", "Pending"} :
              ctl' = PatchPhase("none", t) /\ Lifecycle!MayMove(sm.phase, t)
        BY <3>5, <3>6
      <4>2. ctl'.pc = "patch" /\ ctl'.task = "none" /\ ctl'.target = t /\ ~ctl'.grace
        BY <3>3, <4>1, PatchFacts
      <4> QED
        BY <2>4, <2>5, <4>1, <4>2, <1>b
    <3>7. CASE h = At("preflight", "none") /\ active /\ sm.phase \in {"Unset", "Pending"}
      <4>1. ctl'.pc = "preflight"
        BY <3>3, <3>5, <3>7, AtFacts, Literals
      <4> QED
        BY <2>4, <2>5, <3>2, <3>7, <4>1, <1>c
    <3>8. CASE h = PatchPhaseWithGrace("ShuttingDown") /\ ~active /\ sm.phase = "Active"
      <4>1. ctl'.pc = "patch" /\ ctl'.grace /\ ctl'.target = "ShuttingDown"
        BY <3>5, <3>8, GracePatchFacts
      <4> QED
        BY <2>4, <2>5, <3>2, <3>8, <4>1, MoveFacts
           DEF Standing, SnapshotCurrent, PhaseKnown, Provisioning, CreateSteps, DeleteSteps,
               EmergencySteps
    <3>9. CASE h = At("enrich", "none")
      BY <2>5, <3>3, <3>5, <3>9, <1>a, AtFacts, Literals
    <3>10. CASE h = At("drain", "shutdown") /\ sm.phase = "ShuttingDown" /\ sm.graceLeft = 0
      <4>1. ctl'.pc = "drain" /\ ctl'.task = "shutdown"
        BY <3>3, <3>5, <3>10, AtFacts, Literals
      <4>2. ctl'.pc \in EmergencySteps
        BY <4>1 DEF EmergencySteps
      <4> QED
        BY <2>4, <2>5, <3>10, <4>1, <4>2, <1>d
    <3> QED
      <4>1. \/ h = Idle
            \/ \E t \in {"Disabled", "Inactive", "ShuttingDown", "Pending"} :
                 h = PatchPhase("none", t) /\ Lifecycle!MayMove(sm.phase, t)
            \/ h = At("preflight", "none") /\ active /\ sm.phase \in {"Unset", "Pending"}
            \/ h = PatchPhaseWithGrace("ShuttingDown") /\ ~active /\ sm.phase = "Active"
            \/ h = At("enrich", "none")
            \/ h = At("drain", "shutdown") /\ sm.phase = "ShuttingDown" /\ sm.graceLeft = 0
        BY <2>3, <3>2, <1>0, HandlerCases, MoveFacts DEF h
      <4> QED
        BY <3>4, <3>6, <3>7, <3>8, <3>9, <3>10, <4>1
  <2> QED
    BY <2>1, <2>6, <2>7
<1>cf. ASSUME GoTo(CreationFailed), Owned', sm' = sm, sm.phase \in {"Unset", "Pending"}
       PROVE  Standing'
  <2>1. "Error" \in Phases /\ "none" \in Tasks
    BY DEF Phases, Tasks
  <2>2. ctl'.pc = "patch" /\ ctl'.target = "Error" /\ ~ctl'.grace
    BY <1>cf, <2>1, PatchFacts DEF CreationFailed, GoTo
  <2> QED
    BY <1>cf, <2>2, <1>b, MoveFacts
<1>13. CASE Preflight
  <2>1. sm' = sm /\ Owned' /\ sm.phase \in {"Unset", "Pending"} /\ sm.active = "yes"
    BY <1>13, <1>o, <1>s, <1>w DEF Preflight, PhaseKnown, Provisioning
  <2>2. CASE GoTo(At("createBootstrap", "none"))
    <3>1. ctl'.pc = "createBootstrap"
      BY <2>2, AtFacts, Literals DEF GoTo
    <3> QED
      BY <2>1, <3>1, <1>c DEF CreateSteps
  <2> QED
    BY <1>13, <2>1, <2>2, <1>cf DEF Preflight
<1>14. CASE AddMachineToCluster
  <2>1. ctl.pc \in CreateSteps /\ UNCHANGED sm
    BY <1>14 DEF AddMachineToCluster, CreateObject, CreateSteps
  <2>2. Owned' /\ sm.phase \in {"Unset", "Pending"} /\ sm.active = "yes"
    BY <2>1, <1>o, <1>s, <1>w DEF PhaseKnown, Provisioning, CreateSteps
  <2>3. \/ GoTo(At("createInfrastructure", "none")) \/ GoTo(At("createMachine", "none"))
        \/ GoTo(PatchPhase("none", "Active")) \/ GoTo(CreationFailed)
    BY <1>14 DEF AddMachineToCluster, CreateObject
  <2>4. CASE GoTo(At("createInfrastructure", "none")) \/ GoTo(At("createMachine", "none"))
    <3>1. ctl'.pc \in {"createInfrastructure", "createMachine"}
      BY <2>4, AtFacts, Literals DEF GoTo
    <3> QED
      BY <2>1, <2>2, <3>1, <1>c DEF CreateSteps
  <2>5. CASE GoTo(PatchPhase("none", "Active"))
    <3>1. "Active" \in Phases /\ "none" \in Tasks
      BY DEF Phases, Tasks
    <3>2. ctl'.pc = "patch" /\ ctl'.target = "Active" /\ ~ctl'.grace
      BY <2>5, <3>1, PatchFacts DEF GoTo
    <3> QED
      BY <2>1, <2>2, <3>2, <1>b, MoveFacts
  <2> QED
    BY <2>1, <2>2, <2>3, <2>4, <2>5, <1>cf
<1>15. CASE RemoveMachineFromCluster
  <2>1. ctl.pc \in DeleteSteps /\ UNCHANGED sm /\ ctl.task \in Tasks \ {"none"}
    BY <1>15, <1>0 DEF RemoveMachineFromCluster, DeleteObject, DeleteSteps, TaskKnown
  <2>2. Owned'
    BY <2>1, <1>o, <1>w DEF DeleteSteps
  <2>3. \/ ctl.task \in {"deletion", "kill"} /\ sm.phase \in Running
        \/ ctl.task = "shutdown" /\ sm.phase = "ShuttingDown" /\ sm.graceLeft = 0
        \/ ctl.task = "emergency" /\ sm.phase = "EmergencyRemove"
    BY <2>1, <1>s DEF PhaseKnown, EmergencySteps, Tasks
  <2>4. ASSUME NEW pc \in DeleteSteps, GoTo(At(pc, ctl.task)) PROVE Standing'
    <3>1. ctl'.pc = pc /\ ctl'.task = ctl.task
      BY <2>1, <2>4, AtFacts, Literals DEF GoTo
    <3> QED
      BY <2>1, <2>2, <2>3, <3>1, <1>d DEF EmergencySteps
  <2>5. CASE GoTo(AfterRemoval(ctl.task))
    <3>1. CASE ctl.task = "deletion"
      BY <2>2, <2>5, <3>1, <1>a, AtFacts, Literals DEF AfterRemoval, GoTo
    <3>2. CASE ctl.task = "kill"
      <4>1. "Terminated" \in Phases /\ "kill" \in Tasks
        BY DEF Phases, Tasks
      <4>2. ctl'.pc = "patch" /\ ctl'.target = "Terminated" /\ ~ctl'.grace
        BY <2>5, <3>2, <4>1, PatchFacts DEF AfterRemoval, GoTo
      <4> QED
        BY <2>1, <2>2, <4>2, <1>0, <1>b, MoveFacts
    <3>3. CASE ctl.task = "shutdown"
      <4>1. "Inactive" \in Phases /\ "shutdown" \in Tasks
        BY DEF Phases, Tasks
      <4>2. ctl'.pc = "patch" /\ ctl'.target = "Inactive" /\ ~ctl'.grace
        BY <2>5, <3>3, <4>1, PatchFacts DEF AfterRemoval, GoTo
      <4> QED
        BY <2>1, <2>2, <2>3, <3>3, <4>2, <1>b, MoveFacts
    <3>4. CASE ctl.task = "emergency"
      <4>1. ctl'.pc = "disable" /\ ctl'.task = "emergency"
        BY <2>5, <3>4, AtFacts, Literals DEF AfterRemoval, GoTo
      <4> QED
        BY <2>1, <2>2, <2>3, <3>4, <4>1, <1>d DEF EmergencySteps
    <3> QED
      BY <2>1, <3>1, <3>2, <3>3, <3>4 DEF Tasks
  <2>6. CASE RemovalFailed(ctl.task)
    <3>1. CASE ctl.task = "shutdown"
      <4>1. "Error" \in Phases /\ "shutdown" \in Tasks
        BY DEF Phases, Tasks
      <4>2. ctl'.pc = "patch" /\ ctl'.target = "Error" /\ ~ctl'.grace
        BY <2>6, <3>1, <4>1, PatchFacts DEF RemovalFailed, GoTo
      <4> QED
        BY <2>1, <2>2, <2>3, <3>1, <4>2, <1>b, MoveFacts
    <3> QED
      BY <2>1, <2>6, <3>1, <1>e DEF RemovalFailed
  <2>7. \/ GoTo(At("deleteBootstrap", ctl.task)) \/ GoTo(At("deleteInfrastructure", ctl.task))
        \/ GoTo(AfterRemoval(ctl.task)) \/ RemovalFailed(ctl.task)
    BY <1>15 DEF RemoveMachineFromCluster, DeleteObject
  <2> QED
    BY <2>4, <2>5, <2>6, <2>7 DEF DeleteSteps
<1>16. CASE CleanupTimesOut
  <2>1. UNCHANGED sm /\ sm.exists /\ sm.finalizer
    BY <1>16, <1>w DEF CleanupTimesOut, DeleteSteps
  <2>2. CASE GoTo(At("unfinalize", "deletion"))
    BY <2>1, <2>2, <1>a, <1>o, AtFacts, Literals DEF GoTo
  <2> QED
    BY <1>16, <2>1, <2>2, <1>e DEF CleanupTimesOut
<1>17. CASE Drain
  <2>1. UNCHANGED sm /\ sm.exists /\ sm.finalizer /\ ctl.task \in {"shutdown", "emergency"}
    BY <1>17, <1>w DEF Drain, TaskKnown
  <2>2. \/ ctl.task = "shutdown" /\ sm.phase = "ShuttingDown" /\ sm.graceLeft = 0
        \/ ctl.task = "emergency" /\ sm.phase = "EmergencyRemove"
    BY <1>17, <2>1, <1>s DEF Drain, PhaseKnown, EmergencySteps
  <2>3. CASE GoTo(At("deleteMachine", ctl.task))
    <3>1. ctl'.pc = "deleteMachine" /\ ctl'.task = ctl.task
      BY <2>3, <1>0, AtFacts, Literals DEF GoTo
    <3> QED
      BY <2>1, <2>2, <3>1, <1>d, <1>o DEF EmergencySteps, DeleteSteps
  <2> QED
    BY <1>17, <2>1, <2>3, <1>e DEF Drain
<1>18. CASE DisableSchedule
  <2>1. PICK a \in Answers :
          /\ sm' = IF Applied(a) THEN [sm EXCEPT !.enabled = FALSE] ELSE sm
          /\ GoTo(At("clear", "emergency")) \/ Fail
    BY <1>18 DEF DisableSchedule
  <2>2. sm.exists /\ sm.finalizer /\ sm.phase = "EmergencyRemove"
    BY <1>18, <1>w, <1>s DEF DisableSchedule, TaskKnown, PhaseKnown, EmergencySteps
  <2>3. sm'.exists /\ sm'.finalizer /\ sm'.phase = "EmergencyRemove"
    BY <2>1, <2>2, <1>0 DEF Object
  <2>4. Owned'
    BY <2>3 DEF Owned
  <2>5. CASE GoTo(At("clear", "emergency"))
    <3>1. ctl'.pc = "clear" /\ ctl'.task = "emergency"
      BY <2>5, AtFacts, Literals DEF GoTo
    <3> QED
      BY <2>3, <2>4, <3>1, <1>d DEF EmergencySteps
  <2>6. CASE Fail
    BY <2>4, <2>6, <1>a, IdleFacts DEF Fail
  <2> QED
    BY <2>1, <2>5, <2>6
<1>19. CASE ClearReclaimAnnotations
  <2>1. UNCHANGED sm /\ sm.exists /\ sm.finalizer /\ sm.phase = "EmergencyRemove"
    BY <1>19, <1>w, <1>s DEF ClearReclaimAnnotations, TaskKnown, PhaseKnown, EmergencySteps
  <2>2. "Disabled" \in Phases /\ "emergency" \in Tasks
    BY DEF Phases, Tasks
  <2>3. ctl'.pc = "patch" /\ ctl'.target = "Disabled" /\ ~ctl'.grace
    BY <1>19, <2>2, PatchFacts DEF ClearReclaimAnnotations, GoTo
  <2> QED
    BY <2>1, <2>3, <1>b, <1>o, MoveFacts
<1>20. CASE EnrichStatus
  <2>1. sm' \in {sm, [sm EXCEPT !.nodeRef = TRUE]} /\ ctl' = Idle
    BY <1>20 DEF EnrichStatus, Succeed
  <2>2. sm.exists /\ sm.finalizer
    BY <1>20, <1>w DEF EnrichStatus
  <2>3. Owned'
    BY <2>1, <2>2, <1>0, <1>s DEF Owned, Object
  <2> QED
    BY <2>1, <2>3, <1>a, IdleFacts
<1>21. CASE Crash
  BY <1>21, <1>e DEF Crash
<1>22. CASE UserEdits
  <2>1. CASE sm' = NoObject /\ ~sm.finalizer
    <3>1. Owned' /\ ctl'.pc \in {"idle", "finalize"}
      BY <1>22, <2>1, <1>s DEF UserEdits, Owned, NoObject
    <3> QED
      BY <3>1, <1>a
  <2>2. CASE /\ sm' \in {[sm EXCEPT !.enabled = ~@], [sm EXCEPT !.killSwitch = ~@],
                         [sm EXCEPT !.valid = ~@], [sm EXCEPT !.deleting = TRUE]}
             /\ sm'.deleting => sm.finalizer
    <3>1. /\ sm'.exists = sm.exists /\ sm'.finalizer = sm.finalizer /\ sm'.phase = sm.phase
          /\ sm'.graceLeft = sm.graceLeft /\ sm'.nodeRef = sm.nodeRef
          /\ sm'.resolved = sm.resolved /\ sm'.active = sm.active
      BY <2>2, <1>0 DEF Object
    <3>2. ctl' = ctl /\ sm.exists
      BY <1>22 DEF UserEdits
    <3> QED
      BY <2>2, <3>1, <3>2, <1>s
         DEF Standing, Owned, SnapshotCurrent, PhaseKnown, Provisioning
  <2> QED
    BY <1>22, <2>1, <2>2, <1>0, <1>s DEF UserEdits, Edits, Owned, Object
<1>23. CASE AgentRequestsReclaim \/ NodeJoins \/ NodeLeaves \/ GarbageCollect
  BY <1>23, <1>u DEF AgentRequestsReclaim, NodeJoins, NodeLeaves, GarbageCollect
<1>24. ASSUME NEW k \in Kinds, TeardownEnds(k) PROVE Standing'
  BY <1>24, <1>u DEF TeardownEnds
<1>25. CASE Tick
  <2>1. /\ sm'.exists = sm.exists /\ sm'.finalizer = sm.finalizer /\ sm'.phase = sm.phase
        /\ sm'.deleting = sm.deleting /\ sm'.nodeRef = sm.nodeRef
        /\ sm'.resolved = sm.resolved /\ sm'.active = sm.active
    BY <1>25, <1>0 DEF Tick, Aged, Object
  <2>2. sm'.graceLeft = IF sm.graceLeft > 0 THEN sm.graceLeft - 1 ELSE 0
    BY <1>25, <1>0, AgedFacts DEF Tick
  <2>3. /\ ctl'.pc = ctl.pc /\ ctl'.task = ctl.task /\ ctl'.target = ctl.target
        /\ ctl'.grace = ctl.grace /\ ctl'.obj = Aged(ctl.obj)
    BY <1>25, <1>0 DEF Tick, Control
  <2>4. /\ ctl'.obj.phase = ctl.obj.phase /\ ctl'.obj.nodeRef = ctl.obj.nodeRef
        /\ ctl'.obj.resolved = ctl.obj.resolved /\ ctl'.obj.active = ctl.obj.active
        /\ ctl'.obj.graceLeft = IF ctl.obj.graceLeft > 0 THEN ctl.obj.graceLeft - 1 ELSE 0
    <3>1. /\ Aged(ctl.obj).phase = ctl.obj.phase /\ Aged(ctl.obj).nodeRef = ctl.obj.nodeRef
          /\ Aged(ctl.obj).resolved = ctl.obj.resolved /\ Aged(ctl.obj).active = ctl.obj.active
      BY <1>0 DEF Aged, Object
    <3> QED
      BY <2>3, <3>1, <1>0, AgedFacts
  <2>5. Owned'
    <3>1. sm.exists
      BY <1>25, <1>s DEF Tick, Owned, NoObject
    <3> QED
      BY <2>1, <2>3, <3>1, <1>s DEF Owned
  <2>6. SnapshotCurrent'
    BY <2>1, <2>2, <2>3, <2>4, <1>s DEF SnapshotCurrent
  <2>7. PhaseKnown'
    <3>1. sm.graceLeft = 0 => sm'.graceLeft = 0
      BY <2>2
    <3>2. Provisioning' <=> Provisioning
      BY <2>3 DEF Provisioning
    <3>3. Lifecycle!MayMove(sm'.phase, ctl'.target) <=> Lifecycle!MayMove(sm.phase, ctl.target)
      BY <2>1, <2>3
    <3> QED
      BY <2>1, <2>3, <3>1, <3>2, <3>3, <1>s DEF PhaseKnown
  <2> QED
    BY <2>5, <2>6, <2>7 DEF Standing
<1>26. CASE Gone
  BY <1>26, <1>2 DEF Gone
<1> QED
  BY <1>1, <1>2, <1>3, <1>4, <1>5, <1>6, <1>7, <1>8, <1>9, <1>10, <1>11, <1>12, <1>13,
     <1>14, <1>15, <1>16, <1>17, <1>18, <1>19, <1>20, <1>21, <1>22, <1>23, <1>24, <1>25,
     <1>26 DEF Next, Reconcile, Capi

\* The controller's place, the resource and the snapshot agree in every state.
LEMMA StandingAlways ==
  ASSUME ~CacheLag PROVE Spec => [](TypeOK /\ TaskKnown /\ Standing)
<1>1. Init => Standing
  BY IdleStands, IdleFacts DEF Init, Owned, NewObject, NoObject
<1>2. Init => TypeOK /\ TaskKnown
  BY InitTypes
<1>3. ASSUME TypeOK, TaskKnown, Standing, [Next]_vars
      PROVE  (TypeOK /\ TaskKnown /\ Standing)'
  BY <1>3, TypeStep, StandingStep
<1> QED
  BY <1>1, <1>2, <1>3, PTL DEF Spec

\* Without stale reads the persisted verdict stands behind every provisioning
\* and every closing of a window, for any number of edits, faults and crashes.
THEOREM VerdictBehindActionHolds ==
  ASSUME ~CacheLag PROVE Spec => []VerdictBehindAction
<1>1. Standing => VerdictBehindAction
  BY DEF Standing, PhaseKnown, VerdictBehindAction
<1> QED
  BY <1>1, StandingAlways, PTL

(***************************************************************************)
(* The grace period of a closed window.                                    *)
(***************************************************************************)
LEMMA GraceStep ==
  ASSUME TypeOK, TypeOK', Standing, GraceBooked, [Next]_vars
  PROVE  GraceBooked'
<1>0. /\ sm \in Object /\ sm.graceLeft \in Nat /\ shut.age \in Nat /\ GraceTimeout \in Nat
      /\ ctl \in Control /\ Owned /\ PhaseKnown
  BY ConstantsAssumption DEF ConstantsAssumption, TypeOK, Object, Standing
<1>a. ASSUME UNCHANGED shut, ~sm'.exists \/ (/\ sm'.exists = sm.exists /\ sm'.phase = sm.phase
                                            /\ sm'.graceLeft = sm.graceLeft)
      PROVE  GraceBooked'
  BY <1>a DEF GraceBooked
<1>1. CASE UpdatePhase
  <2>1. PICK a \in Answers :
          /\ sm' = IF Applied(a) THEN WithPhase(sm, ctl.target, ctl.grace) ELSE sm
          /\ shut' = IF Applied(a) THEN ShutAfter(ctl.target, ctl.grace) ELSE shut
    BY <1>1 DEF UpdatePhase
  <2>2. CASE ~Applied(a)
    BY <2>1, <2>2, <1>a
  <2>3. CASE Applied(a) /\ ctl.target = "ShuttingDown" /\ ctl.grace
    <3>1. shut'.age = 0
      BY <2>1, <2>3 DEF ShutAfter
    <3>2. sm'.phase = "ShuttingDown" /\ sm'.graceLeft = GraceTimeout
      BY <2>1, <2>3, <1>0 DEF WithPhase, Object
    <3> QED
      BY <3>1, <3>2, <1>0 DEF GraceBooked
  <2>4. CASE Applied(a) /\ ~(ctl.target = "ShuttingDown" /\ ctl.grace)
    BY <2>1, <2>4 DEF ShutAfter, GraceBooked
  <2> QED
    BY <2>2, <2>3, <2>4
<1>2. CASE Tick
  <2>1. /\ sm'.exists = sm.exists /\ sm'.phase = sm.phase
        /\ shut'.cause = shut.cause /\ shut'.age = shut.age + 1
    BY <1>2, <1>0 DEF Tick, Aged, Object, TypeOK
  <2>2. sm'.graceLeft = IF sm.graceLeft > 0 THEN sm.graceLeft - 1 ELSE 0
    BY <1>2, <1>0, AgedFacts DEF Tick
  <2> QED
    BY <1>2, <2>1, <2>2, <1>0 DEF Tick, GraceBooked
<1>3. CASE AddFinalizer \/ DisableSchedule \/ EnrichStatus
  <2>1. UNCHANGED shut /\ sm'.exists = sm.exists /\ sm'.phase = sm.phase
        /\ sm'.graceLeft = sm.graceLeft
    BY <1>3, <1>0 DEF AddFinalizer, DisableSchedule, EnrichStatus, Object
  <2> QED
    BY <2>1, <1>a
<1>4. CASE RemoveFinalizer
  <2>1. UNCHANGED shut /\ sm' \in {sm, NoObject}
    BY <1>4 DEF RemoveFinalizer
  <2> QED
    BY <2>1, <1>a, NoObjectFacts
<1>5. CASE ResolveSchedule
  <2>1. PICK verdict \in Verdicts : sm' \in {sm, PersistSpotSchedule(ctl.obj, verdict)}
    BY <1>5 DEF ResolveSchedule
  <2>2. ctl.obj \in Object /\ ctl.obj.active = sm.active
    BY <1>5, <1>0 DEF ResolveSchedule, Standing, SnapshotCurrent, Control
  <2>3. sm'.exists = sm.exists /\ sm'.phase = sm.phase /\ sm'.graceLeft = sm.graceLeft
    <3> DEFINE p == PersistSpotSchedule(ctl.obj, verdict)
    <3>1. p.exists = sm.exists /\ p.phase = sm.phase /\ p.graceLeft = sm.graceLeft
      BY <2>2, PersistHolds
    <3> HIDE DEF p
    <3>2. sm' = sm \/ sm' = p
      BY <2>1 DEF p
    <3> QED
      BY <3>1, <3>2
  <2> QED
    BY <1>5, <2>3, <1>a DEF ResolveSchedule
<1>6. CASE UserEdits
  <2>1. sm' = NoObject \/ (/\ sm'.exists = sm.exists /\ sm'.phase = sm.phase
                           /\ sm'.graceLeft = sm.graceLeft)
    BY <1>6, <1>0 DEF UserEdits, Edits, Object
  <2>2. NoObject.exists = FALSE /\ UNCHANGED shut
    BY <1>6, NoObjectFacts DEF UserEdits
  <2> QED
    BY <2>1, <2>2, <1>a
<1>7. CASE UNCHANGED <<sm, shut>>
  BY <1>7, <1>a
<1> QED
  <2>1. \/ UpdatePhase \/ Tick \/ AddFinalizer \/ DisableSchedule \/ EnrichStatus
        \/ RemoveFinalizer \/ ResolveSchedule \/ UserEdits \/ UNCHANGED <<sm, shut>>
    BY DEF Next, Reconcile, Capi, Observe, StartDeletion, StartFinalizer, RejectSpec,
       StartKillSwitch, StartInner, Outside, CheckEmergencyReclaim, Preflight,
       AddMachineToCluster, CreateObject, RemoveMachineFromCluster, DeleteObject,
       CleanupTimesOut, Drain, ClearReclaimAnnotations, Crash, AgentRequestsReclaim,
       NodeJoins, NodeLeaves, TeardownEnds, GarbageCollect, Gone, vars
  <2> QED
    BY <2>1, <1>1, <1>2, <1>3, <1>4, <1>5, <1>6, <1>7

\* Without stale reads, a shutdown caused by a closed window deletes the CAPI
\* objects only after the whole grace period, for every timeout.
THEOREM GraceForClosedWindowHolds ==
  ASSUME ~CacheLag PROVE Spec => []GraceForClosedWindow
<1>1. Init => GraceBooked
  BY DEF Init, GraceBooked
<1>2. ASSUME TypeOK, TypeOK', Standing, GraceBooked, [Next]_vars PROVE GraceBooked'
  BY <1>2, GraceStep
<1>3. TypeOK /\ Standing /\ GraceBooked => GraceForClosedWindow
  <2> SUFFICES ASSUME TypeOK, Standing, GraceBooked, RemovingAfterShutdown,
                      shut.cause = "window"
               PROVE  shut.age = GraceTimeout
    BY DEF GraceForClosedWindow
  <2>1. sm.exists /\ sm.graceLeft = 0
    BY DEF RemovingAfterShutdown, Standing, Owned, PhaseKnown, EmergencySteps, DeleteSteps
  <2>2. shut.age \in Nat
    BY ConstantsAssumption DEF ConstantsAssumption, TypeOK
  <2> QED
    BY <2>1, <2>2 DEF GraceBooked
<1> QED
  BY <1>1, <1>2, <1>3, StandingAlways, PTL DEF Spec

(***************************************************************************)
(* The emergency reclaim.                                                  *)
(***************************************************************************)

(***************************************************************************)
(* The emergency reclaim.                                                  *)
(***************************************************************************)
\* Every step keeps the Node recorded while the emergency flow needs it.
LEMMA NodeRecordedStep ==
  ASSUME ~CacheLag, TypeOK, TypeOK', TaskKnown, Standing, Standing', NodeRecorded, [Next]_vars
  PROVE  NodeRecorded'
<1>0. sm \in Object /\ ctl \in Control /\ Owned /\ Owned' /\ SnapshotCurrent /\ ctl.task \in Tasks
  BY DEF TypeOK, Standing, Control
<1>1. CASE ctl'.pc \notin EmergencySteps \cup {"patch"} \/ ctl'.task # "emergency"
  BY <1>1 DEF NodeRecorded
<1>2. CASE ctl'.pc \in EmergencySteps \cup {"patch"} /\ ctl'.task = "emergency"
  <2>0. ctl' # Idle
    BY <1>2, IdleFacts
  <2>1. CASE CheckEmergencyReclaim
    <3>1. ctl.pc = "reclaim" /\ sm' = sm /\ ctl.obj.nodeRef = sm.nodeRef
      BY <2>1, <1>0 DEF CheckEmergencyReclaim, SnapshotCurrent
    <3>2. ctl' # [ctl EXCEPT !.pc = "resolve"]
      BY <1>2, <1>0 DEF Control, EmergencySteps, DeleteSteps
    <3> QED
      BY <2>0, <2>1, <3>1, <3>2 DEF CheckEmergencyReclaim, GoTo, Fail, AfterReclaimCheck, NodeRecorded
  <2>2. ASSUME ctl.pc \in EmergencySteps \cup {"patch"}, ctl.task = "emergency",
               sm'.nodeRef = sm.nodeRef
        PROVE  NodeRecorded'
    BY <2>2 DEF NodeRecorded
  <2>3. CASE UpdatePhase
    <3>1. ctl.pc = "patch" /\ ctl.task = "emergency"
      BY <2>0, <2>3 DEF UpdatePhase, AfterPatch, Succeed, Fail
    <3>2. sm'.nodeRef = sm.nodeRef
      BY <2>3, <1>0 DEF UpdatePhase, WithPhase, Object
    <3> QED
      BY <3>1, <3>2, <2>2
  <2>4. CASE RemoveMachineFromCluster
    <3>1. ctl.pc \in DeleteSteps /\ sm' = sm /\ ctl.task \in Tasks \ {"none"}
      BY <2>4, <1>0 DEF RemoveMachineFromCluster, DeleteObject, DeleteSteps, TaskKnown
    <3>2. \/ ctl' = At("deleteBootstrap", ctl.task) \/ ctl' = At("deleteInfrastructure", ctl.task)
          \/ ctl' = AfterRemoval(ctl.task)
          \/ ctl' = PatchPhase("shutdown", "Error")
      BY <2>0, <2>4 DEF RemoveMachineFromCluster, DeleteObject, RemovalFailed, Fail, GoTo
    <3>3. ctl' # PatchPhase("shutdown", "Error")
      <4>1. "shutdown" \in Tasks /\ "Error" \in Phases
        BY DEF Tasks, Phases
      <4> QED
        BY <1>2, <4>1, PatchFacts
    <3>4. ctl'.task = ctl.task
      BY <3>1, <3>2, <3>3, AtFacts, RemovalFacts, Literals
    <3> QED
      BY <1>2, <3>1, <3>4, <2>2 DEF EmergencySteps
  <2>5. CASE Drain
    <3>1. ctl.pc = "drain" /\ sm' = sm /\ ctl' = At("deleteMachine", ctl.task)
      BY <2>0, <2>5 DEF Drain, GoTo, Fail
    <3>2. ctl'.task = ctl.task
      BY <3>1, <1>0, AtFacts, Literals
    <3> QED
      BY <1>2, <3>1, <3>2, <2>2 DEF EmergencySteps
  <2>6. CASE DisableSchedule \/ ClearReclaimAnnotations
    <3>1. ctl.pc \in {"disable", "clear"} /\ ctl.task = "emergency"
      BY <2>6 DEF DisableSchedule, ClearReclaimAnnotations, TaskKnown
    <3>2. sm'.nodeRef = sm.nodeRef
      BY <2>6, <1>0 DEF DisableSchedule, ClearReclaimAnnotations, Object
    <3> QED
      BY <3>1, <3>2, <2>2 DEF EmergencySteps
  <2>7. CASE UserEdits
    <3>1. ctl' = ctl /\ (sm' = NoObject => ~sm.finalizer)
      BY <2>7, <1>0 DEF UserEdits, Edits, NoObject, Object
    <3>2. sm.finalizer
      BY <1>2, <3>1, <1>0 DEF Owned, EmergencySteps, DeleteSteps
    <3>3. sm'.nodeRef = sm.nodeRef
      BY <2>7, <3>1, <3>2, <1>0 DEF UserEdits, Edits, Object
    <3> QED
      BY <1>2, <3>1, <3>3, <2>2
  <2>8. CASE Tick
    <3>1. ctl'.pc = ctl.pc /\ ctl'.task = ctl.task /\ sm'.nodeRef = sm.nodeRef
      BY <2>8, <1>0 DEF Tick, Aged, Object, Control
    <3> QED
      BY <1>2, <3>1, <2>2
  <2>9. CASE UNCHANGED <<sm, ctl>>
    BY <1>2, <2>9, <2>2
  <2>10. CASE StartDeletion \/ StartFinalizer \/ StartKillSwitch \/ CleanupTimesOut
    <3>1. \/ ctl' = At("deleteMachine", "deletion") \/ ctl' = At("unfinalize", "deletion")
          \/ ctl' = At("finalize", "none") \/ ctl' = At("deleteMachine", "kill")
          \/ ctl' = PatchPhase("kill", "Terminated")
      BY <2>0, <2>10 DEF StartDeletion, StartFinalizer, StartKillSwitch, CleanupTimesOut,
         HandleDeletion, HandleKillSwitch, Proceed, GoTo, Succeed, Fail
    <3>2. "kill" \in Tasks /\ "Terminated" \in Phases
      BY DEF Tasks, Phases
    <3> QED
      BY <1>2, <3>1, <3>2, AtFacts, PatchFacts, Literals
  <2>11. CASE StartInner
    <3>1. ctl'.pc = "reclaim"
      BY <2>11, AtFacts, Literals DEF StartInner, GoTo, Control
    <3> QED
      BY <1>2, <3>1 DEF EmergencySteps, DeleteSteps
  <2>12. CASE Preflight \/ AddMachineToCluster
    <3>1. \/ ctl' = At("createBootstrap", "none") \/ ctl' = At("createInfrastructure", "none")
          \/ ctl' = At("createMachine", "none") \/ ctl' = PatchPhase("none", "Active")
          \/ ctl' = PatchPhase("none", "Error")
      BY <2>12 DEF Preflight, AddMachineToCluster, CreateObject, CreationFailed, GoTo
    <3>2. "none" \in Tasks /\ "Active" \in Phases /\ "Error" \in Phases
      BY DEF Tasks, Phases
    <3>3. ctl'.task = "none"
      <4>1. ASSUME NEW pc \in {"createBootstrap", "createInfrastructure", "createMachine"}
            PROVE  At(pc, "none").task = "none"
        BY <3>2, AtFacts, Literals
      <4>2. ASSUME NEW target \in {"Active", "Error"} PROVE PatchPhase("none", target).task = "none"
        BY <3>2, PatchFacts
      <4> QED
        BY <3>1, <4>1, <4>2
    <3> QED
      BY <1>2, <3>3
  <2>13. CASE ResolveSchedule
    <3>1. PICK verdict \in Verdicts :
            Proceed(PhaseHandler(ctl.obj, ShouldBeActive(ctl.obj, verdict))) \/ Fail
      BY <2>13 DEF ResolveSchedule
    <3>2. ctl.obj \in Object /\ ShouldBeActive(ctl.obj, verdict) \in BOOLEAN
      BY <1>0 DEF Control, ShouldBeActive
    <3>3. ctl' = PhaseHandler(ctl.obj, ShouldBeActive(ctl.obj, verdict))
      BY <2>0, <3>1 DEF Proceed, Succeed, Fail, GoTo
    <3> QED
      BY <1>2, <3>2, <3>3, HandlerFacts
  <2>14. CASE ctl' = Idle
    BY <2>0, <2>14
  <2>15. \/ RejectSpec \/ AddFinalizer \/ RemoveFinalizer \/ EnrichStatus \/ Crash
         => ctl' = Idle
    BY DEF RejectSpec, AddFinalizer, RemoveFinalizer, EnrichStatus, Crash, Succeed,
       SucceedEarly, Fail
  <2>16. \/ Observe \/ AgentRequestsReclaim \/ NodeJoins \/ NodeLeaves \/ GarbageCollect \/ Gone
         \/ (\E k \in Kinds : TeardownEnds(k)) \/ UNCHANGED vars
         => UNCHANGED <<sm, ctl>>
    BY DEF Observe, AgentRequestsReclaim, NodeJoins, NodeLeaves, GarbageCollect, Gone,
       TeardownEnds, vars
  <2> QED
    BY <2>1, <2>3, <2>4, <2>5, <2>6, <2>7, <2>8, <2>9, <2>10, <2>11, <2>12, <2>13, <2>14,
       <2>15, <2>16 DEF Next, Reconcile, Capi
<1> QED
  BY <1>1, <1>2

\* Every step keeps the bookkeeping of a reclaimed resource.
LEMMA EjectionStep ==
  ASSUME ~CacheLag, TypeOK, TypeOK', TaskKnown, Standing, Standing', NodeRecorded,
         EjectionBooked, [Next]_vars
  PROVE  EjectionBooked'
<1> SUFFICES ASSUME ejected' = "yes", sm'.exists PROVE EjectionHeld'
  BY DEF EjectionBooked
<1>0. /\ sm \in Object /\ sm' \in Object /\ ctl \in Control /\ ctl.obj \in Object
      /\ node \in Node /\ sm.phase \in Phases /\ ctl.task \in Tasks
      /\ Owned /\ SnapshotCurrent /\ PhaseKnown
  BY DEF TypeOK, Standing, Control, Object
\* What a step needs to show, by what it does to the controller.
<1>a. ASSUME EjectionHeld, UNCHANGED node, sm'.phase = sm.phase, sm'.nodeRef = sm.nodeRef,
             sm'.enabled => sm.enabled,
             ctl'.pc \notin {"reclaim", "resolve", "clear", "patch"}
      PROVE  EjectionHeld'
  BY <1>a DEF EjectionHeld
<1>b. ASSUME EjectionHeld, UNCHANGED node, sm' = sm, ctl'.pc = "patch",
             ctl'.target \in Reclaimed, ctl'.target = "Disabled" => ~sm.enabled
      PROVE  EjectionHeld'
  BY <1>b DEF EjectionHeld
<1>c. ASSUME EjectionHeld, UNCHANGED <<sm, ctl, node>> PROVE EjectionHeld'
  BY <1>c DEF EjectionHeld
<1>1. CASE RemoveMachineFromCluster
  <2>1. ctl.pc \in DeleteSteps /\ UNCHANGED <<sm, node>> /\ ctl.task \in Tasks \ {"none"}
    BY <1>1, <1>0 DEF RemoveMachineFromCluster, DeleteObject, DeleteSteps, TaskKnown
  <2>2. CASE ejected = "yes" /\ EjectionHeld
    <3>1. sm.phase \in Reclaimed
      BY <2>2 DEF EjectionHeld
    <3>2. ctl.task = "emergency"
      BY <2>1, <3>1, <1>0 DEF PhaseKnown, EmergencySteps, Running, Reclaimed, Tasks
    <3>3. ctl' = Idle \/ \E pc \in {"deleteBootstrap", "deleteInfrastructure", "disable"} :
                             ctl' = At(pc, "emergency")
      BY <1>1, <3>2 DEF RemoveMachineFromCluster, DeleteObject, RemovalFailed, AfterRemoval,
         GoTo, Fail
    <3>4. ctl'.pc \in {"idle", "deleteBootstrap", "deleteInfrastructure", "disable"}
      BY <3>3, IdleFacts, AtFacts, Literals
    <3> QED
      BY <2>1, <2>2, <3>4, <1>a
  <2>3. CASE ejected # "yes"
    <3>1. ctl.pc = "deleteMachine" /\ ctl.task = "emergency" /\ EjectedNow = "yes"
      BY <1>1, <2>3 DEF RemoveMachineFromCluster, DeleteObject
    <3>2. sm.phase = "EmergencyRemove" /\ sm.nodeRef
      BY <3>1, <1>0 DEF PhaseKnown, EmergencySteps, DeleteSteps, NodeRecorded
    <3>3. sm.enabled => node.exists /\ node.reclaim
      BY <3>1 DEF EjectedNow
    <3>4. ctl' = Idle \/ ctl' = At("deleteBootstrap", "emergency")
      BY <1>1, <3>1 DEF RemoveMachineFromCluster, DeleteObject, RemovalFailed, GoTo, Fail
    <3>5. ctl'.pc \in {"idle", "deleteBootstrap"}
      BY <3>4, IdleFacts, AtFacts, Literals
    <3> QED
      BY <2>1, <3>2, <3>3, <3>5 DEF EjectionHeld, Reclaimed
  <2>4. sm.exists
    BY <2>1
  <2> QED
    BY <2>2, <2>3, <2>4 DEF EjectionBooked
\* Everywhere else the resource was reclaimed before.
<1>2. CASE ~RemoveMachineFromCluster
  <2>1. ejected = "yes"
    <3>1. StartDeletion \/ StartFinalizer \/ RejectSpec \/ StartKillSwitch \/ StartInner
            \/ AddFinalizer \/ RemoveFinalizer => ejected' = ejected
      BY DEF StartDeletion, StartFinalizer, RejectSpec, StartKillSwitch, StartInner, Outside,
         AddFinalizer, RemoveFinalizer
    <3>2. UpdatePhase \/ CheckEmergencyReclaim \/ ResolveSchedule \/ Preflight
            \/ AddMachineToCluster \/ CleanupTimesOut \/ Drain => ejected' \in {ejected, "no"}
      BY DEF UpdatePhase, CheckEmergencyReclaim, ResolveSchedule, Preflight, Outside,
         AddMachineToCluster, CreateObject, CleanupTimesOut, Drain
    <3>3. DisableSchedule \/ ClearReclaimAnnotations \/ EnrichStatus \/ Observe \/ Crash
            => ejected' = ejected
      BY DEF DisableSchedule, ClearReclaimAnnotations, EnrichStatus, Observe, Outside, Crash
    <3>4. UserEdits \/ AgentRequestsReclaim \/ Capi \/ Tick \/ Gone
            => ejected' \in {ejected, "no"}
      BY DEF UserEdits, AgentRequestsReclaim, Capi, NodeJoins, NodeLeaves, TeardownEnds,
         GarbageCollect, Tick, Gone, vars
    <3> QED
      BY <1>2, <3>1, <3>2, <3>3, <3>4 DEF Next, Reconcile, vars
  <2>2. sm.exists
    <3> SUFFICES ASSUME ~sm.exists PROVE sm' = sm
      OBVIOUS
    <3>1. ctl.pc \in {"idle", "finalize"} /\ sm.phase = "Unset"
      <4>1. ctl.pc \in {"idle", "finalize"} /\ sm = NoObject
        BY <1>0 DEF Owned
      <4> QED
        BY <4>1, NoObjectFacts
    <3>2. StartDeletion \/ StartFinalizer \/ RejectSpec \/ StartKillSwitch \/ StartInner
            \/ AddFinalizer \/ RemoveFinalizer => sm' = sm
      BY <3>1 DEF StartDeletion, StartFinalizer, RejectSpec, StartKillSwitch, StartInner,
         Outside, AddFinalizer, Applied, RemoveFinalizer
    <3>3. UpdatePhase \/ CheckEmergencyReclaim \/ ResolveSchedule \/ Preflight
            \/ AddMachineToCluster \/ CleanupTimesOut \/ Drain => sm' = sm
      BY <3>1 DEF UpdatePhase, CheckEmergencyReclaim, ResolveSchedule, Preflight, Outside,
         AddMachineToCluster, CreateObject, CleanupTimesOut, DeleteSteps, Drain
    <3>4. DisableSchedule \/ ClearReclaimAnnotations \/ EnrichStatus \/ Observe \/ Crash
            => sm' = sm
      BY <3>1 DEF DisableSchedule, ClearReclaimAnnotations, EnrichStatus, Observe, Outside,
         Crash
    <3>5. UserEdits \/ AgentRequestsReclaim \/ Capi \/ Tick \/ Gone => sm' = sm
      BY <3>1 DEF UserEdits, AgentRequestsReclaim, Capi, NodeJoins, NodeLeaves,
         TeardownEnds, GarbageCollect, Tick, Gone, vars
    <3> QED
      BY <1>2, <3>2, <3>3, <3>4, <3>5 DEF Next, Reconcile, vars
  <2>3. EjectionHeld
    BY <2>1, <2>2 DEF EjectionBooked
  <2>4. sm.phase \in Reclaimed
    BY <2>3 DEF EjectionHeld
  <2>5. CASE UNCHANGED <<sm, node>> /\ ctl' = Idle
    BY <2>3, <2>5, <1>a, IdleFacts
  <2>6. RejectSpec \/ Crash => UNCHANGED <<sm, node>> /\ ctl' = Idle
    BY DEF RejectSpec, Outside, Fail, Crash
  <2>7. CASE StartDeletion \/ StartFinalizer \/ CleanupTimesOut
    <3>1. /\ UNCHANGED <<sm, node>>
          /\ \/ ctl' = At("deleteMachine", "deletion") \/ ctl' = At("unfinalize", "deletion")
             \/ ctl' = At("finalize", "none") \/ ctl' = Idle
      BY <2>7 DEF StartDeletion, StartFinalizer, CleanupTimesOut, HandleDeletion, GoTo, Fail,
         Outside
    <3>2. ctl'.pc \in {"deleteMachine", "unfinalize", "finalize", "idle"}
      BY <3>1, AtFacts, IdleFacts, Literals
    <3> QED
      BY <2>3, <3>1, <3>2, <1>a
  <2>8. CASE StartKillSwitch
    <3>1. /\ UNCHANGED <<sm, node>>
          /\ ctl' = Idle \/ ctl' = PatchPhase("kill", "Terminated") \/ ctl' = At("deleteMachine", "kill")
      BY <2>8 DEF StartKillSwitch, HandleKillSwitch, Proceed, GoTo, Succeed, Outside
    <3>2. "kill" \in Tasks /\ "Terminated" \in Phases /\ "Terminated" \in Reclaimed
      BY DEF Tasks, Phases, Reclaimed
    <3>3. CASE ctl' = PatchPhase("kill", "Terminated")
      <4>1. ctl'.pc = "patch" /\ ctl'.target = "Terminated"
        BY <3>2, <3>3, PatchFacts
      <4> QED
        BY <2>3, <3>1, <3>2, <4>1, <1>b
    <3>4. CASE ctl' = At("deleteMachine", "kill")
      <4>1. ctl'.pc = "deleteMachine"
        BY <3>2, <3>4, AtFacts, Literals
      <4> QED
        BY <2>3, <3>1, <4>1, <1>a
    <3> QED
      BY <3>1, <3>3, <3>4, <2>5
  <2>9. CASE StartInner
    <3>1. UNCHANGED <<sm, node>> /\ ctl'.pc = "reclaim" /\ ctl'.obj = sm
      BY <2>9, AtFacts, Literals DEF StartInner, GoTo, Control, Outside, Seen
    <3> QED
      BY <2>3, <3>1 DEF EjectionHeld
  <2>10. CASE AddFinalizer \/ EnrichStatus \/ RemoveFinalizer
    <3>1. UNCHANGED node /\ ctl' = Idle
      BY <2>10 DEF AddFinalizer, EnrichStatus, RemoveFinalizer, Succeed, SucceedEarly, Fail
    <3>2. sm'.phase = sm.phase /\ sm'.enabled = sm.enabled /\ (sm.nodeRef => sm'.nodeRef)
      BY <2>10, <1>0 DEF AddFinalizer, EnrichStatus, RemoveFinalizer, NoObject, Object
    <3> QED
      BY <2>3, <3>1, <3>2, IdleFacts DEF EjectionHeld
  <2>11. CASE UpdatePhase
    <3>1. ctl.pc = "patch" /\ UNCHANGED node
      BY <2>11 DEF UpdatePhase
    <3>2. ctl.target \in Reclaimed /\ (ctl.target = "Disabled" => ~sm.enabled)
      BY <2>3, <3>1 DEF EjectionHeld
    <3>3. sm'.phase \in {sm.phase, ctl.target} /\ sm'.enabled = sm.enabled /\ sm'.nodeRef = sm.nodeRef
      BY <2>11, <1>0 DEF UpdatePhase, WithPhase, Object
    <3>4. ctl' = Idle \/ ctl' = At("drain", "emergency")
      BY <2>11 DEF UpdatePhase, AfterPatch, GoTo, Succeed, Fail
    <3>5. ctl'.pc \in {"idle", "drain"}
      BY <3>4, AtFacts, IdleFacts, Literals
    <3> QED
      BY <2>3, <3>1, <3>2, <3>3, <3>5 DEF EjectionHeld
  <2>12. CASE CheckEmergencyReclaim
    <3>1. ctl.pc = "reclaim" /\ UNCHANGED <<sm, node>> /\ ctl.obj.nodeRef = sm.nodeRef
      BY <2>12, <1>0 DEF CheckEmergencyReclaim, SnapshotCurrent
    <3>2. "emergency" \in Tasks /\ "EmergencyRemove" \in Phases /\ "EmergencyRemove" \in Reclaimed
      BY DEF Tasks, Phases, Reclaimed
    <3>3. CASE ctl' = PatchPhase("emergency", "EmergencyRemove")
      <4>1. ctl'.pc = "patch" /\ ctl'.target = "EmergencyRemove"
        BY <3>2, <3>3, PatchFacts
      <4> QED
        BY <2>3, <3>1, <3>2, <4>1, <1>b
    <3>4. CASE ctl' = [ctl EXCEPT !.pc = "resolve"] /\ ~(ctl.obj.nodeRef /\ node.exists /\ node.reclaim)
      <4>1. ctl'.pc = "resolve" /\ ctl'.obj = ctl.obj
        BY <3>4, <1>0 DEF Control
      <4>2. ~sm.enabled
        BY <2>3, <3>1, <3>4 DEF EjectionHeld
      <4> QED
        BY <2>3, <3>1, <4>1, <4>2 DEF EjectionHeld
    <3> QED
      BY <2>12, <3>1, <3>3, <3>4, <2>5 DEF CheckEmergencyReclaim, AfterReclaimCheck, GoTo, Fail
  <2>13. CASE ResolveSchedule
    <3>1. PICK verdict \in Verdicts :
            /\ sm' \in {sm, PersistSpotSchedule(ctl.obj, verdict)}
            /\ Proceed(PhaseHandler(ctl.obj, ShouldBeActive(ctl.obj, verdict))) \/ Fail
      BY <2>13 DEF ResolveSchedule
    <3>2. /\ ctl.pc = "resolve" /\ UNCHANGED node
          /\ ctl.obj.phase = sm.phase /\ ctl.obj.active = sm.active
      BY <2>13, <1>0 DEF ResolveSchedule, SnapshotCurrent
    <3>3. sm'.phase = sm.phase /\ sm'.enabled = sm.enabled /\ sm'.nodeRef = sm.nodeRef
      <4> DEFINE p == PersistSpotSchedule(ctl.obj, verdict)
      <4>1. p.phase = sm.phase /\ p.enabled = sm.enabled /\ p.nodeRef = sm.nodeRef
        BY <3>2, <1>0, PersistHolds
      <4> HIDE DEF p
      <4> QED
        BY <3>1, <4>1 DEF p
    <3>4. ~sm.enabled /\ (sm.phase = "Disabled" => ~ctl.obj.enabled)
      BY <2>3, <3>2 DEF EjectionHeld
    <3> DEFINE h == PhaseHandler(ctl.obj, ShouldBeActive(ctl.obj, verdict))
    <3>5. ShouldBeActive(ctl.obj, verdict) \in BOOLEAN
      BY DEF ShouldBeActive
    <3>6. h = Idle \/ h = PatchPhase("none", "Disabled")
      BY <2>4, <3>2, <3>4, <3>5, <1>0, HandlerCases DEF Reclaimed
    <3>7. ctl' = Idle \/ ctl' = PatchPhase("none", "Disabled")
      BY <3>1, <3>6 DEF Proceed, Succeed, GoTo, Fail
    <3>8. "none" \in Tasks /\ "Disabled" \in Phases /\ "Disabled" \in Reclaimed
      BY DEF Tasks, Phases, Reclaimed
    <3>9. ctl'.pc = "idle" \/ (ctl'.pc = "patch" /\ ctl'.target = "Disabled")
      <4>1. CASE ctl' = Idle
        BY <4>1, IdleFacts
      <4>2. CASE ctl' = PatchPhase("none", "Disabled")
        BY <3>8, <4>2, PatchFacts
      <4> QED
        BY <3>7, <4>1, <4>2
    <3> QED
      BY <2>3, <3>2, <3>3, <3>4, <3>8, <3>9 DEF EjectionHeld
  <2>14. ~Preflight /\ ~AddMachineToCluster
    BY <2>4, <1>0 DEF Preflight, AddMachineToCluster, CreateObject, PhaseKnown, Provisioning,
       CreateSteps, Reclaimed
  <2>15. CASE Drain
    <3>1. UNCHANGED sm /\ (ctl' = Idle \/ ctl' = At("deleteMachine", ctl.task))
      BY <2>15 DEF Drain, GoTo, Fail
    <3>2. node'.exists = node.exists /\ node'.reclaim = node.reclaim
      BY <2>15, <1>0 DEF Drain, Node
    <3>3. ctl'.pc \in {"idle", "deleteMachine"}
      <4>1. "deleteMachine" \in Steps
        BY Literals
      <4>2. At("deleteMachine", ctl.task).pc = "deleteMachine"
        BY <1>0, <4>1, AtFacts
      <4> QED
        BY <3>1, <4>2, IdleFacts
    <3> QED
      BY <2>3, <3>1, <3>2, <3>3 DEF EjectionHeld
  <2>16. CASE DisableSchedule
    <3>1. PICK a \in Answers :
            /\ sm' = IF Applied(a) THEN [sm EXCEPT !.enabled = FALSE] ELSE sm
            /\ IF Acknowledged(a) THEN GoTo(At("clear", "emergency")) ELSE Fail
      BY <2>16 DEF DisableSchedule
    <3>2. UNCHANGED node /\ sm'.phase = sm.phase /\ sm'.nodeRef = sm.nodeRef
          /\ (sm'.enabled => sm.enabled)
      BY <2>16, <3>1, <1>0 DEF DisableSchedule, Object
    <3>3. CASE Acknowledged(a)
      <4>1. ctl'.pc = "clear" /\ ~sm'.enabled
        BY <3>1, <3>3, <1>0, AtFacts, Literals DEF Acknowledged, Applied, GoTo, Object
      <4> QED
        BY <2>3, <3>2, <4>1 DEF EjectionHeld
    <3>4. CASE ~Acknowledged(a)
      BY <2>3, <3>1, <3>2, <3>4, <1>a, IdleFacts DEF Fail
    <3> QED
      BY <3>3, <3>4
  <2>17. CASE ClearReclaimAnnotations
    <3>1. UNCHANGED sm /\ ~sm.enabled
      BY <2>3, <2>17 DEF ClearReclaimAnnotations, EjectionHeld
    <3>2. "emergency" \in Tasks /\ "Disabled" \in Phases /\ "Disabled" \in Reclaimed
      BY DEF Tasks, Phases, Reclaimed
    <3>3. ctl'.pc = "patch" /\ ctl'.target = "Disabled"
      BY <2>17, <3>2, PatchFacts DEF ClearReclaimAnnotations, GoTo
    <3> QED
      BY <2>3, <3>1, <3>2, <3>3 DEF EjectionHeld
  <2>18. CASE UserEdits
    <3>1. UNCHANGED <<node, ctl>> /\ (sm'.enabled => sm.enabled)
      BY <2>18 DEF UserEdits
    <3>2. sm'.phase = sm.phase /\ sm'.nodeRef = sm.nodeRef
      BY <2>18, <1>0 DEF UserEdits, Edits, NoObject, Object
    <3> QED
      BY <2>3, <3>1, <3>2 DEF EjectionHeld
  <2>19. CASE AgentRequestsReclaim
    <3>1. UNCHANGED <<sm, ctl>> /\ node'.exists = node.exists /\ node'.reclaim
      BY <2>19, <1>0 DEF AgentRequestsReclaim, Node
    <3> QED
      BY <2>3, <3>1 DEF EjectionHeld
  <2>20. CASE NodeJoins
    BY <2>3, <2>20 DEF NodeJoins, EjectionHeld
  <2>21. CASE NodeLeaves
    BY <2>1, <2>3, <2>21 DEF NodeLeaves, EjectionHeld
  <2>22. ~Tick
    BY <2>4 DEF Tick, Reclaimed
  <2>23. \/ Observe \/ GarbageCollect \/ Gone \/ UNCHANGED vars
         \/ (\E k \in Kinds : TeardownEnds(k))
         => UNCHANGED <<sm, ctl, node>>
    BY DEF Observe, GarbageCollect, Gone, TeardownEnds, vars
  <2> QED
    BY <1>2, <1>c, <2>3, <2>5, <2>6, <2>7, <2>8, <2>9, <2>10, <2>11, <2>12, <2>13, <2>14,
       <2>15, <2>16, <2>17, <2>18, <2>19, <2>20, <2>21, <2>22, <2>23
       DEF Next, Reconcile, Capi
<1> QED
  BY <1>1, <1>2

\* Without stale reads, no fault, crash or edit lets the controller provision a
\* reclaimed machine again while its annotated Node is there to tell: the
\* schedule is disabled before the request is cleared.
THEOREM NoReAddWhileNodeLivesHolds ==
  ASSUME ~CacheLag PROVE Spec => []NoReAddWhileNodeLives
<1>1. Init => NodeRecorded /\ EjectionBooked
  BY IdleFacts DEF Init, NodeRecorded, EjectionBooked, EmergencySteps, DeleteSteps
<1>2. ASSUME TypeOK, TypeOK', TaskKnown, Standing, Standing', NodeRecorded, EjectionBooked,
             [Next]_vars
      PROVE  NodeRecorded' /\ EjectionBooked'
  BY <1>2, NodeRecordedStep, EjectionStep
<1>3. Standing /\ EjectionBooked => NoReAddWhileNodeLives
  <2> SUFFICES ASSUME Standing, EjectionBooked, ejected = "yes", Provisioning PROVE FALSE
    BY DEF NoReAddWhileNodeLives
  <2>1. sm.exists /\ sm.phase \in {"Unset", "Pending"}
    BY DEF Standing, Owned, PhaseKnown, Provisioning, CreateSteps
  <2> QED
    BY <2>1 DEF EjectionBooked, EjectionHeld, Reclaimed
<1> QED
  BY <1>1, <1>2, <1>3, StandingAlways, PTL DEF Spec

(***************************************************************************)
(* Hold-last-state, and the implementation of the abstract lifecycle.      *)
(***************************************************************************)
\* Without stale reads only a resolved verdict replaces the persisted one: an
\* unresolved reconcile writes back the value it found.
THEOREM HoldLastStateHolds ==
  ASSUME ~CacheLag PROVE Spec => HoldLastState
<1> DEFINE Held == sm.active # sm'.active /\ sm'.exists => sm'.resolved = "yes"
<1>1. ASSUME TypeOK, Standing, [Next]_vars PROVE Held
  <2>0. sm \in Object /\ ctl \in Control
    BY <1>1 DEF TypeOK
  <2>1. CASE ResolveSchedule
    <3>1. PICK verdict \in Verdicts : sm' \in {sm, PersistSpotSchedule(ctl.obj, verdict)}
      BY <2>1 DEF ResolveSchedule
    <3>2. ctl.obj \in Object /\ ctl.obj.active = sm.active
      BY <1>1, <2>0, <2>1 DEF ResolveSchedule, Standing, SnapshotCurrent, Control
    <3>3. CASE verdict = "Unresolved"
      <4>1. HeldActive(ctl.obj, verdict) = sm.active
        BY <3>2, <3>3 DEF HeldActive
      <4>2. sm'.active = sm.active
        BY <1>1, <3>1, <3>2, <4>1, PersistHolds
      <4> QED
        BY <4>2
    <3>4. CASE verdict # "Unresolved"
      <4>1. CASE SpotScheduleKept(ctl.obj, verdict) \/ sm' = sm
        BY <3>1, <4>1 DEF PersistSpotSchedule
      <4>2. CASE ~SpotScheduleKept(ctl.obj, verdict) /\ sm' # sm
        BY <2>0, <3>1, <3>4, <4>2 DEF PersistSpotSchedule, ResolvedBy, Object
      <4> QED
        BY <4>1, <4>2
    <3> QED
      BY <3>3, <3>4
  <2>2. CASE sm'.active = sm.active \/ ~sm'.exists
    BY <2>2
  <2>3. CASE UserEdits
    <3>1. sm' = NoObject \/ sm'.active = sm.active
      BY <2>0, <2>3 DEF UserEdits, Edits, Object
    <3> QED
      BY <3>1, <2>2, NoObjectFacts
  <2>4. RemoveFinalizer => sm' = sm \/ ~sm'.exists
    BY NoObjectFacts DEF RemoveFinalizer
  <2>5. \/ AddFinalizer \/ UpdatePhase \/ DisableSchedule \/ EnrichStatus \/ Tick
        => sm'.active = sm.active
    BY <2>0 DEF AddFinalizer, UpdatePhase, WithPhase, DisableSchedule, EnrichStatus, Tick,
       Aged, Object
  <2>6. \/ ResolveSchedule \/ UserEdits \/ RemoveFinalizer \/ AddFinalizer \/ UpdatePhase
        \/ DisableSchedule \/ EnrichStatus \/ Tick \/ sm' = sm
    BY <1>1 DEF Next, Reconcile, Capi, Observe, StartDeletion, StartFinalizer, RejectSpec,
       StartKillSwitch, StartInner, Outside, CheckEmergencyReclaim, Preflight,
       AddMachineToCluster, CreateObject, RemoveMachineFromCluster, DeleteObject,
       CleanupTimesOut, Drain, ClearReclaimAnnotations, Crash, AgentRequestsReclaim,
       NodeJoins, NodeLeaves, TeardownEnds, GarbageCollect, Gone, vars
  <2> QED
    BY <2>1, <2>2, <2>3, <2>4, <2>5, <2>6
<1> QED
  BY <1>1, StandingAlways, PTL DEF Spec, HoldLastState

\* A step that moves the phase and leaves the Machine alone.
LEMMA MoveStep ==
  ASSUME UNCHANGED capi, lifecyclePhase' = lifecyclePhase
                           \/ Lifecycle!MayMove(lifecyclePhase, lifecyclePhase')
  PROVE  [Lifecycle!LifecycleNext]_(Lifecycle!lifecycleVars)
  BY DEF Lifecycle!LifecycleNext, Lifecycle!Move, Lifecycle!lifecycleVars

\* Every step of the reconciler is a step of the lifecycle or leaves it alone.
LEMMA LifecycleStep ==
  ASSUME ~CacheLag, TypeOK, TypeOK', TaskKnown, Standing, [Next]_vars
  PROVE  [Lifecycle!LifecycleNext]_(Lifecycle!lifecycleVars)
<1>0. /\ sm \in Object /\ ctl \in Control /\ sm.phase \in Phases
      /\ capi \in [Kinds -> {"absent", "present", "deleting"}]
      /\ Owned /\ PhaseKnown /\ SnapshotCurrent
  BY DEF TypeOK, Object, Standing
<1>a. ASSUME UNCHANGED <<sm, capi>> PROVE [Lifecycle!LifecycleNext]_(Lifecycle!lifecycleVars)
  BY <1>a, MoveStep DEF lifecyclePhase
<1>b. ASSUME UNCHANGED capi, sm.exists, ~sm'.exists
      PROVE  [Lifecycle!LifecycleNext]_(Lifecycle!lifecycleVars)
  BY <1>b, <1>0, MoveStep, MoveFacts DEF lifecyclePhase
<1>c. ASSUME UNCHANGED capi, sm'.exists = sm.exists, sm'.phase = sm.phase
      PROVE  [Lifecycle!LifecycleNext]_(Lifecycle!lifecycleVars)
  BY <1>c, MoveStep DEF lifecyclePhase
<1>1. CASE UpdatePhase
  <2>1. PICK a \in Answers : sm' = IF Applied(a) THEN WithPhase(sm, ctl.target, ctl.grace) ELSE sm
    BY <1>1 DEF UpdatePhase
  <2>2. UNCHANGED capi /\ ctl.pc = "patch" /\ sm.exists
    BY <1>1, <1>0 DEF UpdatePhase, Owned
  <2>3. sm'.exists /\ sm'.phase \in {sm.phase, ctl.target}
    BY <2>1, <2>2, <1>0 DEF WithPhase, Object
  <2>4. ctl.target = sm.phase \/ Lifecycle!MayMove(sm.phase, ctl.target)
    BY <2>2, <1>0 DEF PhaseKnown
  <2> QED
    BY <2>2, <2>3, <2>4, MoveStep DEF lifecyclePhase
<1>2. CASE RemoveFinalizer
  <2>1. UNCHANGED capi /\ sm' \in {sm, NoObject}
    BY <1>2 DEF RemoveFinalizer
  <2>2. sm.exists
    BY <1>2, <1>0 DEF RemoveFinalizer, Owned
  <2> QED
    BY <2>1, <2>2, <1>a, <1>b, NoObjectFacts
<1>3. CASE UserEdits
  <2>1. UNCHANGED capi /\ sm.exists
    BY <1>3 DEF UserEdits
  <2>2. \/ sm' = NoObject
        \/ sm'.exists = sm.exists /\ sm'.phase = sm.phase
    BY <1>3, <1>0 DEF UserEdits, Edits, Object
  <2>3. sm' = NoObject => ~sm'.exists
    BY NoObjectFacts
  <2> QED
    BY <2>1, <2>2, <2>3, <1>b, <1>c
<1>4. CASE AddFinalizer \/ DisableSchedule \/ EnrichStatus \/ Tick
  <2>1. UNCHANGED capi /\ sm'.exists = sm.exists /\ sm'.phase = sm.phase
    BY <1>4, <1>0 DEF AddFinalizer, DisableSchedule, EnrichStatus, Tick, Aged, Object
  <2> QED
    BY <2>1, <1>c
<1>5. CASE ResolveSchedule
  <2>1. PICK verdict \in Verdicts : sm' \in {sm, PersistSpotSchedule(ctl.obj, verdict)}
    BY <1>5 DEF ResolveSchedule
  <2>2. ctl.obj \in Object /\ ctl.obj.active = sm.active /\ UNCHANGED capi
    BY <1>5, <1>0 DEF ResolveSchedule, SnapshotCurrent, Control
  <2>3. sm'.exists = sm.exists /\ sm'.phase = sm.phase
    <3> DEFINE p == PersistSpotSchedule(ctl.obj, verdict)
    <3>1. p.exists = sm.exists /\ p.phase = sm.phase
      BY <2>2, PersistHolds
    <3> HIDE DEF p
    <3>2. sm' = sm \/ sm' = p
      BY <2>1 DEF p
    <3> QED
      BY <3>1, <3>2
  <2> QED
    BY <2>2, <2>3, <1>c
<1>6. CASE UNCHANGED sm /\ capi'["Machine"] = capi["Machine"]
  BY <1>6 DEF lifecyclePhase, Lifecycle!lifecycleVars
<1>7. CASE AddMachineToCluster
  <2>1. ctl.pc \in CreateSteps /\ UNCHANGED sm
    BY <1>7 DEF AddMachineToCluster, CreateObject, CreateSteps
  <2>2. lifecyclePhase \in Lifecycle!Initial /\ lifecyclePhase' = lifecyclePhase
    BY <2>1, <1>0 DEF lifecyclePhase, Lifecycle!Initial, Owned, PhaseKnown, Provisioning, CreateSteps
  <2>3. \/ capi'["Machine"] = capi["Machine"]
        \/ capi["Machine"] = "absent" /\ capi'["Machine"] = "present"
    BY <1>7, <1>0 DEF AddMachineToCluster, CreateObject, Created, Kinds
  <2> QED
    BY <2>1, <2>2, <2>3, <1>6 DEF Lifecycle!LifecycleNext, Lifecycle!Provision
<1>8. CASE RemoveMachineFromCluster
  <2>1. ctl.pc \in DeleteSteps /\ UNCHANGED sm /\ ctl.task \in Tasks \ {"none"}
    BY <1>8, <1>0 DEF RemoveMachineFromCluster, DeleteObject, DeleteSteps, TaskKnown, Control
  <2>2. /\ lifecyclePhase \in {"Active", "ShuttingDown", "EmergencyRemove"}
        /\ lifecyclePhase' = lifecyclePhase
    BY <2>1, <1>0 DEF lifecyclePhase, Owned, PhaseKnown, EmergencySteps, DeleteSteps, Running, Tasks
  <2>3. \/ capi'["Machine"] = capi["Machine"]
        \/ capi["Machine"] = "present" /\ capi'["Machine"] = "deleting"
    BY <1>8, <1>0 DEF RemoveMachineFromCluster, DeleteObject, Deleted, Kinds
  <2> QED
    BY <2>1, <2>2, <2>3, <1>6 DEF Lifecycle!LifecycleNext, Lifecycle!Release
<1>9. CASE GarbageCollect
  <2>1. lifecyclePhase = "Gone" /\ lifecyclePhase' = "Gone"
    BY <1>9 DEF GarbageCollect, lifecyclePhase
  <2>2. capi["Machine"] = "present" /\ capi'["Machine"] = "deleting"
    BY <1>9, <1>0 DEF GarbageCollect, Deleted, Kinds
  <2> QED
    BY <2>1, <2>2 DEF Lifecycle!LifecycleNext, Lifecycle!Release
<1>10. ASSUME NEW k \in Kinds, TeardownEnds(k)
       PROVE  [Lifecycle!LifecycleNext]_(Lifecycle!lifecycleVars)
  <2>1. lifecyclePhase' = lifecyclePhase /\ UNCHANGED sm
    BY <1>10 DEF TeardownEnds, lifecyclePhase
  <2>2. \/ capi'["Machine"] = capi["Machine"]
        \/ capi["Machine"] = "deleting" /\ capi'["Machine"] = "absent"
    BY <1>10, <1>0 DEF TeardownEnds, Kinds
  <2> QED
    BY <2>1, <2>2, <1>6 DEF Lifecycle!LifecycleNext, Lifecycle!Teardown
<1>11. \/ Observe \/ StartDeletion \/ StartFinalizer \/ RejectSpec \/ StartKillSwitch
       \/ StartInner \/ CheckEmergencyReclaim \/ Preflight \/ CleanupTimesOut \/ Drain
       \/ ClearReclaimAnnotations \/ Crash \/ AgentRequestsReclaim \/ NodeJoins \/ NodeLeaves
       \/ Gone \/ UNCHANGED vars
       => UNCHANGED <<sm, capi>>
  BY DEF Observe, StartDeletion, StartFinalizer, RejectSpec, StartKillSwitch, StartInner,
     Outside, CheckEmergencyReclaim, Preflight, CleanupTimesOut, Drain,
     ClearReclaimAnnotations, Crash, AgentRequestsReclaim, NodeJoins, NodeLeaves, Gone, vars
<1> QED
  BY <1>a, <1>1, <1>2, <1>3, <1>4, <1>5, <1>7, <1>8, <1>9, <1>10, <1>11
     DEF Next, Reconcile, Capi

\* Without stale reads the reconciler implements the abstract lifecycle: every
\* phase it writes is an edge of the diagram, and it creates and gives up the
\* Machine only in the phases that say so, through any faults and crashes.
THEOREM Refinement ==
  ASSUME ~CacheLag PROVE Spec => ImplementsLifecycle
<1>1. Init => Lifecycle!LifecycleInit
  BY DEF Init, Lifecycle!LifecycleInit, lifecyclePhase, NewObject, NoObject, Kinds
<1>2. ASSUME TypeOK, TypeOK', TaskKnown, Standing, [Next]_vars
      PROVE  [Lifecycle!LifecycleNext]_(Lifecycle!lifecycleVars)
  BY <1>2, LifecycleStep
<1> QED
  BY <1>1, <1>2, StandingAlways, PTL DEF Spec, ImplementsLifecycle, Lifecycle!LifecycleSpec
=============================================================================
