-------------------------- MODULE NodeTaints_proofs --------------------------
(***************************************************************************)
(* Proofs about NodeTaints, for any slots and values and any number of     *)
(* events.                                                                 *)
(***************************************************************************)
EXTENDS NodeTaints, TLAPS

(***************************************************************************)
(* The inductive invariant.                                                *)
(***************************************************************************)
Shape ==
  /\ spec \in Specs /\ applied \in Taints /\ node \in Nodes /\ ctl \in Control
  /\ cache \in [spec : Specs, applied : Taints]
  /\ asked \in [Slots -> SUBSET Values]

\* Every value of a list was asked for on its slot.
AskedFor(taints) == \A s \in Slots : taints[s] = Absent \/ taints[s] \in asked[s]

\* Whatever the controller believes it owns was once asked for, also in stale copies.
AllAskedFor ==
  /\ AskedFor(spec.taints) /\ AskedFor(applied)
  /\ AskedFor(cache.spec.taints) /\ AskedFor(cache.applied)
  /\ AskedFor(ctl.desired) /\ AskedFor(ctl.previous)

\* Without other writers the plan of the first read still fits the Node.
PlanFits ==
  quiet /\ ctl.pc \in {"read", "patch"} =>
    /\ \A s \in ctl.plan.toUpdate \cup ctl.plan.toRemove : node.taints[s] = ctl.previous[s]
    /\ \A s \in ctl.plan.toAdd : node.taints[s] = Absent
    /\ ctl.pc = "patch" => ctl.base = node.taints

\* The recorded taints that the reconcile in progress is to drop.
Dropped == {s \in Slots : ctl.desired[s] = Absent /\ ctl.previous[s] # Absent}

\* Without other writers a taint to be dropped is on the list of removals or off the
\* Node, and the patch puts nothing in its place; by the time of the record it is off.
DropsTakeEffect ==
  quiet =>
    /\ ctl.pc \in {"read", "patch"} =>
         \A s \in Dropped :
           \/ s \in ctl.plan.toRemove
           \/ node.taints[s] # ctl.previous[s] /\ s \notin ctl.plan.toAdd \cup ctl.plan.toUpdate
    /\ ctl.pc = "status" => \A s \in Dropped : node.taints[s] # ctl.previous[s]

(***************************************************************************)
(* Lemmas about diff_node_taints and apply_node_taints.                    *)
(***************************************************************************)
\* A Node without taints, and no reconcile in progress.
LEMMA NoTaintsFacts == NoTaints \in Taints /\ NewNode \in Nodes /\ Idle \in Control
<1>1. NoTaints \in Taints
  BY DEF NoTaints, Taints
<1> QED
  BY <1>1 DEF NewNode, Nodes, Idle, Control, NoPlan, Plans

\* diff_node_taints updates and removes only slots that still hold what was recorded,
\* and adds only to free ones.
LEMMA DiffFacts ==
  ASSUME NEW current \in Taints, NEW desired \in Taints, NEW previous \in Taints
  PROVE  LET plan == Diff(current, desired, previous) IN
         /\ plan \in Plans
         /\ \A s \in plan.toUpdate \cup plan.toRemove : current[s] = previous[s]
         /\ \A s \in plan.toAdd : current[s] = Absent
  BY DEF Diff, Owns, Plans

\* apply_node_taints leaves a list, and changes only slots of the plan.
LEMMA TargetFacts ==
  ASSUME NEW base \in Taints, NEW desired \in Taints, NEW plan \in Plans
  PROVE  /\ Target(base, desired, plan) \in Taints
         /\ \A s \in Slots \ (plan.toAdd \cup plan.toUpdate \cup plan.toRemove) :
              Target(base, desired, plan)[s] = base[s]
  BY DEF Target, Taints, Plans

\* What the first read leads to keeps what the reconcile started with.
LEMMA PlannedFacts ==
  ASSUME NEW c \in Control, node \in Nodes
  PROVE  /\ Planned(c) \in Control
         /\ Planned(c) = Idle \/ (\E pc \in {"read", "status"} : Planned(c) = [c EXCEPT !.pc = pc])
<1>1. Idle \in Control
  BY NoTaintsFacts
<1>2. Planned(c) = Idle \/ (\E pc \in {"read", "status"} : Planned(c) = [c EXCEPT !.pc = pc])
  BY DEF Planned, Applied, Nodes
<1> QED
  BY <1>1, <1>2 DEF Control

\* The patch ends the reconcile or goes on with what it had.
LEMMA AppliedFacts ==
  ASSUME ctl \in Control, ApplyNodeTaints
  PROVE  ctl' = Idle \/ ctl' = [ctl EXCEPT !.pc = "status"]
  BY DEF ApplyNodeTaints, Applied

(***************************************************************************)
(* Types                                                                   *)
(***************************************************************************)
\* Lists, plans and copies keep to their types.
LEMMA ShapeHolds == Spec => []Shape
<1>1. Init => Shape
  <2> SUFFICES ASSUME Init PROVE Shape
    OBVIOUS
  <2>1. spec \in Specs /\ applied \in Taints /\ ctl \in Control
    BY NoTaintsFacts DEF Init
  <2>2. cache \in [spec : Specs, applied : Taints]
    BY <2>1 DEF Init
  <2>3. node \in Nodes
    BY NoTaintsFacts DEF Init, Nodes
  <2>4. asked \in [Slots -> SUBSET Values]
    BY <2>1 DEF Init, Asking, Specs, Taints
  <2> QED
    BY <2>1, <2>2, <2>3, <2>4 DEF Shape
<1>2. Shape /\ [Next]_vars => Shape'
  <2> SUFFICES ASSUME Shape, [Next]_vars PROVE Shape'
    OBVIOUS
  <2>1. CASE ReconcileNodeTaints
    <3> DEFINE c == [Idle EXCEPT !.desired = cache.spec.taints, !.previous = cache.applied,
                                 !.plan = Diff(node.taints, cache.spec.taints, cache.applied)]
    <3>1. Diff(node.taints, cache.spec.taints, cache.applied) \in Plans
      BY DiffFacts DEF Shape, Specs, Nodes
    <3>2. c \in Control
      BY <3>1, NoTaintsFacts DEF Shape, Specs, Control
    <3>3. ctl' = Planned(c) \/ ctl' = Idle
      BY <2>1 DEF ReconcileNodeTaints
    <3> HIDE DEF c
    <3>4. ctl' \in Control
      BY <3>2, <3>3, PlannedFacts, NoTaintsFacts DEF Shape
    <3> QED
      BY <2>1, <3>4 DEF ReconcileNodeTaints, Shape
  <2>2. CASE ReadNodeAgain
    <3>1. ctl' \in Control
      BY <2>2, NoTaintsFacts DEF ReadNodeAgain, Shape, Control, Nodes
    <3> QED
      BY <2>2, <3>1 DEF ReadNodeAgain, Shape
  <2>3. CASE ApplyNodeTaints
    <3>1. Target(ctl.base, ctl.desired, ctl.plan) \in Taints
      BY TargetFacts DEF Shape, Control
    <3>2. node' \in Nodes
      BY <2>3, <3>1, NoTaintsFacts DEF ApplyNodeTaints, Shape, Nodes
    <3>3. ctl' \in Control
      BY <2>3, NoTaintsFacts DEF ApplyNodeTaints, Applied, Shape, Control
    <3> QED
      BY <2>3, <3>2, <3>3 DEF ApplyNodeTaints, Shape
  <2>4. CASE PatchAppliedStatus
    BY <2>4, NoTaintsFacts DEF PatchAppliedStatus, Shape, Control
  <2>5. CASE Crash \/ Observe
    BY <2>5, NoTaintsFacts DEF Crash, Observe, Shape
  <2>6. CASE UserEdits
    <3>1. spec' \in Specs
      <4>1. CASE spec' = [spec EXCEPT !.terminating = TRUE]
        BY <4>1 DEF Shape, Specs
      <4>2. ASSUME NEW s \in Slots, NEW v \in Values \cup {Absent},
                   spec' = [spec EXCEPT !.taints[s] = v]
            PROVE  spec' \in Specs
        <5>1. [spec.taints EXCEPT ![s] = v] \in Taints
          BY DEF Shape, Specs, Taints
        <5> QED
          BY <4>2, <5>1 DEF Shape, Specs
      <4> QED
        BY <2>6, <4>1, <4>2 DEF UserEdits
    <3>2. asked' \in [Slots -> SUBSET Values]
      BY <2>6 DEF UserEdits, Shape
    <3> QED
      BY <2>6, <3>1, <3>2 DEF UserEdits, Shape
  <2>7. CASE AdminEdits
    <3>1. node' \in Nodes
      BY <2>7 DEF AdminEdits, Shape, Nodes, Taints
    <3> QED
      BY <2>7, <3>1 DEF AdminEdits, Shape
  <2>8. CASE NodeChanges
    <3>1. node' \in Nodes
      BY <2>8, NoTaintsFacts DEF NodeChanges, Shape, Nodes
    <3> QED
      BY <2>8, <3>1 DEF NodeChanges, Shape
  <2>9. CASE UNCHANGED vars
    BY <2>9 DEF vars, Shape
  <2> QED
    BY <2>1, <2>2, <2>3, <2>4, <2>5, <2>6, <2>7, <2>8, <2>9 DEF Next, Reconcile
<1> QED
  BY <1>1, <1>2, PTL DEF Spec

(***************************************************************************)
(* Ownership                                                               *)
(***************************************************************************)
\* The controller never records, plans with or caches a value that spec.nodeTaints
\* did not ask for.
LEMMA AllAskedForHolds == Spec => []AllAskedFor
<1>1. Init => AllAskedFor
  BY DEF Init, AllAskedFor, AskedFor, Asking, Idle, NoTaints, Specs, Taints
<1>2. Shape /\ AllAskedFor /\ [Next]_vars => AllAskedFor'
  <2> SUFFICES ASSUME Shape, AllAskedFor, [Next]_vars PROVE AllAskedFor'
    OBVIOUS
  <2>1. AskedFor(NoTaints)
    BY DEF AskedFor, NoTaints
  <2>2. CASE ReconcileNodeTaints
    <3> DEFINE c == [Idle EXCEPT !.desired = cache.spec.taints, !.previous = cache.applied,
                                 !.plan = Diff(node.taints, cache.spec.taints, cache.applied)]
    <3>1. c \in Control /\ c.desired = cache.spec.taints /\ c.previous = cache.applied
      <4>1. Diff(node.taints, cache.spec.taints, cache.applied) \in Plans
        BY DiffFacts DEF Shape, Specs, Nodes
      <4> QED
        BY <4>1, NoTaintsFacts DEF Shape, Specs, Control
    <3>2. ctl' = Planned(c) \/ ctl' = Idle
      BY <2>2 DEF ReconcileNodeTaints
    <3> HIDE DEF c
    <3>3. \/ ctl'.desired = NoTaints /\ ctl'.previous = NoTaints
          \/ ctl'.desired = cache.spec.taints /\ ctl'.previous = cache.applied
      BY <3>1, <3>2, PlannedFacts DEF Shape, Control, Idle
    <3> QED
      BY <2>1, <2>2, <3>3 DEF ReconcileNodeTaints, AllAskedFor, AskedFor
  <2>3. CASE ReadNodeAgain \/ ApplyNodeTaints
    <3>1. \/ ctl' = Idle
          \/ ctl' = [ctl EXCEPT !.pc = "patch", !.base = node.taints]
          \/ ctl' = [ctl EXCEPT !.pc = "status"]
      BY <2>3, AppliedFacts DEF ReadNodeAgain, Shape
    <3>2. \/ ctl'.desired = NoTaints /\ ctl'.previous = NoTaints
          \/ ctl'.desired = ctl.desired /\ ctl'.previous = ctl.previous
      <4>1. CASE ctl' = Idle
        BY <4>1 DEF Idle
      <4>2. CASE ctl' = [ctl EXCEPT !.pc = "patch", !.base = node.taints]
        BY <4>2 DEF Shape, Control
      <4>3. CASE ctl' = [ctl EXCEPT !.pc = "status"]
        BY <4>3 DEF Shape, Control
      <4> QED
        BY <3>1, <4>1, <4>2, <4>3
    <3> QED
      BY <2>1, <2>3, <3>2 DEF ReadNodeAgain, ApplyNodeTaints, AllAskedFor, AskedFor
  <2>4. CASE PatchAppliedStatus
    BY <2>1, <2>4 DEF PatchAppliedStatus, Idle, AllAskedFor, AskedFor
  <2>5. CASE Crash \/ Observe
    BY <2>1, <2>5 DEF Crash, Observe, Idle, AllAskedFor, AskedFor
  <2>6. CASE UserEdits
    <3>1. \A s \in Slots : asked[s] \subseteq asked'[s]
      BY <2>6 DEF UserEdits, Shape
    <3>2. AskedFor(spec.taints)'
      <4>1. CASE spec' = [spec EXCEPT !.terminating = TRUE]
        BY <3>1, <4>1 DEF Shape, Specs, AllAskedFor, AskedFor
      <4>2. ASSUME NEW s \in Slots, NEW v \in Values \cup {Absent},
                   spec' = [spec EXCEPT !.taints[s] = v],
                   asked' = [asked EXCEPT ![s] = @ \cup ({v} \ {Absent})]
            PROVE  AskedFor(spec.taints)'
        <5>1. spec'.taints = [spec.taints EXCEPT ![s] = v] /\ spec.taints \in Taints
          BY <4>2 DEF Shape, Specs
        <5>2. v = Absent \/ v \in asked'[s]
          BY <4>2 DEF Shape
        <5> QED
          BY <3>1, <5>1, <5>2 DEF Taints, AllAskedFor, AskedFor
      <4> QED
        BY <2>6, <4>1, <4>2 DEF UserEdits
    <3> QED
      BY <2>6, <3>1, <3>2 DEF UserEdits, AllAskedFor, AskedFor
  <2>7. CASE AdminEdits \/ NodeChanges
    BY <2>7 DEF AdminEdits, NodeChanges, AllAskedFor, AskedFor
  <2>8. CASE UNCHANGED vars
    BY <2>8 DEF vars, AllAskedFor, AskedFor
  <2> QED
    BY <2>2, <2>3, <2>4, <2>5, <2>6, <2>7, <2>8 DEF Next, Reconcile
<1> QED
  BY <1>1, <1>2, ShapeHolds, PTL DEF Spec

\* As long as nobody else writes the Node, the plan is right about it up to the patch.
LEMMA PlanFitsHolds == Spec => []PlanFits
<1>1. Init => PlanFits
  BY DEF Init, PlanFits, Idle
<1>2. Shape /\ PlanFits /\ [Next]_vars => PlanFits'
  <2> SUFFICES ASSUME Shape, PlanFits, [Next]_vars PROVE PlanFits'
    OBVIOUS
  <2>1. CASE ReconcileNodeTaints
    <3> DEFINE plan == Diff(node.taints, cache.spec.taints, cache.applied)
               c == [Idle EXCEPT !.desired = cache.spec.taints, !.previous = cache.applied,
                                 !.plan = plan]
    <3>1. /\ plan \in Plans
          /\ \A s \in plan.toUpdate \cup plan.toRemove : node.taints[s] = cache.applied[s]
          /\ \A s \in plan.toAdd : node.taints[s] = Absent
      BY DiffFacts DEF Shape, Specs, Nodes
    <3>2. ctl' = Planned(c) \/ ctl' = Idle
      BY <2>1 DEF ReconcileNodeTaints
    <3> HIDE DEF plan
    <3>3. c \in Control /\ c.previous = cache.applied /\ c.plan = plan
      BY <3>1, NoTaintsFacts DEF Shape, Specs, Control
    <3> HIDE DEF c
    <3>4. \/ ctl'.pc \in {"idle", "status"}
          \/ ctl'.pc = "read" /\ ctl'.previous = cache.applied /\ ctl'.plan = plan
      BY <3>2, <3>3, PlannedFacts DEF Shape, Control, Idle
    <3> QED
      BY <2>1, <3>1, <3>4 DEF ReconcileNodeTaints, PlanFits
  <2>2. CASE ReadNodeAgain
    <3>1. \/ ctl'.pc = "idle"
          \/ /\ ctl'.pc = "patch" /\ ctl'.base = node.taints
             /\ ctl'.plan = ctl.plan /\ ctl'.previous = ctl.previous
      BY <2>2 DEF ReadNodeAgain, Idle, Shape, Control
    <3> QED
      BY <2>2, <3>1 DEF ReadNodeAgain, PlanFits
  <2>3. CASE ApplyNodeTaints \/ PatchAppliedStatus
    <3>1. ctl' = Idle \/ ctl' = [ctl EXCEPT !.pc = "status"]
      BY <2>3, AppliedFacts DEF PatchAppliedStatus, Shape
    <3>2. ctl'.pc \in {"idle", "status"}
      BY <3>1 DEF Idle, Shape, Control
    <3> QED
      BY <3>2 DEF PlanFits
  <2>4. CASE Crash
    BY <2>4 DEF Crash, Idle, PlanFits
  <2>5. CASE Observe \/ UserEdits
    BY <2>5 DEF Observe, UserEdits, PlanFits
  <2>6. CASE AdminEdits \/ NodeChanges
    BY <2>6 DEF AdminEdits, NodeChanges, PlanFits
  <2>7. CASE UNCHANGED vars
    BY <2>7 DEF vars, PlanFits
  <2> QED
    BY <2>1, <2>2, <2>3, <2>4, <2>5, <2>6, <2>7 DEF Next, Reconcile
<1> QED
  BY <1>1, <1>2, ShapeHolds, PTL DEF Spec

\* The patch of apply_node_taints takes away or replaces only values that
\* spec.nodeTaints once asked for, through stale copies, lost records and crashes, if
\* nobody else writes the Node between the plan and the patch.
THEOREM ForeignTaintsStayHolds == Spec => ForeignTaintsStay
<1> DEFINE Stays == ctl.pc = "patch" /\ quiet /\ quiet' =>
              \A s \in Slots : node.taints[s] # node'.taints[s] /\ node.taints[s] # Absent
                                 => node.taints[s] \in asked[s]
<1>1. Shape /\ AllAskedFor /\ PlanFits /\ [Next]_vars => Stays
  <2> SUFFICES ASSUME Shape, AllAskedFor, PlanFits, [Next]_vars,
                      ctl.pc = "patch", quiet, quiet', NEW s \in Slots,
                      node.taints[s] # node'.taints[s], node.taints[s] # Absent
               PROVE  node.taints[s] \in asked[s]
    OBVIOUS
  <2>1. ApplyNodeTaints
    BY DEF Next, Reconcile, ReconcileNodeTaints, ReadNodeAgain, PatchAppliedStatus, Crash,
           Observe, UserEdits, AdminEdits, NodeChanges, vars
  <2>2. ctl.base = node.taints /\ ctl.base \in Taints /\ ctl.desired \in Taints /\ ctl.plan \in Plans
    BY DEF PlanFits, Shape, Control
  <2>3. node'.taints = Target(ctl.base, ctl.desired, ctl.plan)
    BY <2>1, NoTaintsFacts DEF ApplyNodeTaints, Shape, Nodes
  <2>4. s \in ctl.plan.toAdd \cup ctl.plan.toUpdate \cup ctl.plan.toRemove
    <3>1. \A t \in Slots \ (ctl.plan.toAdd \cup ctl.plan.toUpdate \cup ctl.plan.toRemove) :
            Target(ctl.base, ctl.desired, ctl.plan)[t] = ctl.base[t]
      BY <2>2, TargetFacts
    <3> QED
      BY <2>2, <2>3, <3>1
  <2>5. node.taints[s] = ctl.previous[s]
    BY <2>4 DEF PlanFits
  <2> QED
    BY <2>5 DEF AllAskedFor, AskedFor
<1> QED
  BY <1>1, ShapeHolds, AllAskedForHolds, PlanFitsHolds, PTL DEF Spec, ForeignTaintsStay

(***************************************************************************)
(* Taints that are dropped                                                 *)
(***************************************************************************)
\* diff_node_taints removes a taint that is no longer wanted and is as recorded, and
\* neither adds nor updates one that is not wanted.
LEMMA DiffDrops ==
  ASSUME NEW current \in Taints, NEW desired \in Taints, NEW previous \in Taints,
         NEW s \in Slots, desired[s] = Absent, previous[s] # Absent
  PROVE  LET plan == Diff(current, desired, previous) IN
         \/ s \in plan.toRemove
         \/ current[s] # previous[s] /\ s \notin plan.toAdd \cup plan.toUpdate
  BY DEF Diff, Owns

\* Without other writers, what the reconcile drops is off the Node before it is off
\* the record.
LEMMA DropsTakeEffectHolds == Spec => []DropsTakeEffect
<1>1. Init => DropsTakeEffect
  BY DEF Init, DropsTakeEffect, Idle
<1>2. Shape /\ PlanFits /\ DropsTakeEffect /\ [Next]_vars => DropsTakeEffect'
  <2> SUFFICES ASSUME Shape, PlanFits, DropsTakeEffect, [Next]_vars PROVE DropsTakeEffect'
    OBVIOUS
  <2>1. CASE ReconcileNodeTaints
    <3> DEFINE plan == Diff(node.taints, cache.spec.taints, cache.applied)
               c == [Idle EXCEPT !.desired = cache.spec.taints, !.previous = cache.applied,
                                 !.plan = plan]
    <3>1. /\ plan \in Plans
          /\ \A s \in Slots : cache.spec.taints[s] = Absent /\ cache.applied[s] # Absent =>
               \/ s \in plan.toRemove
               \/ node.taints[s] # cache.applied[s] /\ s \notin plan.toAdd \cup plan.toUpdate
      BY DiffFacts, DiffDrops DEF Shape, Specs, Nodes
    <3>2. ctl' = Planned(c) \/ ctl' = Idle
      BY <2>1 DEF ReconcileNodeTaints
    <3> HIDE DEF plan
    <3>3. /\ c \in Control /\ c.desired = cache.spec.taints /\ c.previous = cache.applied
          /\ c.plan = plan
      BY <3>1, NoTaintsFacts DEF Shape, Specs, Control
    <3> HIDE DEF c
    <3>4. \/ ctl'.pc = "idle"
          \/ ctl' = [c EXCEPT !.pc = "read"]
          \/ ctl' = [c EXCEPT !.pc = "status"] /\ plan.toRemove = {}
      BY <3>2, <3>3 DEF Planned, Applied, IsNoop, Idle, Shape, Nodes
    <3>5. CASE ctl'.pc = "idle"
      BY <3>5 DEF DropsTakeEffect
    <3>6. CASE ctl' = [c EXCEPT !.pc = "read"]
      <4>1. /\ ctl'.pc = "read" /\ ctl'.desired = cache.spec.taints
            /\ ctl'.previous = cache.applied /\ ctl'.plan = plan
        BY <3>3, <3>6 DEF Control
      <4> QED
        BY <2>1, <3>1, <4>1 DEF ReconcileNodeTaints, DropsTakeEffect, Dropped
    <3>7. CASE ctl' = [c EXCEPT !.pc = "status"] /\ plan.toRemove = {}
      <4>1. /\ ctl'.pc = "status" /\ ctl'.desired = cache.spec.taints
            /\ ctl'.previous = cache.applied
        BY <3>3, <3>7 DEF Control
      <4> QED
        BY <2>1, <3>1, <3>7, <4>1 DEF ReconcileNodeTaints, DropsTakeEffect, Dropped
    <3> QED
      BY <3>4, <3>5, <3>6, <3>7
  <2>2. CASE ReadNodeAgain
    <3>1. \/ ctl'.pc = "idle"
          \/ /\ ctl'.pc = "patch" /\ ctl'.plan = ctl.plan
             /\ ctl'.desired = ctl.desired /\ ctl'.previous = ctl.previous
      BY <2>2 DEF ReadNodeAgain, Idle, Shape, Control
    <3> QED
      BY <2>2, <3>1 DEF ReadNodeAgain, DropsTakeEffect, Dropped
  <2>3. CASE ApplyNodeTaints
    <3>1. CASE ctl' = Idle
      BY <3>1 DEF Idle, DropsTakeEffect
    <3>2. CASE ctl' # Idle
      <4>1. /\ ctl'.pc = "status" /\ ctl'.desired = ctl.desired /\ ctl'.previous = ctl.previous
        BY <2>3, <3>2, AppliedFacts DEF Shape, Control
      <4>2. node'.taints = Target(ctl.base, ctl.desired, ctl.plan) /\ quiet' = quiet
        BY <2>3, <3>2, NoTaintsFacts DEF ApplyNodeTaints, Shape, Nodes
      <4>3. SUFFICES ASSUME quiet, NEW s \in Dropped PROVE node'.taints[s] # ctl.previous[s]
        BY <4>1, <4>2 DEF DropsTakeEffect, Dropped
      <4>4. ctl.base = node.taints /\ ctl.pc = "patch"
        BY <2>3, <4>3 DEF ApplyNodeTaints, PlanFits
      <4>5. CASE s \in ctl.plan.toRemove
        BY <4>2, <4>5 DEF Target, Dropped
      <4>6. CASE s \notin ctl.plan.toRemove
        <5>1. node.taints[s] # ctl.previous[s] /\ s \notin ctl.plan.toAdd \cup ctl.plan.toUpdate
          BY <4>3, <4>4, <4>6 DEF DropsTakeEffect
        <5>2. node'.taints[s] = node.taints[s]
          BY <4>2, <4>4, <4>6, <5>1 DEF Target, Dropped
        <5> QED
          BY <5>1, <5>2
      <4> QED
        BY <4>5, <4>6
    <3> QED
      BY <3>1, <3>2
  <2>4. CASE PatchAppliedStatus \/ Crash
    <3>1. ctl'.pc = "idle"
      BY <2>4 DEF PatchAppliedStatus, Crash, Idle
    <3> QED
      BY <3>1 DEF DropsTakeEffect
  <2>5. CASE Observe \/ UserEdits
    BY <2>5 DEF Observe, UserEdits, DropsTakeEffect, Dropped
  <2>6. CASE AdminEdits \/ NodeChanges
    BY <2>6 DEF AdminEdits, NodeChanges, DropsTakeEffect
  <2>7. CASE UNCHANGED vars
    BY <2>7 DEF vars, DropsTakeEffect, Dropped
  <2> QED
    BY <2>1, <2>2, <2>3, <2>4, <2>5, <2>6, <2>7 DEF Next, Reconcile
<1> QED
  BY <1>1, <1>2, ShapeHolds, PlanFitsHolds, PTL DEF Spec

\* patch_applied_node_taints_status forgets a taint only when the Node no longer has
\* it as it was recorded, for a reconcile that started from the current record while
\* nobody else writes the Node.
THEOREM ForgottenTaintsAreGoneHolds == Spec => ForgottenTaintsAreGone
<1> DEFINE Gone == quiet /\ quiet' /\ ctl.previous = applied =>
              \A s \in Slots : applied[s] # Absent /\ applied'[s] = Absent
                                 => node.taints[s] # applied[s]
<1>1. Shape /\ DropsTakeEffect /\ [Next]_vars => Gone
  <2> SUFFICES ASSUME Shape, DropsTakeEffect, [Next]_vars, quiet, ctl.previous = applied,
                      NEW s \in Slots, applied[s] # Absent, applied'[s] = Absent
               PROVE  node.taints[s] # applied[s]
    OBVIOUS
  <2>1. ctl.pc = "status" /\ applied' = ctl.desired
    BY DEF Next, Reconcile, ReconcileNodeTaints, ReadNodeAgain, ApplyNodeTaints,
           PatchAppliedStatus, Crash, Observe, UserEdits, AdminEdits, NodeChanges, vars
  <2>2. s \in Dropped
    BY <2>1 DEF Dropped
  <2> QED
    BY <2>1, <2>2 DEF DropsTakeEffect
<1> QED
  BY <1>1, ShapeHolds, DropsTakeEffectHolds, PTL DEF Spec, ForgottenTaintsAreGone

(***************************************************************************)
(* The plan                                                                *)
(***************************************************************************)
\* diff_node_taints and apply_node_taints fit each other: a plan without conflicts,
\* applied to the list it was made for, is never refused for a doubled slot, puts
\* every desired taint on the Node, takes the dropped ones off and leaves all others;
\* made again, with the old record or the new one, it asks for nothing.
THEOREM PlanReachesDesired ==
  ASSUME NEW current \in Taints, NEW desired \in Taints, NEW previous \in Taints,
         Diff(current, desired, previous).conflicts = {}
  PROVE  LET plan == Diff(current, desired, previous)
             result == Target(current, desired, plan)
         IN /\ ~Doubled(current, plan)
            /\ \A s \in Slots : result[s] = IF desired[s] # Absent THEN desired[s]
                                            ELSE IF previous[s] # Absent THEN Absent
                                            ELSE current[s]
            /\ \A record \in {previous, desired} :
                 Diff(result, desired, record) = NoPlan
<1> DEFINE plan == Diff(current, desired, previous)
           result == Target(current, desired, plan)
<1>1. ~Doubled(current, plan)
  BY DEF Diff, Doubled
<1>2. ASSUME NEW s \in Slots
      PROVE  result[s] = IF desired[s] # Absent THEN desired[s]
                         ELSE IF previous[s] # Absent THEN Absent ELSE current[s]
  BY <1>2 DEF Diff, Target, Owns
<1> HIDE DEF result
<1>3. ASSUME NEW record \in {previous, desired}
      PROVE  Diff(result, desired, record) = NoPlan
  BY <1>2, <1>3 DEF Diff, NoPlan
<1> QED
  BY <1>1, <1>2, <1>3 DEF result

=============================================================================
