----------------------------- MODULE NodeTaints -----------------------------
(***************************************************************************)
(* The taints of one Node, written by the reconciler of an Active          *)
(* ScheduledMachine (spec.nodeTaints), and by administrators. The          *)
(* reconciler reads the Node, plans, reads it again and replaces the whole *)
(* list, then records in its status what it applied. Everybody may act     *)
(* between two of these calls.                                             *)
(***************************************************************************)
EXTENDS Integers

CONSTANTS
  Slots,      \* the (key, effect) pairs that identify a taint
  Values,     \* the values a taint may have
  Absent,     \* no taint on a slot
  MaxEvents   \* bound: changes by others, failing API calls and crashes

ASSUME ConstantsAssumption == Absent \notin Values /\ MaxEvents \in Nat

VARIABLES
  spec,     \* the ScheduledMachine: its taints, and whether it is going away
  applied,  \* its status.appliedNodeTaints
  cache,    \* the reflector's copy of both
  node,     \* the Node
  ctl,      \* the taint reconcile in progress
  events,   \* how much of the bound is used up
  (*************************************************************************)
  (* History variables: no action reads them.                              *)
  (*************************************************************************)
  asked,    \* the values spec.nodeTaints ever asked for on each slot
  quiet     \* has nobody else written the taints since the plan was made?

vars == <<spec, applied, cache, node, ctl, events, asked, quiet>>

\* Lists of taints: validate_node_taints and the API server keep slots unique.
Taints == [Slots -> Values \cup {Absent}]

NoTaints == [s \in Slots |-> Absent]

Specs == [taints : Taints, terminating : BOOLEAN]

Nodes == [exists : BOOLEAN, ready : BOOLEAN, taints : Taints]

NewNode == [exists |-> TRUE, ready |-> FALSE, taints |-> NoTaints]

Plans == [toAdd : SUBSET Slots, toUpdate : SUBSET Slots, toRemove : SUBSET Slots,
          conflicts : SUBSET Slots]

NoPlan == [toAdd |-> {}, toUpdate |-> {}, toRemove |-> {}, conflicts |-> {}]

Control == [pc : {"idle", "read", "patch", "status"}, desired : Taints,
            previous : Taints, plan : Plans, base : Taints]

Idle == [pc |-> "idle", desired |-> NoTaints, previous |-> NoTaints,
         plan |-> NoPlan, base |-> NoTaints]

TypeOK ==
  /\ spec \in Specs
  /\ applied \in Taints
  /\ cache \in [spec : Specs, applied : Taints]
  /\ node \in Nodes
  /\ ctl \in Control
  /\ events \in 0..MaxEvents
  /\ asked \in [Slots -> SUBSET Values]
  /\ quiet \in BOOLEAN

Asking(taints) == [s \in Slots |-> {taints[s]} \ {Absent}]

Init ==
  /\ spec \in {s \in Specs : ~s.terminating}
  /\ applied = NoTaints
  /\ cache = [spec |-> spec, applied |-> applied]
  /\ node = [NewNode EXCEPT !.ready = TRUE]
  /\ ctl = Idle
  /\ events = 0
  /\ asked = Asking(spec.taints)
  /\ quiet = TRUE

(***************************************************************************)
(* diff_node_taints                                                        *)
(***************************************************************************)
\* Mutant: whatever is there may be overwritten.
OwnsAnything(current, previous, s) == TRUE

\* we_own_current, and the test before a removal: the value on the Node is the
\* one that was applied.
Owns(current, previous, s) == previous[s] # Absent /\ current[s] = previous[s]

Diff(current, desired, previous) ==
  LET wanted == {s \in Slots : desired[s] # Absent}
      drifted == {s \in wanted : current[s] \notin {Absent, desired[s]}}
      dropped == {s \in Slots \ wanted : previous[s] # Absent /\ current[s] # Absent}
      mine == {s \in drifted \cup dropped : Owns(current, previous, s)}
  IN [toAdd |-> {s \in wanted : current[s] = Absent},
      toUpdate |-> drifted \cap mine,
      toRemove |-> dropped \cap mine,
      conflicts |-> (drifted \cup dropped) \ mine]

IsNoop(plan) == plan.toAdd = {} /\ plan.toUpdate = {} /\ plan.toRemove = {}

\* Mutant: entries to remove are kept.
TargetKeepsAll(base, desired, plan) ==
  [s \in Slots |-> IF s \in plan.toAdd \cup plan.toUpdate THEN desired[s] ELSE base[s]]

\* apply_node_taints: the list of the second read, with the plan of the first.
Target(base, desired, plan) ==
  LET set == plan.toAdd \cup {s \in plan.toUpdate : base[s] # Absent}
  IN [s \in Slots |-> IF s \in plan.toRemove THEN Absent
                      ELSE IF s \in set THEN desired[s] ELSE base[s]]

\* An add that finds its slot taken doubles the slot, and the API server refuses.
Doubled(base, plan) == \E s \in plan.toAdd : base[s] # Absent

(***************************************************************************)
(* The reconcile, one action per API call. A call is answered ("ok"),      *)
(* refused without effect ("refused"), or takes effect while its answer is *)
(* lost ("lost"). Every failure is logged and ends the taint reconcile.    *)
(***************************************************************************)
Answers == {"ok"} \cup (IF events < MaxEvents THEN {"refused", "lost"} ELSE {})

Charge(a) == events' = IF a = "ok" THEN events ELSE events + 1

\* Mutant: a Node that needs nothing is not recorded.
AppliedUnlessNoop(c) == IF IsNoop(c.plan) THEN Idle ELSE [c EXCEPT !.pc = "status"]

\* The outcome Applied: the desired list is recorded unless it already is.
Applied(c) == IF c.desired = c.previous THEN Idle ELSE [c EXCEPT !.pc = "status"]

\* What reconcile_node_taints goes on to do with the Node it read.
Planned(c) ==
  CASE ~node.exists \/ ~node.ready \/ c.plan.conflicts # {} -> Idle
    [] node.exists /\ node.ready /\ c.plan.conflicts = {} ->
         IF IsNoop(c.plan) THEN Applied(c) ELSE [c EXCEPT !.pc = "read"]

ReconcileNodeTaints ==
  /\ ctl.pc = "idle"
  /\ ~cache.spec.terminating
  /\ cache.spec.taints # NoTaints \/ cache.applied # NoTaints
  /\ \E a \in Answers :
       /\ Charge(a)
       /\ LET c == [Idle EXCEPT !.desired = cache.spec.taints, !.previous = cache.applied,
                                !.plan = Diff(node.taints, cache.spec.taints, cache.applied)]
          IN ctl' = IF a = "ok" THEN Planned(c) ELSE Idle
  /\ quiet' = TRUE
  /\ UNCHANGED <<spec, applied, cache, node, asked>>

ReadNodeAgain ==
  /\ ctl.pc = "read"
  /\ \E a \in Answers :
       /\ Charge(a)
       /\ ctl' = IF a = "ok" /\ node.exists
                 THEN [ctl EXCEPT !.pc = "patch", !.base = node.taints] ELSE Idle
  /\ UNCHANGED <<spec, applied, cache, node, asked, quiet>>

\* A forced apply of the whole list, which is atomic to the API server. It creates
\* a Node that has gone meanwhile.
ApplyNodeTaints ==
  /\ ctl.pc = "patch"
  /\ \E a \in Answers :
       /\ Charge(a)
       /\ IF a = "refused" \/ Doubled(ctl.base, ctl.plan)
          THEN ctl' = Idle /\ UNCHANGED node
          ELSE /\ node' = [IF node.exists THEN node ELSE NewNode
                             EXCEPT !.taints = Target(ctl.base, ctl.desired, ctl.plan)]
               /\ ctl' = IF a = "ok" THEN Applied(ctl) ELSE Idle
  /\ UNCHANGED <<spec, applied, cache, asked, quiet>>

PatchAppliedStatus ==
  /\ ctl.pc = "status"
  /\ \E a \in Answers :
       /\ Charge(a)
       /\ applied' = IF a = "refused" THEN applied ELSE ctl.desired
  /\ ctl' = Idle
  /\ UNCHANGED <<spec, cache, node, asked, quiet>>

Reconcile ==
  ReconcileNodeTaints \/ ReadNodeAgain \/ ApplyNodeTaints \/ PatchAppliedStatus

(***************************************************************************)
(* Everybody else.                                                         *)
(***************************************************************************)
CountEvent == events < MaxEvents /\ events' = events + 1

\* The process dies; the restart lists afresh.
Crash ==
  /\ ctl.pc # "idle"
  /\ CountEvent
  /\ ctl' = Idle
  /\ cache' = [spec |-> spec, applied |-> applied]
  /\ UNCHANGED <<spec, applied, node, asked, quiet>>

Observe ==
  /\ cache # [spec |-> spec, applied |-> applied]
  /\ cache' = [spec |-> spec, applied |-> applied]
  /\ UNCHANGED <<spec, applied, node, ctl, events, asked, quiet>>

UserEdits ==
  /\ CountEvent
  /\ \/ \E s \in Slots, v \in Values \cup {Absent} :
          /\ v # spec.taints[s]
          /\ spec' = [spec EXCEPT !.taints[s] = v]
          /\ asked' = [asked EXCEPT ![s] = @ \cup ({v} \ {Absent})]
     \/ ~spec.terminating /\ spec' = [spec EXCEPT !.terminating = TRUE] /\ UNCHANGED asked
  /\ UNCHANGED <<applied, cache, node, ctl, quiet>>

AdminEdits ==
  /\ node.exists
  /\ CountEvent
  /\ \E s \in Slots, v \in Values \cup {Absent} :
       v # node.taints[s] /\ node' = [node EXCEPT !.taints[s] = v]
  /\ quiet' = FALSE
  /\ UNCHANGED <<spec, applied, cache, ctl, asked>>

\* The Node becomes ready or not, leaves, or comes back without taints.
NodeChanges ==
  /\ CountEvent
  /\ \/ node.exists /\ node' = [node EXCEPT !.ready = ~@]
     \/ node.exists /\ node' = [NewNode EXCEPT !.exists = FALSE]
     \/ ~node.exists /\ node' = [NewNode EXCEPT !.ready = TRUE]
  /\ quiet' = FALSE
  /\ UNCHANGED <<spec, applied, cache, ctl, asked>>

Next == Reconcile \/ Crash \/ Observe \/ UserEdits \/ AdminEdits \/ NodeChanges

Spec == Init /\ [][Next]_vars

(***************************************************************************)
(* handle_active_phase requeues after TIMER_REQUEUE_SECS whatever came of  *)
(* the taints; the reflector catches up. Nobody else owes anything.        *)
(***************************************************************************)
FairSpec == Spec /\ WF_vars(Reconcile) /\ WF_vars(Observe)

(***************************************************************************)
(* Properties.                                                             *)
(***************************************************************************)
\* The controller takes away or replaces only what spec.nodeTaints once asked for:
\* a taint with another value stays (diff_node_taints: conflicts), through stale
\* copies, lost records and a new Node under an old record, as long as nobody
\* writes the Node between the plan and the patch.
ForeignTaintsStay ==
  [][ctl.pc = "patch" /\ quiet /\ quiet' =>
       \A s \in Slots : node.taints[s] # node'.taints[s] /\ node.taints[s] # Absent
                          => node.taints[s] \in asked[s]]_vars

\* The record of a taint is dropped only when the taint is gone or has another
\* value: the patch that removes it comes before the status that forgets it. For a
\* reconcile that started from the current record, without other writers.
ForgottenTaintsAreGone ==
  [][quiet /\ quiet' /\ ctl.previous = applied =>
       \A s \in Slots : applied[s] # Absent /\ applied'[s] = Absent
                          => node.taints[s] # applied[s]]_vars

Steady == node.exists /\ node.ready /\ ~spec.terminating

\* Once the Node stays ready and no taint on it conflicts with the record, the
\* desired taints are on the Node and the record says so: no failed call, crash or
\* edit in mid-flight leaves the two apart for good.
TaintsConverge ==
  <>[](Steady /\ Diff(node.taints, spec.taints, applied).conflicts = {})
    => <>[](/\ applied = spec.taints
            /\ \A s \in Slots : spec.taints[s] # Absent => node.taints[s] = spec.taints[s])

=============================================================================
