-------------------------- MODULE ScheduledCapacity --------------------------
(***************************************************************************)
(* The reconciler of one ScheduledCapacity: it gates one numeric field of  *)
(* an object it owns by a provider's verdict, records in its status what   *)
(* it wrote, and waits for the consumer to hand the capacity back. One     *)
(* action per API call; between two calls the user changes the resource,   *)
(* the provider, the consumer and the cluster change, time passes, and the *)
(* process may die. The replica leads; a standby does nothing.             *)
(***************************************************************************)
EXTENDS Integers

CONSTANTS
  ActiveValues,  \* the values of spec.capacity.activeValue the user picks from
  Timeout,       \* spec.handback.timeout, in clock ticks
  MaxEvents      \* bound: changes of the resource and of the world around it,
                 \* failing API calls and crashes, together

ASSUME ConstantsAssumption ==
  /\ ActiveValues \subseteq Nat \ {0} /\ ActiveValues # {}
  /\ Timeout \in Nat
  /\ MaxEvents \in Nat

VARIABLES
  exists,   \* the ScheduledCapacity is in the API server
  spec,     \* its spec
  status,   \* its status
  seen,     \* the reflector's copy of the status
  owned,    \* the object the gate is on
  world,    \* the provider's verdict, and what resolve_target and the conflict
            \* check find in the cluster
  ctl,      \* the reconcile in progress
  events,   \* how much of the bound is used up
  (*************************************************************************)
  (* History variable: no action reads it.                                 *)
  (*************************************************************************)
  parted    \* why status.writtenValue and the object may differ: "record", the
            \* last write is not what the status records; "object", somebody
            \* deleted the object since

vars == <<exists, spec, status, seen, owned, world, ctl, events, parted>>

(***************************************************************************)
(* Data                                                                    *)
(***************************************************************************)
\* Option::None, for numbers.
None == -1

\* CAPACITY_INACTIVE_VALUE
Zero == 0

Values == {Zero} \cup ActiveValues

Phases == {"Unset", "Pending", "Active", "HandingBack", "HandbackTimedOut",
           "Inactive", "Disabled", "Terminated", "Error"}

Tristate == {"unset", "yes", "no"}

Verdicts == {"Active", "Inactive", "Unresolved"}

\* valid: "rejected" fails the path or timeout checks, "template" already sets
\* the capacity field, which only a write notices.
Specs == [enabled : BOOLEAN, killSwitch : BOOLEAN, activeValue : ActiveValues,
          hasDrainSignal : BOOLEAN, valid : {"ok", "rejected", "template"}]

\* What resolve_target answers: not actuable, actuable and absent, or owned.
Targets == {"blocked", "absent", "owned"}

Counters == {None, 0, 1}

\* deadline: ticks until it passes, 0 once it has. stamp: the lastTransitionTimes
\* of the conditions, told apart only by whether they moved.
Statuses == [phase : Phases, written : Values \cup {None}, active : Tristate,
             deadline : (0..Timeout) \cup {None}, complete : BOOLEAN,
             target : Targets, drained : Counters, stamp : {0, 1}]

NoStatus == [phase |-> "Unset", written |-> None, active |-> "unset",
             deadline |-> None, complete |-> FALSE, target |-> "blocked",
             drained |-> None, stamp |-> 0]

\* inUse: the consumer's counter at spec.handback.drainedPath.
Objects == [owner : {"nobody", "self", "other"}, value : Values, inUse : Counters]

NoObject == [owner |-> "nobody", value |-> Zero, inUse |-> None]

\* actuable: group allowed, CRD installed, both verbs granted.
Worlds == [verdict : Verdicts, actuable : BOOLEAN, conflict : BOOLEAN]

Steps == {"idle", "target", "conflict", "apply", "patch"}

\* spec, from: what the reconcile started with. fresh: ticks until its start plus
\* the timeout. expired: the recorded deadline was over at its start. write, next:
\* the decision, once there is one.
Control == [pc : Steps, spec : Specs, from : Statuses, fresh : 0..Timeout,
            expired : BOOLEAN, verdict : Verdicts, target : Targets,
            drained : Counters, write : Values \cup {None}, next : Statuses]

AnySpec == CHOOSE s \in Specs : TRUE

Idle == [pc |-> "idle", spec |-> AnySpec, from |-> NoStatus, fresh |-> 0,
         expired |-> FALSE, verdict |-> "Unresolved", target |-> "blocked",
         drained |-> None, write |-> None, next |-> NoStatus]

TypeOK ==
  /\ exists \in BOOLEAN
  /\ spec \in Specs
  /\ status \in Statuses
  /\ seen \in Statuses
  /\ owned \in Objects
  /\ world \in Worlds
  /\ ctl \in Control
  /\ events \in 0..MaxEvents
  /\ parted \subseteq {"record", "object"}

Init ==
  /\ exists = TRUE
  /\ spec \in {s \in Specs : s.enabled /\ ~s.killSwitch /\ s.valid = "ok"}
  /\ status = NoStatus
  /\ seen = NoStatus
  /\ owned = NoObject
  /\ world \in {w \in Worlds : w.actuable /\ ~w.conflict}
  /\ ctl = Idle
  /\ events = 0
  /\ parted = {}

(***************************************************************************)
(* decide, and the status it leads to.                                     *)
(***************************************************************************)
\* compose_should_be_active: an unresolved provider holds the recorded value.
ScheduleActive(from, verdict) ==
  \/ verdict = "Active"
  \/ verdict = "Unresolved" /\ from.active = "yes"

WriteIfChanged(from, desired) == IF from.written = desired THEN None ELSE desired

\* Mutant: every reconcile starts the clock again.
RestartDeadline(c) == c.fresh

\* The deadline that runs, or one that starts with this reconcile.
RunningDeadline(c) == IF c.from.deadline # None THEN c.from.deadline ELSE c.fresh

\* Mutant: a recorded deadline is taken for one that is over.
AnyDeadlinePassed(c) == c.from.deadline # None \/ Timeout = 0

\* Mutant: only a consumer that reports can miss the deadline.
ReportedDeadlinePassed(c) == c.expired /\ c.drained # None

\* input.now >= deadline, with the instant the reconcile started.
DeadlinePassed(c) == IF c.from.deadline # None THEN c.expired ELSE Timeout = 0

Decision(phase, write, deadline, complete) ==
  [phase |-> phase, write |-> write, deadline |-> deadline, complete |-> complete]

\* Mutant: a drained slice is taken to be at zero already.
DrainedNeedsNoZero(c) ==
  Decision("Inactive", IF c.drained = 0 THEN None ELSE WriteIfChanged(c.from, Zero), None, TRUE)

\* The end of decide: zero goes on, and the consumer's report or the deadline
\* tells the phase.
DecideInactive(c) ==
  LET write == WriteIfChanged(c.from, Zero)
      settled == IF c.spec.enabled THEN "Inactive" ELSE "Disabled"
  IN CASE ~c.spec.hasDrainSignal \/ c.drained = 0 -> Decision(settled, write, None, TRUE)
       [] OTHER -> Decision(IF DeadlinePassed(c) THEN "HandbackTimedOut" ELSE "HandingBack",
                            write, RunningDeadline(c), FALSE)

\* Mutant: a conflict writes nothing.
ConflictHolds(c, conflict) ==
  IF conflict THEN Decision("Error", None, None, FALSE)
  ELSE IF c.spec.enabled /\ ScheduleActive(c.from, c.verdict)
       THEN Decision("Active", WriteIfChanged(c.from, c.spec.activeValue), None, FALSE)
       ELSE DecideInactive(c)

\* Mutant: a window concedes only what was never written before.
ConcedeOnce(c, conflict) ==
  IF c.target # "blocked" /\ ~conflict /\ c.spec.enabled /\ ScheduleActive(c.from, c.verdict)
  THEN Decision("Active", IF c.from.written = None THEN c.spec.activeValue ELSE None, None, FALSE)
  ELSE DecideInactive(c)

Decide(c, conflict) ==
  CASE conflict ->
         Decision("Error", WriteIfChanged(c.from, Zero), None, FALSE)
    [] ~conflict /\ c.target = "blocked" ->
         Decision("Pending", None, None, FALSE)
    [] ~conflict /\ c.target # "blocked" /\ c.spec.killSwitch ->
         Decision("Terminated", WriteIfChanged(c.from, Zero), None, TRUE)
    [] OTHER ->
         IF c.spec.enabled /\ ScheduleActive(c.from, c.verdict)
         THEN Decision("Active", WriteIfChanged(c.from, c.spec.activeValue), None, FALSE)
         ELSE DecideInactive(c)

\* verdict.active(), null while unresolved.
RecordedActive(verdict) ==
  CASE verdict = "Active"     -> "yes"
    [] verdict = "Inactive"   -> "no"
    [] verdict = "Unresolved" -> "unset"

\* The condition statuses a status stands for.
Conditions(s) == <<s.phase = "Active", s.active # "unset", s.target # "blocked",
                   s.written # None, s.complete, s.phase = "Error">>

\* Mutant: every patch stamps the conditions afresh.
RestampAlways(from, s) == [s EXCEPT !.stamp = 1 - from.stamp]

\* merge_condition_timestamps: a timestamp moves only with its condition.
MergeStamps(from, s) ==
  [s EXCEPT !.stamp = IF Conditions(from) = Conditions(s) THEN from.stamp ELSE 1 - from.stamp]

\* build_status_value, before the conditions are merged in.
BuildStatus(c, d) ==
  [phase |-> d.phase, written |-> IF d.write # None THEN d.write ELSE c.from.written,
   active |-> RecordedActive(c.verdict), deadline |-> d.deadline,
   complete |-> d.complete, target |-> c.target, drained |-> c.drained, stamp |-> 0]

(***************************************************************************)
(* The reconcile, one action per API call. A call is answered ("ok"),      *)
(* refused without effect ("refused"), or takes effect while its answer is *)
(* lost ("lost"). An error ends the reconcile; error_policy requeues.      *)
(***************************************************************************)
Answers == {"ok"} \cup (IF events < MaxEvents THEN {"refused", "lost"} ELSE {})

Charge(a) == events' = IF a = "ok" THEN events ELSE events + 1

\* The start of reconcile up to the provider's answer; a transient failure to
\* read the provider counts as unresolved. A rejected path or timeout is an
\* error and changes nothing.
ResolveSchedule ==
  /\ ctl.pc = "idle" /\ exists /\ spec.valid # "rejected"
  /\ \E a \in Answers :
       /\ Charge(a)
       /\ ctl' = [Idle EXCEPT !.pc = "target", !.spec = spec, !.from = seen,
                              !.fresh = Timeout, !.expired = (seen.deadline = 0),
                              !.verdict = IF a = "ok" THEN world.verdict ELSE "Unresolved"]
  /\ UNCHANGED <<exists, spec, status, seen, owned, world, parted>>

TargetNow ==
  CASE ~world.actuable \/ owned.owner = "other"     -> "blocked"
    [] world.actuable /\ owned.owner = "nobody"     -> "absent"
    [] world.actuable /\ owned.owner = "self"       -> "owned"

\* read_i64_at, of an owned object only.
DrainedNow == IF TargetNow = "owned" /\ ctl.spec.hasDrainSignal THEN owned.inUse ELSE None

Resolved(target, drained) ==
  [ctl EXCEPT !.pc = "conflict", !.target = target, !.drained = drained]

\* Discovery (pinned_kind) that fails, for whatever reason, counts as a CRD that is not
\* installed; an access review or a read that fails is an error.
ResolveTarget ==
  /\ ctl.pc = "target"
  /\ \E a \in Answers :
       /\ Charge(a)
       /\ ctl' \in IF a = "ok" THEN {Resolved(TargetNow, DrainedNow)}
                   ELSE {Resolved("blocked", None), Idle}
  /\ UNCHANGED <<exists, spec, status, seen, owned, world, parted>>

\* detect_host_governance_conflict, then decide.
DecideNow ==
  LET d == Decide(ctl, world.conflict)
  IN [Idle EXCEPT !.pc = IF d.write = None THEN "patch" ELSE "apply",
                  !.spec = ctl.spec, !.from = ctl.from, !.target = ctl.target,
                  !.write = d.write,
                  !.next = MergeStamps(ctl.from, BuildStatus(ctl, d))]

DetectConflict ==
  /\ ctl.pc = "conflict"
  /\ \E a \in Answers :
       /\ Charge(a)
       /\ ctl' = IF a = "ok" THEN DecideNow ELSE Idle
  /\ UNCHANGED <<exists, spec, status, seen, owned, world, parted>>

\* apply_owned_object with no discovered resource: nothing is applied, and the
\* reconcile goes on to record the value.
ApplyNothing ==
  /\ ctl.pc = "apply" /\ ctl.target = "blocked"
  /\ ctl' = [ctl EXCEPT !.pc = "patch"]
  /\ parted' = parted \cup {"record"}
  /\ UNCHANGED <<exists, spec, status, seen, owned, world, events>>

\* inject_capacity_field refuses a template that sets the field itself.
InjectFails ==
  /\ ctl.pc = "apply" /\ ctl.target # "blocked" /\ ctl.spec.valid = "template"
  /\ ctl' = Idle
  /\ UNCHANGED <<exists, spec, status, seen, owned, world, events, parted>>

\* Mutant: a failed apply is logged and the status recorded all the same.
ApplyIgnoringErrors ==
  /\ ctl.pc = "apply" /\ ctl.target # "blocked" /\ ctl.spec.valid # "template"
  /\ \E a \in Answers :
       /\ Charge(a)
       /\ owned' = IF a = "refused" THEN owned
                   ELSE [owned EXCEPT !.owner = "self", !.value = ctl.write]
       /\ parted' = IF a = "refused" THEN parted ELSE {"record"}
  /\ ctl' = [ctl EXCEPT !.pc = "patch"]
  /\ UNCHANGED <<exists, spec, status, seen, world>>

\* The server-side apply, forced: it creates the object or takes over its spec.
ApplyOwnedObject ==
  /\ ctl.pc = "apply" /\ ctl.target # "blocked" /\ ctl.spec.valid # "template"
  /\ \E a \in Answers :
       /\ Charge(a)
       /\ IF a = "refused" THEN UNCHANGED <<owned, parted>>
          ELSE /\ owned' = [owned EXCEPT !.owner = "self", !.value = ctl.write]
               /\ parted' = {"record"}
       /\ ctl' = IF a = "ok" THEN [ctl EXCEPT !.pc = "patch"] ELSE Idle
  /\ UNCHANGED <<exists, spec, status, seen, world>>

\* The no-op guard: the desired status equals the one the reconcile started with.
SkipPatch ==
  /\ ctl.pc = "patch" /\ ctl.next = ctl.from
  /\ ctl' = Idle
  /\ UNCHANGED <<exists, spec, status, seen, owned, world, events, parted>>

\* History: what recording ctl.next does to the agreement with the object.
PartedAfter ==
  CASE ctl.write # None /\ ctl.target # "blocked"             -> parted \ {"record"}
    [] ctl.write = None /\ ctl.from.written # status.written  -> parted \cup {"record"}
    [] OTHER                                                  -> parted

\* A resource that is gone answers 404.
PatchStatus ==
  /\ ctl.pc = "patch" /\ ctl.next # ctl.from
  /\ \E a \in Answers :
       /\ Charge(a)
       /\ IF a = "refused" \/ ~exists THEN UNCHANGED <<status, parted>>
          ELSE status' = ctl.next /\ parted' = PartedAfter
  /\ ctl' = Idle
  /\ UNCHANGED <<exists, spec, seen, owned, world>>

CountEvent == events < MaxEvents /\ events' = events + 1

\* The process dies; the restart lists afresh.
Crash ==
  /\ ctl.pc # "idle"
  /\ CountEvent
  /\ ctl' = Idle
  /\ seen' = status
  /\ UNCHANGED <<exists, spec, status, owned, world, parted>>

Reconcile ==
  \/ ResolveSchedule \/ ResolveTarget \/ DetectConflict
  \/ ApplyNothing \/ InjectFails \/ ApplyOwnedObject \/ SkipPatch \/ PatchStatus

(***************************************************************************)
(* Everybody else.                                                         *)
(***************************************************************************)
Observe ==
  /\ seen # status
  /\ seen' = status
  /\ UNCHANGED <<exists, spec, status, owned, world, ctl, events, parted>>

\* One field at a time.
Edits ==
  {[spec EXCEPT !.enabled = ~@], [spec EXCEPT !.killSwitch = ~@],
   [spec EXCEPT !.hasDrainSignal = ~@]}
    \cup {[spec EXCEPT !.activeValue = v] : v \in ActiveValues}
    \cup {[spec EXCEPT !.valid = v] : v \in {"ok", "rejected", "template"}}

UserEdits ==
  /\ exists
  /\ CountEvent
  /\ \/ spec' \in Edits \ {spec} /\ UNCHANGED exists
     \/ exists' = FALSE /\ UNCHANGED spec
  /\ UNCHANGED <<status, seen, owned, world, ctl, parted>>

\* The provider, the cluster's CRDs and grants, and ScheduledMachines change.
WorldChanges ==
  /\ world' \in {[world EXCEPT !.verdict = v] : v \in Verdicts}
                \cup {[world EXCEPT !.actuable = ~@], [world EXCEPT !.conflict = ~@]}
  /\ world' # world
  /\ CountEvent
  /\ UNCHANGED <<exists, spec, status, seen, owned, ctl, parted>>

\* The consumer reports on an owned object.
ConsumerReports ==
  /\ owned.owner = "self"
  /\ owned' \in {[owned EXCEPT !.inUse = n] : n \in {0, 1}} \ {owned}
  /\ CountEvent
  /\ UNCHANGED <<exists, spec, status, seen, world, ctl, parted>>

\* Somebody creates an object of the same name, or deletes the one there is.
OthersObject ==
  /\ owned' = IF owned.owner = "nobody" THEN [NoObject EXCEPT !.owner = "other"] ELSE NoObject
  /\ parted' = IF owned.owner = "self" THEN parted \cup {"object"} ELSE parted
  /\ CountEvent
  /\ UNCHANGED <<exists, spec, status, seen, world, ctl>>

\* The owner reference lets the object go with its ScheduledCapacity.
GarbageCollect ==
  /\ ~exists /\ owned.owner = "self"
  /\ owned' = NoObject
  /\ UNCHANGED <<exists, spec, status, seen, world, ctl, events, parted>>

Sooner(d) == IF d > 0 THEN d - 1 ELSE d

Aged(s) == [s EXCEPT !.deadline = Sooner(@)]

\* Time passes for every copy of a deadline alike.
Tick ==
  /\ status' = Aged(status)
  /\ seen' = Aged(seen)
  /\ ctl' = [ctl EXCEPT !.from = Aged(@), !.next = Aged(@), !.fresh = Sooner(@)]
  /\ <<status', seen', ctl'>> # <<status, seen, ctl>>
  /\ UNCHANGED <<exists, spec, owned, world, events, parted>>

Environment ==
  \/ UserEdits \/ WorldChanges \/ ConsumerReports \/ OthersObject \/ GarbageCollect

Next == Reconcile \/ Crash \/ Observe \/ Environment \/ Tick

Spec == Init /\ [][Next]_vars

(***************************************************************************)
(* Every outcome of a reconcile requeues, and so does error_policy; the    *)
(* reflector catches up, the clock runs, and garbage is collected. Users,  *)
(* providers, consumers and faults owe nothing.                            *)
(***************************************************************************)
Fairness ==
  WF_vars(Reconcile) /\ WF_vars(Observe) /\ WF_vars(Tick) /\ WF_vars(GarbageCollect)

FairSpec == Spec /\ Fairness

(***************************************************************************)
(* Safety.                                                                 *)
(***************************************************************************)
\* reconcile writes the object before the status, so the value the status
\* records is the value on the object, whatever is edited, fails or dies in
\* between; but for a write whose record was lost, a record made from a stale
\* status or for a target that could not be written, and an object that somebody
\* else deleted (parted). In these cases write_if_changed compares with a value that
\* is not on the object: what the status already records is not written again.
RecordedValueStands ==
  exists /\ parted = {} /\ status.written # None =>
    owned.owner = "self" /\ owned.value = status.written

\* A status that calls the handback complete (decide: Inactive, Disabled,
\* Terminated) stands for an object at zero, unless parted: after an active value whose
\* record was lost, a window that closes again finds zero recorded, writes nothing, and
\* the handback is called complete with the active value on the object.
CompleteMeansZero == exists /\ parted = {} /\ status.complete => owned.value = Zero

Current == ctl.from = status

\* decide keeps the recorded deadline however often it is asked: from the current
\* status, no reconcile moves a running deadline back.
DeadlineKept ==
  [][Current /\ status.deadline # None /\ status'.deadline # None
       => status'.deadline <= status.deadline]_vars

\* HandbackTimedOut is reported only when the recorded deadline is over.
TimeoutNotEarly ==
  [][Current /\ status.phase # "HandbackTimedOut" /\ status'.phase = "HandbackTimedOut"
       => status.deadline = 0 \/ Timeout = 0]_vars

(***************************************************************************)
(* Liveness.                                                               *)
(***************************************************************************)
\* Also, no write of the object is without its record, for good: where one is, the status
\* keeps decide from the write that would settle it.
Settled == exists /\ spec.valid = "ok" /\ world.actuable /\ owned.owner # "other" /\ parted = {}

Closed == spec.killSwitch \/ world.conflict \/ ~spec.enabled \/ world.verdict = "Inactive"

\* A window that stays closed, a kill switch, a disabled resource or a conflict
\* ends with zero on the object, once record and object agree (Settled): after a lost
\* record of an active value, zero may never be written.
ClosedWindowZeroes == <>[](Settled /\ Closed) => <>[](owned.value = Zero)

Conceded == spec.enabled /\ ~spec.killSwitch /\ ~world.conflict /\ world.verdict = "Active"

\* A window that stays open ends with the active value on the object, once record and
\* object agree (Settled): after a lost record of a zero, a value that the status already
\* records is not written again.
OpenWindowConcedes ==
  <>[](Settled /\ Conceded) => <>[](owned.value = spec.activeValue)

\* A consumer that never drains after the window closed is reported.
MissedHandbackReported ==
  <>[](/\ Settled /\ world.verdict = "Inactive" /\ spec.enabled /\ ~spec.killSwitch
       /\ ~world.conflict /\ spec.hasDrainSignal /\ owned.inUse # 0)
    => <>[](status.phase = "HandbackTimedOut")

\* The status patch wakes the controller's own watch. Once the world is still,
\* the status comes to rest (merge_condition_timestamps and the no-op guard).
StatusComesToRest == <>[][status' = Aged(status) \/ status' = status]_vars

=============================================================================
