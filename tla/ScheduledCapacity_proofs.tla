---------------------- MODULE ScheduledCapacity_proofs ----------------------
(***************************************************************************)
(* Proofs about ScheduledCapacity, for any active values, any handback     *)
(* timeout and any number of events.                                       *)
(***************************************************************************)
EXTENDS ScheduledCapacity, TLAPS

(***************************************************************************)
(* The inductive invariant, one definition per piece of the argument.      *)
(***************************************************************************)
Shape ==
  /\ spec \in Specs /\ status \in Statuses /\ seen \in Statuses
  /\ owned \in Objects /\ world \in Worlds /\ ctl \in Control
  /\ parted \subseteq {"record", "object"}
  /\ ctl.pc = "apply" => ctl.write # None

Decided == ctl.pc \in {"apply", "patch"}

ZeroIfComplete(s) == s.complete => s.written = Zero

\* decide calls a handback complete only together with a zero, in every copy of the
\* status.
CompleteRecordsZero ==
  /\ ZeroIfComplete(status) /\ ZeroIfComplete(seen)
  /\ ZeroIfComplete(ctl.from) /\ ZeroIfComplete(ctl.next)

\* The status that will be written records the value that is written, or the one the
\* reconcile started from.
NextRecords ==
  Decided => ctl.next.written = IF ctl.write # None THEN ctl.write ELSE ctl.from.written

\* Between the write and its record the object holds the value, unless somebody
\* deleted it, or there was nothing to write to.
WriteBooked ==
  ctl.pc = "patch" /\ ctl.write # None =>
    IF ctl.target = "blocked" THEN "record" \in parted
    ELSE exists /\ "object" \notin parted => owned.owner = "self" /\ owned.value = ctl.write

\* decide keeps a running deadline, and reports a timeout only of one that is over.
DeadlineBooked ==
  /\ ctl.expired => ctl.from.deadline = 0
  /\ Decided /\ ctl.from.deadline # None /\ ctl.next.deadline # None
       => ctl.next.deadline = ctl.from.deadline
  /\ Decided /\ ctl.next.phase = "HandbackTimedOut" => ctl.from.deadline = 0 \/ Timeout = 0

(***************************************************************************)
(* Lemmas about the operators of the model.                                *)
(***************************************************************************)
\* No reconcile in progress, and the status of a resource never reconciled.
LEMMA IdleFacts ==
  /\ Idle \in Control /\ Idle.pc = "idle" /\ Idle.expired = FALSE
  /\ NoStatus \in Statuses /\ ~NoStatus.complete
  /\ Idle.from = NoStatus /\ Idle.next = NoStatus
<1>1. NoStatus \in Statuses /\ ~NoStatus.complete
  BY DEF NoStatus, Statuses, Phases, Tristate, Targets, Counters
<1>2. AnySpec \in Specs
  <2>1. PICK v \in ActiveValues : TRUE
    BY ConstantsAssumption DEF ConstantsAssumption
  <2>2. [enabled |-> TRUE, killSwitch |-> TRUE, activeValue |-> v,
         hasDrainSignal |-> TRUE, valid |-> "ok"] \in Specs
    BY DEF Specs
  <2> QED
    BY <2>2 DEF AnySpec
<1>3. 0 \in 0..Timeout
  BY ConstantsAssumption DEF ConstantsAssumption
<1> QED
  BY <1>1, <1>2, <1>3 DEF Idle, Control, Steps, Verdicts, Targets, Counters

\* Ageing a status moves its deadline and nothing else.
LEMMA AgedFacts ==
  ASSUME NEW s \in Statuses
  PROVE  /\ Aged(s) \in Statuses
         /\ Aged(s).deadline = Sooner(s.deadline)
         /\ Aged(s).deadline = None <=> s.deadline = None
         /\ s.deadline = 0 => Aged(s).deadline = 0
         /\ Aged(s).written = s.written /\ Aged(s).phase = s.phase
         /\ Aged(s).complete = s.complete
<1>1. s.deadline \in (0..Timeout) \cup {None}
  BY DEF Statuses
<1>2. /\ Sooner(s.deadline) \in (0..Timeout) \cup {None}
      /\ Sooner(s.deadline) = None <=> s.deadline = None
      /\ s.deadline = 0 => Sooner(s.deadline) = 0
  BY <1>1, ConstantsAssumption DEF Sooner, None, ConstantsAssumption
<1> QED
  BY <1>2 DEF Aged, Statuses

Decisions == [phase : Phases, write : Values \cup {None},
              deadline : (0..Timeout) \cup {None}, complete : BOOLEAN]

\* What the properties need to know of decide.
SoundDecision(c, d) ==
  /\ d \in Decisions
  /\ d.complete => d.write = WriteIfChanged(c.from, Zero)
  /\ c.from.deadline # None /\ d.deadline # None => d.deadline = c.from.deadline
  /\ d.phase = "HandbackTimedOut" => c.expired \/ Timeout = 0

\* A value that is not recorded yet is written.
LEMMA WriteFacts ==
  ASSUME NEW c \in Control, NEW v \in Values
  PROVE  WriteIfChanged(c.from, v) \in Values \cup {None}
  BY DEF WriteIfChanged

\* A closed window: zero, and a deadline unless the handback is complete.
LEMMA DecideInactiveFacts ==
  ASSUME NEW c \in Control
  PROVE  SoundDecision(c, DecideInactive(c))
<1> DEFINE write == WriteIfChanged(c.from, Zero)
<1>1. write \in Values \cup {None}
  BY WriteFacts DEF Values
<1>2. /\ RunningDeadline(c) \in (0..Timeout) \cup {None}
      /\ c.from.deadline # None => RunningDeadline(c) = c.from.deadline
  BY DEF RunningDeadline, Control, Statuses
<1>3. DeadlinePassed(c) => c.expired \/ Timeout = 0
  BY DEF DeadlinePassed
<1> HIDE DEF write
<1>4. \/ \E p \in {"Inactive", "Disabled"} : DecideInactive(c) = Decision(p, write, None, TRUE)
      \/ DeadlinePassed(c)
         /\ DecideInactive(c) = Decision("HandbackTimedOut", write, RunningDeadline(c), FALSE)
      \/ DecideInactive(c) = Decision("HandingBack", write, RunningDeadline(c), FALSE)
  BY DEF DecideInactive, write
<1>5. CASE \E p \in {"Inactive", "Disabled"} : DecideInactive(c) = Decision(p, write, None, TRUE)
  BY <1>1, <1>5 DEF Decision, SoundDecision, Decisions, Phases, write
<1>6. CASE /\ DeadlinePassed(c)
           /\ DecideInactive(c) = Decision("HandbackTimedOut", write, RunningDeadline(c), FALSE)
  BY <1>1, <1>2, <1>3, <1>6 DEF Decision, SoundDecision, Decisions, Phases
<1>7. CASE DecideInactive(c) = Decision("HandingBack", write, RunningDeadline(c), FALSE)
  BY <1>1, <1>2, <1>7 DEF Decision, SoundDecision, Decisions, Phases
<1> QED
  BY <1>4, <1>5, <1>6, <1>7

\* decide as a whole.
LEMMA DecideFacts ==
  ASSUME NEW c \in Control, NEW conflict
  PROVE  SoundDecision(c, Decide(c, conflict))
<1>1. WriteIfChanged(c.from, Zero) \in Values \cup {None}
  BY WriteFacts DEF Values
<1>2. WriteIfChanged(c.from, c.spec.activeValue) \in Values \cup {None}
  BY WriteFacts DEF Values, Control, Specs
<1>3. \/ Decide(c, conflict) = Decision("Error", WriteIfChanged(c.from, Zero), None, FALSE)
      \/ Decide(c, conflict) = Decision("Pending", None, None, FALSE)
      \/ Decide(c, conflict) = Decision("Terminated", WriteIfChanged(c.from, Zero), None, TRUE)
      \/ Decide(c, conflict) =
           Decision("Active", WriteIfChanged(c.from, c.spec.activeValue), None, FALSE)
      \/ Decide(c, conflict) = DecideInactive(c)
  BY DEF Decide
<1>4. CASE Decide(c, conflict) = Decision("Error", WriteIfChanged(c.from, Zero), None, FALSE)
  BY <1>1, <1>4 DEF Decision, SoundDecision, Decisions, Phases
<1>5. CASE Decide(c, conflict) = Decision("Pending", None, None, FALSE)
  BY <1>5 DEF Decision, SoundDecision, Decisions, Phases
<1>6. CASE Decide(c, conflict) = Decision("Terminated", WriteIfChanged(c.from, Zero), None, TRUE)
  BY <1>1, <1>6 DEF Decision, SoundDecision, Decisions, Phases
<1>7. CASE Decide(c, conflict) =
             Decision("Active", WriteIfChanged(c.from, c.spec.activeValue), None, FALSE)
  BY <1>2, <1>7 DEF Decision, SoundDecision, Decisions, Phases
<1> QED
  BY <1>3, <1>4, <1>5, <1>6, <1>7, DecideInactiveFacts

\* The decision, once made, and the status built from it.
LEMMA DecideNowFacts ==
  ASSUME ctl \in Control
  PROVE  /\ DecideNow \in Control
         /\ DecideNow.pc = IF DecideNow.write = None THEN "patch" ELSE "apply"
         /\ DecideNow.from = ctl.from /\ DecideNow.expired = FALSE
         /\ DecideNow.next.written =
              IF DecideNow.write # None THEN DecideNow.write ELSE ctl.from.written
         /\ ZeroIfComplete(DecideNow.next)
         /\ ctl.from.deadline # None /\ DecideNow.next.deadline # None
              => DecideNow.next.deadline = ctl.from.deadline
         /\ DecideNow.next.phase = "HandbackTimedOut" => ctl.expired \/ Timeout = 0
<1> DEFINE d == Decide(ctl, world.conflict)
           b == BuildStatus(ctl, d)
           n == MergeStamps(ctl.from, b)
<1>1. SoundDecision(ctl, d)
  BY DecideFacts
<1> HIDE DEF d
<1>2. ctl.from \in Statuses /\ ctl.verdict \in Verdicts
      /\ ctl.target \in Targets /\ ctl.drained \in Counters /\ ctl.spec \in Specs
  BY DEF Control
<1>3. RecordedActive(ctl.verdict) \in Tristate
  BY <1>2 DEF RecordedActive, Verdicts, Tristate
<1>4. b \in Statuses
  BY <1>1, <1>2, <1>3 DEF BuildStatus, SoundDecision, Decisions, Statuses
<1>5. /\ b.phase = d.phase /\ b.deadline = d.deadline /\ b.complete = d.complete
      /\ b.written = IF d.write # None THEN d.write ELSE ctl.from.written
  BY DEF BuildStatus
<1> HIDE DEF b
<1>6. ctl.from.stamp \in {0, 1} /\ 1 - ctl.from.stamp \in {0, 1}
  BY <1>2 DEF Statuses
<1>7. /\ n \in Statuses
      /\ n.phase = b.phase /\ n.deadline = b.deadline /\ n.complete = b.complete
      /\ n.written = b.written
  BY <1>4, <1>6 DEF MergeStamps, Statuses
<1> HIDE DEF n
<1>8. DecideNow = [Idle EXCEPT !.pc = IF d.write = None THEN "patch" ELSE "apply",
                               !.spec = ctl.spec, !.from = ctl.from, !.target = ctl.target,
                               !.write = d.write, !.next = n]
  BY DEF DecideNow, d, b, n
<1>9. d.write \in Values \cup {None}
  BY <1>1 DEF SoundDecision, Decisions
<1>10. /\ DecideNow \in Control
       /\ DecideNow.pc = IF d.write = None THEN "patch" ELSE "apply"
       /\ DecideNow.from = ctl.from /\ DecideNow.expired = FALSE
       /\ DecideNow.write = d.write /\ DecideNow.next = n
  BY <1>2, <1>7, <1>8, <1>9, IdleFacts DEF Control, Steps
<1>11. n.complete => n.written = Zero
  BY <1>1, <1>5, <1>7 DEF SoundDecision, WriteIfChanged, Zero, None
<1> QED
  BY <1>1, <1>5, <1>7, <1>10, <1>11 DEF SoundDecision, ZeroIfComplete

(***************************************************************************)
(* The steps, by what they do to the reconcile in progress and to the      *)
(* copies of the status.                                                   *)
(***************************************************************************)
Starts == /\ ctl'.pc = "target" /\ ctl'.from = seen /\ ctl'.next = NoStatus
          /\ ctl'.expired = (seen.deadline = 0)

GoesOn == /\ ctl'.from = ctl.from /\ ctl'.next = ctl.next
          /\ ctl'.write = ctl.write /\ ctl'.expired = ctl.expired
          /\ \/ ctl.pc = "target" /\ ctl'.pc = "conflict"
             \/ ctl.pc = "apply" /\ ctl'.pc = "patch" /\ ctl'.target = ctl.target

\* What a clock tick does to the reconcile in progress.
LEMMA TickFacts ==
  ASSUME ctl \in Control, Tick
  PROVE  /\ ctl' \in Control
         /\ ctl'.from = Aged(ctl.from) /\ ctl'.next = Aged(ctl.next)
         /\ ctl'.pc = ctl.pc /\ ctl'.write = ctl.write /\ ctl'.target = ctl.target
         /\ ctl'.expired = ctl.expired
<1>1. ctl.from \in Statuses /\ ctl.next \in Statuses /\ ctl.fresh \in 0..Timeout
  BY DEF Control
<1>2. Aged(ctl.from) \in Statuses /\ Aged(ctl.next) \in Statuses
  BY <1>1, AgedFacts
<1>3. Sooner(ctl.fresh) \in 0..Timeout
  BY <1>1, ConstantsAssumption DEF Sooner, ConstantsAssumption
<1> QED
  BY <1>2, <1>3 DEF Tick, Control

\* The reconcile in progress starts from the cached status.
LEMMA StartFacts ==
  ASSUME Shape, ResolveSchedule
  PROVE  ctl' \in Control /\ Starts
<1>1. PICK a \in Answers :
        ctl' = [Idle EXCEPT !.pc = "target", !.spec = spec, !.from = seen,
                            !.fresh = Timeout, !.expired = (seen.deadline = 0),
                            !.verdict = IF a = "ok" THEN world.verdict ELSE "Unresolved"]
  BY DEF ResolveSchedule
<1>2. (IF a = "ok" THEN world.verdict ELSE "Unresolved") \in Verdicts
  BY DEF Shape, Worlds, Verdicts
<1>3. Timeout \in 0..Timeout /\ (seen.deadline = 0) \in BOOLEAN
  BY ConstantsAssumption DEF ConstantsAssumption
<1> QED
  BY <1>1, <1>2, <1>3, IdleFacts DEF Control, Steps, Shape, Starts

\* The steps that go on with the reconcile in progress move it along or end it.
LEMMA OngoingFacts ==
  ASSUME Shape, ResolveTarget \/ ApplyNothing \/ ApplyOwnedObject
  PROVE  ctl' = Idle \/ (ctl' \in Control /\ GoesOn)
<1>1. CASE ResolveTarget
  <2>1. TargetNow \in Targets
    BY DEF TargetNow, Targets, Shape, Objects, Worlds
  <2>2. DrainedNow \in Counters
    BY DEF DrainedNow, Counters, Shape, Objects
  <2>3. /\ ctl.pc = "target"
        /\ \/ ctl' = Idle \/ ctl' = Resolved(TargetNow, DrainedNow)
           \/ ctl' = Resolved("blocked", None)
    BY <1>1 DEF ResolveTarget
  <2>4. ASSUME NEW t \in Targets, NEW n \in Counters, ctl' = Resolved(t, n)
        PROVE  /\ ctl' \in Control /\ ctl'.pc = "conflict"
               /\ ctl'.from = ctl.from /\ ctl'.next = ctl.next
               /\ ctl'.write = ctl.write /\ ctl'.expired = ctl.expired
    BY <2>4 DEF Resolved, Shape, Control, Steps
  <2>5. "blocked" \in Targets /\ None \in Counters
    BY DEF Targets, Counters
  <2> QED
    BY <2>1, <2>2, <2>3, <2>4, <2>5 DEF GoesOn
<1>2. CASE ApplyNothing \/ ApplyOwnedObject
  <2>1. ctl.pc = "apply" /\ (ctl' = Idle \/ ctl' = [ctl EXCEPT !.pc = "patch"])
    BY <1>2 DEF ApplyNothing, ApplyOwnedObject
  <2> QED
    BY <2>1 DEF Shape, Control, Steps, GoesOn
<1> QED
  BY <1>1, <1>2

\* Every step but a tick leaves the reconcile alone, ends it, starts it, decides it
\* or moves it along.
LEMMA ControlSteps ==
  ASSUME Shape, [Next]_vars, ~Tick
  PROVE  /\ ctl' \in Control
         /\ ctl' = ctl \/ ctl' = Idle \/ Starts \/ GoesOn \/ (ctl.pc = "conflict" /\ ctl' = DecideNow)
<1>1. CASE ResolveSchedule
  BY <1>1, StartFacts
<1>2. CASE ResolveTarget \/ ApplyNothing \/ ApplyOwnedObject
  BY <1>2, OngoingFacts, IdleFacts
<1>3. CASE DetectConflict
  BY <1>3, DecideNowFacts, IdleFacts DEF DetectConflict, Shape
<1>4. CASE InjectFails \/ SkipPatch \/ PatchStatus \/ Crash
  BY <1>4, IdleFacts DEF InjectFails, SkipPatch, PatchStatus, Crash
<1>5. CASE Observe \/ Environment \/ UNCHANGED vars
  BY <1>5 DEF Observe, Environment, UserEdits, WorldChanges, ConsumerReports, OthersObject,
             GarbageCollect, vars, Shape
<1> QED
  BY <1>1, <1>2, <1>3, <1>4, <1>5 DEF Next, Reconcile

\* The status changes when a reconcile patches it, and the cached copy when it
\* catches up.
LEMMA StatusSteps ==
  ASSUME Shape, [Next]_vars, ~Tick
  PROVE  /\ status' = status \/ (PatchStatus /\ status' = ctl.next)
         /\ seen' = seen \/ seen' = status
  BY DEF Next, Reconcile, ResolveSchedule, ResolveTarget, DetectConflict, ApplyNothing,
         InjectFails, ApplyOwnedObject, SkipPatch, PatchStatus, Crash, Observe, Environment,
         UserEdits, WorldChanges, ConsumerReports, OthersObject, GarbageCollect, vars

\* Every variable keeps its type.
LEMMA ShapeHolds == Spec => []Shape
<1>1. Init => Shape
  <2> SUFFICES ASSUME Init PROVE Shape
    OBVIOUS
  <2>1. NoObject \in Objects
    BY DEF NoObject, Objects, Values, Counters
  <2> QED
    BY <2>1, IdleFacts DEF Init, Shape
<1>2. Shape /\ [Next]_vars => Shape'
  <2> SUFFICES ASSUME Shape, [Next]_vars PROVE Shape'
    OBVIOUS
  <2>1. CASE Tick
    <3>1. status' \in Statuses /\ seen' \in Statuses
      BY <2>1, AgedFacts DEF Tick, Shape
    <3>2. ctl' \in Control /\ (ctl'.pc = "apply" => ctl'.write # None)
      BY <2>1, TickFacts DEF Shape
    <3> QED
      BY <2>1, <3>1, <3>2 DEF Tick, Shape
  <2>2. CASE ~Tick
    <3>1. ctl' \in Control /\ (ctl'.pc = "apply" => ctl'.write # None)
      BY <2>2, ControlSteps, DecideNowFacts, IdleFacts DEF Shape, Starts, GoesOn
    <3>2. status' \in Statuses /\ seen' \in Statuses
      BY <2>2, StatusSteps DEF Shape, Control
    <3>3. spec' \in Specs
      <4>1. CASE UserEdits
        <5>1. ASSUME NEW e \in Edits PROVE e \in Specs
          <6>1. \/ e = [spec EXCEPT !.enabled = ~@] \/ e = [spec EXCEPT !.killSwitch = ~@]
                \/ e = [spec EXCEPT !.hasDrainSignal = ~@]
                \/ \E v \in ActiveValues : e = [spec EXCEPT !.activeValue = v]
                \/ \E v \in {"ok", "rejected", "template"} : e = [spec EXCEPT !.valid = v]
            BY DEF Edits
          <6> QED
            BY <6>1 DEF Shape, Specs
        <5> QED
          BY <4>1, <5>1 DEF UserEdits, Shape
      <4>2. CASE ~UserEdits
        BY <2>2, <4>2 DEF Next, Reconcile, ResolveSchedule, ResolveTarget, DetectConflict,
             ApplyNothing, InjectFails, ApplyOwnedObject, SkipPatch, PatchStatus, Crash,
             Observe, Environment, WorldChanges, ConsumerReports, OthersObject,
             GarbageCollect, vars, Shape
      <4> QED
        BY <4>1, <4>2
    <3>4. world' \in Worlds
      <4>1. CASE WorldChanges
        <5>1. PICK v \in Verdicts : \/ world' = [world EXCEPT !.verdict = v]
                                    \/ world' = [world EXCEPT !.actuable = ~@]
                                    \/ world' = [world EXCEPT !.conflict = ~@]
          BY <4>1 DEF WorldChanges, Verdicts
        <5> QED
          BY <5>1 DEF Shape, Worlds
      <4>2. CASE ~WorldChanges
        BY <2>2, <4>2 DEF Next, Reconcile, ResolveSchedule, ResolveTarget, DetectConflict,
             ApplyNothing, InjectFails, ApplyOwnedObject, SkipPatch, PatchStatus, Crash,
             Observe, Environment, UserEdits, ConsumerReports, OthersObject,
             GarbageCollect, vars, Shape
      <4> QED
        BY <4>1, <4>2
    <3>5. owned' \in Objects /\ parted' \subseteq {"record", "object"}
      <4>1. CASE ApplyOwnedObject
        <5>1. ctl.write \in Values
          BY <4>1 DEF ApplyOwnedObject, Shape, Control
        <5> QED
          BY <4>1, <5>1 DEF ApplyOwnedObject, Shape, Objects
      <4>2. CASE ConsumerReports
        BY <4>2 DEF ConsumerReports, Shape, Objects, Counters
      <4>3. CASE OthersObject \/ GarbageCollect
        BY <4>3 DEF OthersObject, GarbageCollect, NoObject, Shape, Objects, Values, Counters
      <4>4. CASE ApplyNothing \/ PatchStatus
        BY <4>4 DEF ApplyNothing, PatchStatus, PartedAfter, Shape
      <4>5. CASE \/ ResolveSchedule \/ ResolveTarget \/ DetectConflict \/ InjectFails
                 \/ SkipPatch \/ Crash \/ Observe \/ UserEdits \/ WorldChanges \/ UNCHANGED vars
        BY <4>5 DEF ResolveSchedule, ResolveTarget, DetectConflict, InjectFails, SkipPatch,
                   Crash, Observe, UserEdits, WorldChanges, vars, Shape
      <4> QED
        BY <2>2, <4>1, <4>2, <4>3, <4>4, <4>5 DEF Next, Reconcile, Environment
    <3> QED
      BY <3>1, <3>2, <3>3, <3>4, <3>5 DEF Shape
  <2> QED
    BY <2>1, <2>2
<1> QED
  BY <1>1, <1>2, PTL DEF Spec

(***************************************************************************)
(* The pieces of the argument.                                             *)
(***************************************************************************)
\* In every copy of the status, complete comes with a recorded zero.
LEMMA CompleteRecordsZeroHolds == Spec => []CompleteRecordsZero
<1>1. Init => CompleteRecordsZero
  BY IdleFacts DEF Init, CompleteRecordsZero, ZeroIfComplete
<1>2. Shape /\ CompleteRecordsZero /\ [Next]_vars => CompleteRecordsZero'
  <2> SUFFICES ASSUME Shape, CompleteRecordsZero, [Next]_vars PROVE CompleteRecordsZero'
    OBVIOUS
  <2>1. CASE Tick
    <3>1. status \in Statuses /\ seen \in Statuses /\ ctl.from \in Statuses /\ ctl.next \in Statuses
      BY DEF Shape, Control
    <3>2. status' = Aged(status) /\ seen' = Aged(seen)
          /\ ctl'.from = Aged(ctl.from) /\ ctl'.next = Aged(ctl.next)
      BY <2>1, TickFacts DEF Tick, Shape
    <3> QED
      BY <3>1, <3>2, AgedFacts DEF CompleteRecordsZero, ZeroIfComplete
  <2>2. CASE ~Tick
    <3>1. ZeroIfComplete(status') /\ ZeroIfComplete(seen')
      BY <2>2, StatusSteps DEF CompleteRecordsZero
    <3>2. ZeroIfComplete(ctl'.from) /\ ZeroIfComplete(ctl'.next)
      <4>1. ZeroIfComplete(NoStatus)
        BY IdleFacts DEF ZeroIfComplete
      <4> QED
        BY <2>2, <4>1, ControlSteps, DecideNowFacts, IdleFacts
           DEF Shape, CompleteRecordsZero, Starts, GoesOn
    <3> QED
      BY <3>1, <3>2 DEF CompleteRecordsZero
  <2> QED
    BY <2>1, <2>2
<1> QED
  BY <1>1, <1>2, ShapeHolds, PTL DEF Spec

\* The status that is going to be written records the value that was decided.
LEMMA NextRecordsHolds == Spec => []NextRecords
<1>1. Init => NextRecords
  BY IdleFacts DEF Init, NextRecords, Decided
<1>2. Shape /\ NextRecords /\ [Next]_vars => NextRecords'
  <2> SUFFICES ASSUME Shape, NextRecords, [Next]_vars PROVE NextRecords'
    OBVIOUS
  <2>1. CASE Tick
    <3>1. ctl.from \in Statuses /\ ctl.next \in Statuses
      BY DEF Shape, Control
    <3> QED
      BY <2>1, <3>1, TickFacts, AgedFacts DEF Shape, NextRecords, Decided
  <2>2. CASE ~Tick
    BY <2>2, ControlSteps, DecideNowFacts, IdleFacts DEF Shape, NextRecords, Decided, Starts, GoesOn
  <2> QED
    BY <2>1, <2>2
<1> QED
  BY <1>1, <1>2, ShapeHolds, PTL DEF Spec

\* What decide makes of a deadline stays true while the decision is carried out.
LEMMA DeadlineBookedHolds == Spec => []DeadlineBooked
<1>1. Init => DeadlineBooked
  BY IdleFacts DEF Init, DeadlineBooked, Decided
<1>2. Shape /\ DeadlineBooked /\ [Next]_vars => DeadlineBooked'
  <2> SUFFICES ASSUME Shape, DeadlineBooked, [Next]_vars PROVE DeadlineBooked'
    OBVIOUS
  <2>1. CASE Tick
    <3>1. ctl.from \in Statuses /\ ctl.next \in Statuses
      BY DEF Shape, Control
    <3> QED
      BY <2>1, <3>1, TickFacts, AgedFacts DEF Shape, DeadlineBooked, Decided
  <2>2. CASE ~Tick
    BY <2>2, ControlSteps, DecideNowFacts, IdleFacts
       DEF Shape, DeadlineBooked, Decided, Starts, GoesOn
  <2> QED
    BY <2>1, <2>2
<1> QED
  BY <1>1, <1>2, ShapeHolds, PTL DEF Spec

\* Until it is recorded, the value that was written stays on the object.
LEMMA WriteBookedHolds == Spec => []WriteBooked
<1>1. Init => WriteBooked
  BY IdleFacts DEF Init, WriteBooked
<1>2. Shape /\ WriteBooked /\ [Next]_vars => WriteBooked'
  <2> SUFFICES ASSUME Shape, WriteBooked, [Next]_vars PROVE WriteBooked'
    OBVIOUS
  <2>1. CASE ResolveSchedule
    BY <2>1, StartFacts DEF WriteBooked, Starts
  <2>2. CASE ResolveTarget
    BY <2>2, OngoingFacts, IdleFacts DEF WriteBooked, ResolveTarget, GoesOn
  <2>3. CASE DetectConflict
    BY <2>3, DecideNowFacts, IdleFacts DEF WriteBooked, DetectConflict, Shape
  <2>4. CASE ApplyNothing
    BY <2>4 DEF WriteBooked, ApplyNothing, Shape, Control
  <2>5. CASE ApplyOwnedObject
    <3>1. CASE ctl' = Idle
      BY <3>1, IdleFacts DEF WriteBooked
    <3>2. CASE ctl' # Idle
      <4>1. /\ ctl' = [ctl EXCEPT !.pc = "patch"] /\ ctl.target # "blocked"
            /\ owned' = [owned EXCEPT !.owner = "self", !.value = ctl.write]
        BY <2>5, <3>2 DEF ApplyOwnedObject
      <4> QED
        BY <4>1 DEF WriteBooked, Shape, Control, Objects
    <3> QED
      BY <3>1, <3>2
  <2>6. CASE InjectFails \/ SkipPatch \/ PatchStatus \/ Crash
    BY <2>6, IdleFacts DEF InjectFails, SkipPatch, PatchStatus, Crash, WriteBooked
  <2>7. CASE UserEdits \/ WorldChanges \/ Observe \/ UNCHANGED vars
    BY <2>7 DEF UserEdits, WorldChanges, Observe, vars, WriteBooked
  <2>8. CASE ConsumerReports
    BY <2>8 DEF ConsumerReports, WriteBooked, Shape, Objects
  <2>9. CASE OthersObject \/ GarbageCollect
    BY <2>9 DEF OthersObject, GarbageCollect, WriteBooked
  <2>10. CASE Tick
    <3>1. UNCHANGED <<exists, owned, parted>>
      BY <2>10 DEF Tick
    <3> QED
      BY <2>10, <3>1, TickFacts DEF Shape, WriteBooked
  <2> QED
    BY <2>1, <2>2, <2>3, <2>4, <2>5, <2>6, <2>7, <2>8, <2>9, <2>10 DEF Next, Reconcile, Environment
<1> QED
  BY <1>1, <1>2, ShapeHolds, PTL DEF Spec

(***************************************************************************)
(* The theorems.                                                           *)
(***************************************************************************)
\* For any active values, timeout and number of faults: reconcile applies the object
\* before it patches the status, so the recorded value is the one on the object.
THEOREM RecordedValueStandsHolds == Spec => []RecordedValueStands
<1>1. Init => RecordedValueStands
  BY DEF Init, NoStatus, RecordedValueStands
<1>2. Shape /\ NextRecords /\ WriteBooked /\ RecordedValueStands /\ [Next]_vars => RecordedValueStands'
  <2> SUFFICES ASSUME Shape, NextRecords, WriteBooked, RecordedValueStands, [Next]_vars
               PROVE  RecordedValueStands'
    OBVIOUS
  <2>1. CASE PatchStatus
    <3>1. CASE UNCHANGED <<status, parted>>
      BY <2>1, <3>1 DEF PatchStatus, RecordedValueStands
    <3>2. CASE status' = ctl.next /\ parted' = PartedAfter
      <4>1. /\ ctl.pc = "patch" /\ UNCHANGED <<exists, owned>>
            /\ ctl.next.written = IF ctl.write # None THEN ctl.write ELSE ctl.from.written
        BY <2>1 DEF PatchStatus, NextRecords, Decided
      <4>2. CASE ctl.write # None /\ ctl.target # "blocked"
        <5>1. parted' = parted \ {"record"}
          BY <3>2, <4>2 DEF PartedAfter
        <5> QED
          BY <3>2, <4>1, <4>2, <5>1 DEF WriteBooked, RecordedValueStands
      <4>3. CASE ctl.write # None /\ ctl.target = "blocked"
        <5>1. parted' = parted
          BY <3>2, <4>3 DEF PartedAfter
        <5> QED
          BY <4>1, <4>3, <5>1 DEF WriteBooked, RecordedValueStands
      <4>4. CASE ctl.write = None
        BY <3>2, <4>1, <4>4 DEF PartedAfter, RecordedValueStands
      <4> QED
        BY <4>2, <4>3, <4>4
    <3> QED
      BY <2>1, <3>1, <3>2 DEF PatchStatus
  <2>2. CASE Tick
    BY <2>2, AgedFacts DEF Tick, Shape, RecordedValueStands
  <2>3. CASE ApplyNothing \/ ApplyOwnedObject
    BY <2>3 DEF ApplyNothing, ApplyOwnedObject, RecordedValueStands
  <2>4. CASE ConsumerReports
    BY <2>4 DEF ConsumerReports, RecordedValueStands, Shape, Objects
  <2>5. CASE OthersObject \/ GarbageCollect
    BY <2>5 DEF OthersObject, GarbageCollect, RecordedValueStands
  <2>6. CASE \/ ResolveSchedule \/ ResolveTarget \/ DetectConflict \/ InjectFails \/ SkipPatch
             \/ Crash \/ Observe \/ UserEdits \/ WorldChanges \/ UNCHANGED vars
    BY <2>6 DEF ResolveSchedule, ResolveTarget, DetectConflict, InjectFails, SkipPatch, Crash,
               Observe, UserEdits, WorldChanges, vars, RecordedValueStands
  <2> QED
    BY <2>1, <2>2, <2>3, <2>4, <2>5, <2>6 DEF Next, Reconcile, Environment
<1> QED
  BY <1>1, <1>2, ShapeHolds, NextRecordsHolds, WriteBookedHolds, PTL DEF Spec

\* A handback that the status calls complete is a zero on the object.
THEOREM CompleteMeansZeroHolds == Spec => []CompleteMeansZero
<1>1. RecordedValueStands /\ CompleteRecordsZero => CompleteMeansZero
  BY DEF RecordedValueStands, CompleteRecordsZero, ZeroIfComplete, CompleteMeansZero, Zero, None
<1> QED
  BY <1>1, RecordedValueStandsHolds, CompleteRecordsZeroHolds, PTL

\* From the current status, no step of anybody moves a running deadline back: decide
\* keeps the recorded one, and time only brings it nearer.
THEOREM DeadlineKeptHolds == Spec => DeadlineKept
<1>1. Shape /\ DeadlineBooked /\ [Next]_vars =>
        [Current /\ status.deadline # None /\ status'.deadline # None
           => status'.deadline <= status.deadline]_vars
  <2> SUFFICES ASSUME Shape, DeadlineBooked, [Next]_vars, Current,
                      status.deadline # None, status'.deadline # None
               PROVE  status'.deadline <= status.deadline
    OBVIOUS
  <2>1. status.deadline \in 0..Timeout /\ Timeout \in Nat
    BY ConstantsAssumption DEF Shape, Statuses, ConstantsAssumption
  <2>2. CASE Tick
    <3>1. status'.deadline = Sooner(status.deadline)
      BY <2>2, AgedFacts DEF Tick, Shape
    <3> QED
      BY <2>1, <3>1 DEF Sooner
  <2>3. CASE status' = status
    BY <2>1, <2>3
  <2>4. CASE PatchStatus /\ status' = ctl.next
    BY <2>1, <2>4 DEF PatchStatus, DeadlineBooked, Decided, Current
  <2> QED
    BY <2>2, <2>3, <2>4, StatusSteps
<1> QED
  BY <1>1, ShapeHolds, DeadlineBookedHolds, PTL DEF Spec, DeadlineKept

\* From the current status, a reconcile reports HandbackTimedOut only of a deadline
\* that is over.
THEOREM TimeoutNotEarlyHolds == Spec => TimeoutNotEarly
<1>1. Shape /\ DeadlineBooked /\ [Next]_vars =>
        [Current /\ status.phase # "HandbackTimedOut" /\ status'.phase = "HandbackTimedOut"
           => status.deadline = 0 \/ Timeout = 0]_vars
  <2> SUFFICES ASSUME Shape, DeadlineBooked, [Next]_vars, Current,
                      status.phase # "HandbackTimedOut", status'.phase = "HandbackTimedOut"
               PROVE  status.deadline = 0 \/ Timeout = 0
    OBVIOUS
  <2>1. CASE Tick
    BY <2>1, AgedFacts DEF Tick, Shape
  <2>2. CASE PatchStatus /\ status' = ctl.next
    BY <2>2 DEF PatchStatus, DeadlineBooked, Decided, Current
  <2> QED
    BY <2>1, <2>2, StatusSteps
<1> QED
  BY <1>1, ShapeHolds, DeadlineBookedHolds, PTL DEF Spec, TimeoutNotEarly

(***************************************************************************)
(* What it takes to concede capacity.                                      *)
(***************************************************************************)
\* The verdict a decision stands on: the provider's, or the one held for it.
SaysOpen(from, next) == next.active = "yes" \/ (next.active = "unset" /\ from.active = "yes")

\* A decision to write anything but zero.
Warranted ==
  Decided /\ ctl.write \notin {None, Zero} =>
    /\ ctl.spec.enabled /\ ~ctl.spec.killSwitch /\ ctl.write = ctl.spec.activeValue
    /\ ctl.target # "blocked" /\ ctl.next.phase = "Active" /\ SaysOpen(ctl.from, ctl.next)

\* No capacity is conceded but by a window: the object is given a value other than zero
\* only by a reconcile that found the resource enabled and its kill switch off, the
\* target its own to write, and the provider's verdict, or the one held while the
\* provider cannot be asked, saying active; and the value is the one of the spec.
OnlyAWindowConcedes ==
  [][owned'.value \notin {owned.value, Zero} =>
       /\ ctl.pc = "apply" /\ owned'.value = ctl.spec.activeValue
       /\ ctl.spec.enabled /\ ~ctl.spec.killSwitch
       /\ ctl.target # "blocked" /\ SaysOpen(ctl.from, ctl.next)]_vars

\* decide writes a value other than zero in one case only.
LEMMA WarrantedDecision ==
  ASSUME ctl \in Control, DecideNow.write \notin {None, Zero}
  PROVE  /\ DecideNow.spec.enabled /\ ~DecideNow.spec.killSwitch
         /\ DecideNow.write = DecideNow.spec.activeValue
         /\ DecideNow.target # "blocked" /\ DecideNow.next.phase = "Active"
         /\ SaysOpen(DecideNow.from, DecideNow.next)
<1> DEFINE d == Decide(ctl, world.conflict)
           b == BuildStatus(ctl, d)
           n == MergeStamps(ctl.from, b)
<1>1. SoundDecision(ctl, d)
  BY DecideFacts
<1>2. /\ ctl.from \in Statuses /\ ctl.verdict \in Verdicts /\ ctl.target \in Targets
      /\ ctl.drained \in Counters /\ ctl.spec \in Specs
      /\ RecordedActive(ctl.verdict) \in Tristate
  BY DEF Control, RecordedActive, Verdicts, Tristate
<1>3. \/ d.write \in {None, Zero}
      \/ /\ ctl.spec.enabled /\ ~ctl.spec.killSwitch /\ ctl.target # "blocked"
         /\ ScheduleActive(ctl.from, ctl.verdict)
         /\ d = Decision("Active", WriteIfChanged(ctl.from, ctl.spec.activeValue), None, FALSE)
  <2>1. DecideInactive(ctl).write \in {None, Zero}
    BY DEF DecideInactive, Decision, WriteIfChanged
  <2> QED
    BY <2>1 DEF Decide, Decision, WriteIfChanged
<1> HIDE DEF d
<1>4. b \in Statuses
  BY <1>1, <1>2 DEF BuildStatus, SoundDecision, Decisions, Statuses
<1>5. b.phase = d.phase /\ b.active = RecordedActive(ctl.verdict)
  BY DEF BuildStatus
<1> HIDE DEF b
<1>6. n.phase = b.phase /\ n.active = b.active
  BY <1>4 DEF MergeStamps, Statuses
<1> HIDE DEF n
<1>7. DecideNow = [Idle EXCEPT !.pc = IF d.write = None THEN "patch" ELSE "apply",
                               !.spec = ctl.spec, !.from = ctl.from, !.target = ctl.target,
                               !.write = d.write, !.next = n]
  BY DEF DecideNow, d, b, n
<1>8. /\ DecideNow.spec = ctl.spec /\ DecideNow.from = ctl.from /\ DecideNow.target = ctl.target
      /\ DecideNow.write = d.write /\ DecideNow.next = n
  BY <1>7 DEF Idle
<1>9. /\ d.phase = "Active" /\ d.write = ctl.spec.activeValue
      /\ ctl.spec.enabled /\ ~ctl.spec.killSwitch /\ ctl.target # "blocked"
      /\ ScheduleActive(ctl.from, ctl.verdict)
  BY <1>3, <1>8 DEF Decision, WriteIfChanged
<1>10. SaysOpen(ctl.from, n)
  BY <1>5, <1>6, <1>9 DEF SaysOpen, ScheduleActive, RecordedActive
<1> QED
  BY <1>5, <1>6, <1>8, <1>9, <1>10

\* The decision stands while it is carried out, through ticks and everybody's edits.
LEMMA WarrantedHolds == Spec => []Warranted
<1>1. Init => Warranted
  BY IdleFacts DEF Init, Warranted, Decided
<1>2. Shape /\ Warranted /\ [Next]_vars => Warranted'
  <2> SUFFICES ASSUME Shape, Warranted, [Next]_vars PROVE Warranted'
    OBVIOUS
  <2>1. ASSUME Decided, UNCHANGED <<ctl.write, ctl.spec, ctl.target>>,
               ctl'.next.phase = ctl.next.phase, ctl'.next.active = ctl.next.active,
               ctl'.from.active = ctl.from.active
        PROVE  Warranted'
    BY <2>1 DEF Warranted, SaysOpen
  <2>2. ASSUME ~Decided' PROVE Warranted'
    BY <2>2 DEF Warranted
  <2>3. CASE Tick
    <3>1. ctl.from \in Statuses /\ ctl.next \in Statuses /\ ctl \in Control
      BY DEF Shape, Control
    <3>2. /\ Aged(ctl.from).active = ctl.from.active /\ Aged(ctl.next).active = ctl.next.active
          /\ Aged(ctl.next).phase = ctl.next.phase
      BY <3>1 DEF Aged, Statuses
    <3>3. /\ ctl'.pc = ctl.pc /\ ctl'.write = ctl.write /\ ctl'.target = ctl.target
          /\ ctl'.from = Aged(ctl.from) /\ ctl'.next = Aged(ctl.next)
      BY <2>3, <3>1, TickFacts
    <3>4. ctl'.spec = ctl.spec
      BY <2>3, <3>1 DEF Tick, Control
    <3>5. CASE Decided
      BY <2>1, <3>2, <3>3, <3>4, <3>5
    <3>6. CASE ~Decided
      BY <2>2, <3>3, <3>6 DEF Decided
    <3> QED
      BY <3>5, <3>6
  <2>4. CASE ResolveSchedule \/ ResolveTarget
    <3>1. ctl' = Idle \/ Starts \/ (GoesOn /\ ctl.pc = "target")
      BY <2>4, StartFacts, OngoingFacts DEF ResolveTarget
    <3> QED
      BY <2>2, <3>1, IdleFacts DEF Decided, Starts, GoesOn
  <2>5. CASE DetectConflict
    <3>1. CASE ctl' = Idle
      BY <2>2, <3>1, IdleFacts DEF Decided
    <3>2. CASE ctl' = DecideNow
      BY <3>2, WarrantedDecision DEF Warranted, Shape
    <3> QED
      BY <2>5, <3>1, <3>2 DEF DetectConflict
  <2>6. CASE ApplyNothing \/ ApplyOwnedObject
    <3>1. CASE ctl' = Idle
      BY <2>2, <3>1, IdleFacts DEF Decided
    <3>2. CASE ctl' # Idle
      <4>1. ctl' = [ctl EXCEPT !.pc = "patch"] /\ ctl.pc = "apply" /\ ctl \in Control
        BY <2>6, <3>2 DEF ApplyNothing, ApplyOwnedObject, Shape
      <4>2. /\ ctl'.write = ctl.write /\ ctl'.spec = ctl.spec /\ ctl'.target = ctl.target
            /\ ctl'.next = ctl.next /\ ctl'.from = ctl.from
        BY <4>1 DEF Control
      <4> QED
        BY <2>1, <4>1, <4>2 DEF Decided
    <3> QED
      BY <3>1, <3>2
  <2>7. CASE InjectFails \/ SkipPatch \/ PatchStatus \/ Crash
    <3>1. ctl' = Idle
      BY <2>7 DEF InjectFails, SkipPatch, PatchStatus, Crash
    <3> QED
      BY <2>2, <3>1, IdleFacts DEF Decided
  <2>8. CASE Observe \/ Environment \/ UNCHANGED vars
    <3>1. ctl' = ctl
      BY <2>8 DEF Observe, Environment, UserEdits, WorldChanges, ConsumerReports, OthersObject,
                  GarbageCollect, vars
    <3> QED
      BY <3>1 DEF Warranted, Decided
  <2> QED
    BY <2>3, <2>4, <2>5, <2>6, <2>7, <2>8 DEF Next, Reconcile
<1> QED
  BY <1>1, <1>2, ShapeHolds, PTL DEF Spec

\* For any values, timeout and number of events, whatever is edited, fails or dies
\* between decide and the apply.
THEOREM OnlyAWindowConcedesHolds == Spec => OnlyAWindowConcedes
<1>1. ASSUME Shape, Warranted, [Next]_vars, owned'.value \notin {owned.value, Zero}
      PROVE  /\ ctl.pc = "apply" /\ owned'.value = ctl.spec.activeValue
             /\ ctl.spec.enabled /\ ~ctl.spec.killSwitch
             /\ ctl.target # "blocked" /\ SaysOpen(ctl.from, ctl.next)
  <2>1. NoObject.value = Zero /\ [NoObject EXCEPT !.owner = "other"].value = Zero
    BY DEF NoObject
  <2>2. ~OthersObject /\ ~GarbageCollect
    BY <1>1, <2>1 DEF OthersObject, GarbageCollect
  <2>3. ~ConsumerReports
    BY <1>1 DEF ConsumerReports, Shape, Objects
  <2>4. ApplyOwnedObject
    BY <1>1, <2>2, <2>3 DEF Next, Reconcile, ResolveSchedule, ResolveTarget, DetectConflict,
       ApplyNothing, InjectFails, SkipPatch, PatchStatus, Crash, Observe, Environment,
       UserEdits, WorldChanges, Tick, vars
  <2>5. ctl.pc = "apply" /\ owned' = [owned EXCEPT !.owner = "self", !.value = ctl.write]
    BY <1>1, <2>4 DEF ApplyOwnedObject
  <2>6. owned'.value = ctl.write /\ ctl.write # None
    BY <1>1, <2>5 DEF Shape, Objects
  <2> QED
    BY <1>1, <2>5, <2>6 DEF Warranted, Decided
<1> QED
  BY <1>1, ShapeHolds, WarrantedHolds, PTL DEF Spec, OnlyAWindowConcedes

(***************************************************************************)
(* A reconcile does not set off the next one.                              *)
(***************************************************************************)
\* How decide comes to its outcome, by the inputs it looks at. The desired value is
\* the same for every recorded status.
LEMMA DecideCases ==
  ASSUME NEW c \in Control, NEW conflict \in BOOLEAN, c.verdict # "Unresolved"
  PROVE  LET d == Decide(c, conflict)
             open == c.spec.enabled /\ c.verdict = "Active"
             done == ~c.spec.hasDrainSignal \/ c.drained = 0
         IN \/ conflict /\ d = Decision("Error", WriteIfChanged(c.from, Zero), None, FALSE)
            \/ /\ ~conflict /\ c.target = "blocked"
               /\ d = Decision("Pending", None, None, FALSE)
            \/ /\ ~conflict /\ c.target # "blocked" /\ c.spec.killSwitch
               /\ d = Decision("Terminated", WriteIfChanged(c.from, Zero), None, TRUE)
            \/ /\ ~conflict /\ c.target # "blocked" /\ ~c.spec.killSwitch /\ open
               /\ d = Decision("Active", WriteIfChanged(c.from, c.spec.activeValue), None, FALSE)
            \/ /\ ~conflict /\ c.target # "blocked" /\ ~c.spec.killSwitch /\ ~open /\ done
               /\ d = Decision(IF c.spec.enabled THEN "Inactive" ELSE "Disabled",
                               WriteIfChanged(c.from, Zero), None, TRUE)
            \/ /\ ~conflict /\ c.target # "blocked" /\ ~c.spec.killSwitch /\ ~open /\ ~done
               /\ d = Decision(IF DeadlinePassed(c) THEN "HandbackTimedOut" ELSE "HandingBack",
                               WriteIfChanged(c.from, Zero), RunningDeadline(c), FALSE)
<1>1. /\ c.spec.enabled \in BOOLEAN /\ c.spec.killSwitch \in BOOLEAN
      /\ c.spec.hasDrainSignal \in BOOLEAN
  BY DEF Control, Specs
<1>2. ScheduleActive(c.from, c.verdict) <=> c.verdict = "Active"
  BY DEF ScheduleActive
<1>3. CASE conflict
  BY <1>3 DEF Decide
<1>4. CASE ~conflict /\ c.target = "blocked"
  BY <1>4 DEF Decide
<1>5. CASE ~conflict /\ c.target # "blocked" /\ c.spec.killSwitch
  BY <1>5 DEF Decide
<1>6. CASE ~conflict /\ c.target # "blocked" /\ ~c.spec.killSwitch
  <2>1. CASE c.spec.enabled /\ c.verdict = "Active"
    BY <1>2, <1>6, <2>1 DEF Decide
  <2>2. CASE ~(c.spec.enabled /\ c.verdict = "Active")
    <3>1. Decide(c, conflict) = DecideInactive(c)
      BY <1>2, <1>6, <2>2 DEF Decide
    <3> QED
      BY <1>1, <1>6, <2>2, <3>1 DEF DecideInactive
  <2> QED
    BY <2>1, <2>2
<1> QED
  BY <1>1, <1>3, <1>4, <1>5, <1>6

\* The status that goes with a decision.
LEMMA NextStatusFacts ==
  ASSUME NEW c \in Control, NEW conflict \in BOOLEAN
  PROVE  LET d == Decide(c, conflict)
             s == MergeStamps(c.from, BuildStatus(c, d))
         IN /\ s \in Statuses
            /\ s.phase = d.phase /\ s.deadline = d.deadline /\ s.complete = d.complete
            /\ s.written = IF d.write # None THEN d.write ELSE c.from.written
            /\ s.active = RecordedActive(c.verdict)
            /\ s.target = c.target /\ s.drained = c.drained
<1> DEFINE d == Decide(c, conflict)
           b == BuildStatus(c, d)
           s == MergeStamps(c.from, b)
<1>1. SoundDecision(c, d)
  BY DecideFacts
<1> HIDE DEF d
<1>2. c.from \in Statuses /\ c.target \in Targets /\ c.drained \in Counters
      /\ RecordedActive(c.verdict) \in Tristate
  BY DEF Control, RecordedActive, Verdicts, Tristate
<1>3. b \in Statuses
  BY <1>1, <1>2 DEF BuildStatus, SoundDecision, Decisions, Statuses
<1>4. /\ b.phase = d.phase /\ b.deadline = d.deadline /\ b.complete = d.complete
      /\ b.written = IF d.write # None THEN d.write ELSE c.from.written
      /\ b.active = RecordedActive(c.verdict) /\ b.target = c.target /\ b.drained = c.drained
  BY DEF BuildStatus
<1> HIDE DEF b
<1>5. c.from.stamp \in {0, 1} /\ 1 - c.from.stamp \in {0, 1}
  BY <1>2 DEF Statuses
<1>6. /\ s \in Statuses
      /\ s.phase = b.phase /\ s.deadline = b.deadline /\ s.complete = b.complete
      /\ s.written = b.written /\ s.active = b.active /\ s.target = b.target
      /\ s.drained = b.drained
  BY <1>3, <1>5 DEF MergeStamps, Statuses
<1> HIDE DEF s
<1> QED
  BY <1>4, <1>6 DEF d, b, s

\* A reconcile that starts from the status another one has just written, and finds
\* the spec, the provider, the target and the consumer's report unchanged, writes
\* nothing: no value goes to the object, and the status it builds is the one it read,
\* time stamps and all, so that the no-op guard stops the patch which would wake the
\* controller again. A provider that stays unresolved is left out: build_status_value
\* forgets the value decide held.
THEOREM DecidingIsIdempotent ==
  ASSUME NEW c \in Control, NEW again \in Control, NEW conflict \in BOOLEAN,
         c.verdict # "Unresolved", c.fresh = Timeout,
         c.expired <=> c.from.deadline = 0,
         again.spec = c.spec, again.verdict = c.verdict,
         again.target = c.target, again.drained = c.drained,
         again.from = MergeStamps(c.from, BuildStatus(c, Decide(c, conflict))),
         again.expired <=> again.from.deadline = 0
  PROVE  /\ Decide(again, conflict).write = None
         /\ MergeStamps(again.from, BuildStatus(again, Decide(again, conflict))) = again.from
<1> DEFINE first == Decide(c, conflict)
           second == Decide(again, conflict)
           s == again.from
           n == MergeStamps(s, BuildStatus(again, second))
<1>1. /\ s \in Statuses
      /\ s.phase = first.phase /\ s.deadline = first.deadline /\ s.complete = first.complete
      /\ s.written = IF first.write # None THEN first.write ELSE c.from.written
      /\ s.active = RecordedActive(c.verdict)
      /\ s.target = c.target /\ s.drained = c.drained
  BY NextStatusFacts
<1>2. /\ n \in Statuses
      /\ n.phase = second.phase /\ n.deadline = second.deadline /\ n.complete = second.complete
      /\ n.written = IF second.write # None THEN second.write ELSE s.written
      /\ n.active = RecordedActive(again.verdict)
      /\ n.target = again.target /\ n.drained = again.drained
  BY NextStatusFacts
<1>3. /\ c.spec.activeValue # None /\ Zero # None /\ c.from.deadline \in (0..Timeout) \cup {None}
      /\ Timeout \in Nat /\ Timeout # None
  BY ConstantsAssumption DEF ConstantsAssumption, Control, Specs, Statuses, None, Zero
<1> HIDE DEF first, second
<1>4. ASSUME NEW v, v # None, first.write = WriteIfChanged(c.from, v)
      PROVE  WriteIfChanged(s, v) = None
  BY <1>1, <1>4 DEF WriteIfChanged
<1>5. ASSUME s.deadline = RunningDeadline(c)
      PROVE  RunningDeadline(again) = s.deadline /\ (DeadlinePassed(again) <=> DeadlinePassed(c))
  BY <1>3, <1>5 DEF RunningDeadline, DeadlinePassed, None
<1>d. ASSUME NEW v, v # None, NEW phase, NEW deadline, NEW complete \in BOOLEAN,
             first = Decision(phase, WriteIfChanged(c.from, v), deadline, complete),
             second = Decision(phase, WriteIfChanged(s, v), deadline, complete)
      PROVE  /\ second.write = None
             /\ second.phase = first.phase /\ second.deadline = first.deadline
             /\ second.complete = first.complete
  <2>1. first.write = WriteIfChanged(c.from, v) /\ second.write = WriteIfChanged(s, v)
    BY <1>d DEF Decision
  <2>2. second.phase = first.phase /\ second.deadline = first.deadline
    BY <1>d DEF Decision
  <2>3. second.complete = first.complete
    BY <1>d DEF Decision
  <2> QED
    BY <2>1, <2>2, <2>3, <1>d, <1>4
<1>6. /\ second.write = None
      /\ second.phase = first.phase /\ second.deadline = first.deadline
      /\ second.complete = first.complete
  <2>1. CASE conflict
    <3>1. /\ first = Decision("Error", WriteIfChanged(c.from, Zero), None, FALSE)
          /\ second = Decision("Error", WriteIfChanged(s, Zero), None, FALSE)
      BY <2>1, DecideCases DEF first, second
    <3> QED
      BY <3>1, <1>3, <1>d
  <2>2. CASE ~conflict /\ c.target = "blocked"
    <3>1. /\ first = Decision("Pending", None, None, FALSE)
          /\ second = Decision("Pending", None, None, FALSE)
      BY <2>2, DecideCases DEF first, second
    <3> QED
      BY <3>1 DEF Decision
  <2>3. CASE ~conflict /\ c.target # "blocked" /\ c.spec.killSwitch
    <3>1. /\ first = Decision("Terminated", WriteIfChanged(c.from, Zero), None, TRUE)
          /\ second = Decision("Terminated", WriteIfChanged(s, Zero), None, TRUE)
      BY <2>3, DecideCases DEF first, second
    <3> QED
      BY <3>1, <1>3, <1>d
  <2> DEFINE plain == ~conflict /\ c.target # "blocked" /\ ~c.spec.killSwitch
             open == c.spec.enabled /\ c.verdict = "Active"
             done == ~c.spec.hasDrainSignal \/ c.drained = 0
  <2>4. CASE plain /\ open
    <3>1. /\ first = Decision("Active", WriteIfChanged(c.from, c.spec.activeValue), None, FALSE)
          /\ second = Decision("Active", WriteIfChanged(s, c.spec.activeValue), None, FALSE)
      BY <2>4, DecideCases DEF first, second
    <3> QED
      BY <3>1, <1>3, <1>d
  <2>5. CASE plain /\ ~open /\ done
    <3> DEFINE p == IF c.spec.enabled THEN "Inactive" ELSE "Disabled"
    <3>1. /\ first = Decision(p, WriteIfChanged(c.from, Zero), None, TRUE)
          /\ second = Decision(p, WriteIfChanged(s, Zero), None, TRUE)
      BY <2>5, DecideCases DEF first, second
    <3> QED
      BY <3>1, <1>3, <1>d
  <2>6. CASE plain /\ ~open /\ ~done
    <3> DEFINE p(x) == IF DeadlinePassed(x) THEN "HandbackTimedOut" ELSE "HandingBack"
    <3>1. /\ first = Decision(p(c), WriteIfChanged(c.from, Zero), RunningDeadline(c), FALSE)
          /\ second = Decision(p(again), WriteIfChanged(s, Zero), RunningDeadline(again), FALSE)
      BY <2>6, DecideCases DEF first, second
    <3>2. first.deadline = RunningDeadline(c) /\ first.write = WriteIfChanged(c.from, Zero)
      BY <3>1 DEF Decision
    <3>3. WriteIfChanged(s, Zero) = None /\ RunningDeadline(again) = RunningDeadline(c)
          /\ (DeadlinePassed(again) <=> DeadlinePassed(c))
      BY <3>2, <1>1, <1>3, <1>4, <1>5
    <3> QED
      BY <3>1, <3>3, <1>3, <1>d
  <2> QED
    BY <2>1, <2>2, <2>3, <2>4, <2>5, <2>6
<1> HIDE DEF s, n
<1>7. /\ n.phase = s.phase /\ n.deadline = s.deadline /\ n.written = s.written
      /\ n.active = s.active /\ n.target = s.target /\ n.drained = s.drained
  BY <1>1, <1>2, <1>6
<1>8. n.complete = s.complete
  BY <1>1, <1>2, <1>6
<1>9. n.stamp = s.stamp
  <2> DEFINE b == BuildStatus(again, second)
  <2>1. /\ b.phase = second.phase /\ b.complete = second.complete
        /\ b.written = s.written /\ b.active = RecordedActive(again.verdict)
        /\ b.target = again.target
    BY <1>6 DEF BuildStatus, s
  <2>2. b \in [phase : {b.phase}, written : {b.written}, active : {b.active},
               deadline : {b.deadline}, complete : {b.complete}, target : {b.target},
               drained : {b.drained}, stamp : {0}]
    BY DEF BuildStatus
  <2> HIDE DEF b
  <2>3. Conditions(s) = Conditions(b)
    <3>1. /\ s.phase = b.phase /\ s.active = b.active /\ s.target = b.target
          /\ s.written = b.written /\ s.complete = b.complete
      BY <1>1, <1>6, <2>1
    <3> QED
      BY <3>1, Zenon DEF Conditions
  <2>4. n = [b EXCEPT !.stamp = s.stamp]
    BY <2>3 DEF n, b, MergeStamps
  <2> QED
    BY <2>2, <2>4
<1>10. n = s
  BY <1>1, <1>2, <1>7, <1>8, <1>9 DEF Statuses
<1> QED
  BY <1>6, <1>10 DEF first, second, s, n

=============================================================================
