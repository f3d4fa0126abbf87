---------------------------- MODULE SpotProvider ----------------------------
(***************************************************************************)
(* The two spot-schedule providers, TimeBasedSpotSchedule and              *)
(* CapitalMarketsSchedule. Each evaluates a calendar in its timezone,      *)
(* publishes if it is active and when that changes next, and has itself    *)
(* called again at that time. Their controllers are the same but for the   *)
(* calendar; the consumers of what they publish are ScheduledMachine and   *)
(* ScheduledCapacity.                                                      *)
(*                                                                         *)
(* The clock counts half-hours, so that there are timezones that are off   *)
(* by a fraction of an hour, over a calendar of a few dates that repeats.  *)
(***************************************************************************)
EXTENDS Integers, FiniteSets, FiniteSetsExt

CONSTANTS
  HoursPerDay,   \* 24
  DaysPerWeek,   \* 7
  Dates,         \* the number of dates before the calendar repeats
  Specs,         \* the calendars a user may ask for
  Horizon,       \* PROVIDER_TRANSITION_HORIZON_HOURS
  Fallback,      \* PROVIDER_FALLBACK_REQUEUE_SECS, in hours
  MaxEvents      \* bound: edits, failing calls and crashes

VARIABLES
  spec,     \* the provider object's spec
  status,   \* its status
  seen,     \* the controller's cached copy of both
  dirty,    \* is a watch event waiting to be reconciled?
  wake,     \* half-hours until the timed requeue, 0 when it is due
  ctl,      \* the reconcile in progress
  now,      \* the time, UTC
  events    \* how much of the bound is used up

vars == <<spec, status, seen, dirty, wake, ctl, now, events>>

\* The calendar in half-hours.
Cycle == 2 * (HoursPerDay * Dates)

Times == 0..(Cycle - 1)

ASSUME ConstantsAssumption ==
  /\ HoursPerDay \in Nat \ {0} /\ DaysPerWeek \in Nat \ {0} /\ Dates \in Nat \ {0}
  /\ Dates % DaysPerWeek = 0
  /\ Fallback \in 1..Horizon /\ Horizon \in Nat /\ MaxEvents \in Nat
  /\ \A s \in Specs : s.offset \in Int

NotThere == -1

\* next: nextTransitionTime. stamp: lastTransitionTime, told apart from the one
\* before it.
Statuses == [there : BOOLEAN, active : BOOLEAN, next : Times \cup {NotThere}, stamp : {0, 1}]

NoStatus == [there |-> FALSE, active |-> FALSE, next |-> NotThere, stamp |-> 0]

\* result: the status to be patched in. wait: the requeue after it.
Control == [pc : {"idle", "patch"}, result : Statuses, wait : Nat]

Idle == [pc |-> "idle", result |-> NoStatus, wait |-> 0]

TypeOK ==
  /\ spec \in Specs /\ status \in Statuses
  /\ seen \in [spec : Specs, status : Statuses]
  /\ dirty \in BOOLEAN /\ wake \in Nat /\ ctl \in Control
  /\ now \in Times /\ events \in 0..MaxEvents

Init ==
  /\ spec \in Specs
  /\ status = NoStatus
  /\ seen = [spec |-> spec, status |-> status]
  /\ dirty = TRUE
  /\ wake = 0
  /\ ctl = Idle
  /\ now \in Times
  /\ events = 0

(***************************************************************************)
(* The calendars.                                                          *)
(***************************************************************************)
\* One part of a day or hour list, which may wrap around (fri-mon, 22-6).
Span(r, n) == IF r.from <= r.to THEN r.from..r.to ELSE (r.from..(n - 1)) \cup (0..r.to)

\* parse_day_ranges and parse_hour_ranges of parts that are well-formed
ParseRanges(parts, n) == UNION {Span(r, n) : r \in parts}

Local(s, t) == (t + s.offset) % Cycle

Date(s, t) == Local(s, t) \div (2 * HoursPerDay)

Hour(s, t) == (Local(s, t) % (2 * HoursPerDay)) \div 2

\* A timezone that does not parse is an error, which a provider that is switched off
\* never gets to.
Fails(s) == s.enabled /\ ~s.valid

InWindow(s, x, t) ==
  /\ Date(s, t) % DaysPerWeek \in ParseRanges(x.days, DaysPerWeek)
  /\ Hour(s, t) \in ParseRanges(x.hours, HoursPerDay)

\* The early closes of a date; the first of the list is the one that counts.
ClosesOn(s, date) == {i \in DOMAIN s.earlyCloses : s.earlyCloses[i].date = date}

ClosedEarly(s, t) ==
  LET closes == ClosesOn(s, Date(s, t)) IN
    closes # {} /\ Hour(s, t) > s.earlyCloses[Min(closes)].hour

\* is_active_at. Only a TimeBasedSpotSchedule has the switch, and its window is a
\* single session without holidays and early closes.
IsActiveAt(s, t) ==
  /\ s.enabled
  /\ Date(s, t) \notin s.holidays
  /\ \E x \in s.sessions : InWindow(s, x, t)
  /\ ~ClosedEarly(s, t)

(***************************************************************************)
(* next_transition: the whole UTC hours after t are tried in turn.         *)
(***************************************************************************)
\* How long from t it is to the k-th of them, and when that is.
Delay(t, k) == 2 * k - (t % 2)

Candidate(t, k) == (t + Delay(t, k)) % Cycle

\* Mutant: the scan begins an hour late.
FlipsLate(s, t) == {k \in 2..Horizon : IsActiveAt(s, Candidate(t, k)) # IsActiveAt(s, t)}

Flips(s, t) == {k \in 1..Horizon : IsActiveAt(s, Candidate(t, k)) # IsActiveAt(s, t)}

(***************************************************************************)
(* reconcile                                                               *)
(***************************************************************************)
\* Mutant: every status gets a new time stamp.
StampAlways(old, active) == 1 - old.stamp

Stamp(old, active) ==
  IF old.there /\ old.active = active THEN old.stamp ELSE 1 - old.stamp

\* compute_status
ComputeStatus(s, old, t) ==
  LET flips == Flips(s, t) IN
    [there |-> TRUE, active |-> IsActiveAt(s, t), stamp |-> Stamp(old, IsActiveAt(s, t)),
     next |-> IF flips = {} THEN NotThere ELSE Candidate(t, Min(flips))]

\* Mutant: without a transition to wait for there is no requeue to speak of.
WaitForever(s, t) ==
  IF Flips(s, t) = {} THEN Cycle ELSE Delay(t, Min(Flips(s, t)))

Wait(s, t) == IF Flips(s, t) = {} THEN 2 * Fallback ELSE Delay(t, Min(Flips(s, t)))

\* Everything up to the patch.
Reconcile ==
  /\ ctl.pc = "idle" /\ (dirty \/ wake = 0)
  /\ ~Fails(seen.spec)
  /\ dirty' = FALSE
  /\ ctl' = [pc |-> "patch", result |-> ComputeStatus(seen.spec, seen.status, now),
             wait |-> Wait(seen.spec, now)]
  /\ UNCHANGED <<spec, status, seen, wake, now, events>>

\* A calendar that cannot be evaluated keeps its status. error_policy tries again.
ReconcileFails ==
  /\ ctl.pc = "idle" /\ (dirty \/ wake = 0)
  /\ Fails(seen.spec)
  /\ dirty' = FALSE
  /\ wake' = 1
  /\ UNCHANGED <<spec, status, seen, ctl, now, events>>

Answers == {"ok"} \cup (IF events < MaxEvents THEN {"refused", "lost"} ELSE {})

Charge(a) == events' = IF a = "ok" THEN events ELSE events + 1

\* A merge patch: without a next transition the old one stays.
Patched(old, new) ==
  [new EXCEPT !.next = IF new.next = NotThere THEN old.next ELSE new.next]

\* The reconcile took the requeue before it out of the queue, so its own is the only one.
\* A patch that fails is tried again at once: the 30 seconds of error_policy are no time
\* here.
PatchStatus ==
  /\ ctl.pc = "patch"
  /\ \E a \in Answers :
       /\ Charge(a)
       /\ status' = IF a = "refused" THEN status ELSE Patched(status, ctl.result)
       /\ wake' = IF a = "ok" THEN ctl.wait ELSE 0
  /\ ctl' = Idle
  /\ UNCHANGED <<spec, seen, dirty, now>>

(***************************************************************************)
(* Everybody else.                                                         *)
(***************************************************************************)
Observe ==
  /\ seen # [spec |-> spec, status |-> status]
  /\ seen' = [spec |-> spec, status |-> status]
  /\ dirty' = TRUE
  /\ UNCHANGED <<spec, status, wake, ctl, now, events>>

Crash ==
  /\ events < MaxEvents /\ events' = events + 1
  /\ seen' = [spec |-> spec, status |-> status]
  /\ dirty' = TRUE /\ wake' = 0 /\ ctl' = Idle
  /\ UNCHANGED <<spec, status, now>>

UserEdits ==
  /\ events < MaxEvents /\ events' = events + 1
  /\ spec' \in Specs \ {spec}
  /\ UNCHANGED <<status, seen, dirty, wake, ctl, now>>

\* Nothing is left to do at this time.
AtRest ==
  ctl.pc = "idle" /\ ~dirty /\ wake > 0 /\ seen = [spec |-> spec, status |-> status]

\* Half an hour is long enough for whatever is left to do.
Tick ==
  /\ AtRest
  /\ now' = (now + 1) % Cycle
  /\ wake' = wake - 1
  /\ UNCHANGED <<spec, status, seen, dirty, ctl, events>>

Next ==
  \/ Reconcile \/ ReconcileFails \/ PatchStatus \/ Observe \/ Crash \/ UserEdits \/ Tick

Spec == Init /\ [][Next]_vars

\* The watch delivers, and not every time just while a patch is on its way; the
\* controller works off its queue, and time passes.
FairSpec ==
  /\ Spec
  /\ WF_vars(Reconcile \/ ReconcileFails) /\ WF_vars(PatchStatus)
  /\ WF_vars(Observe) /\ SF_vars(Observe /\ ctl.pc = "idle")
  /\ WF_vars(Tick)

(***************************************************************************)
(* Properties.                                                             *)
(***************************************************************************)
\* The requeue lands on every change of the calendar, however many hours, holidays
\* or edits ago it was computed: what is published is what the calendar says, or, in
\* a timezone off by a fraction of an hour, will be at the next whole UTC hour.
PublishedInTime ==
  AtRest /\ ~Fails(spec) =>
    \/ status.there /\ status.active = IsActiveAt(spec, now)
    \/ spec.offset % 2 = 1 /\ now % 2 = 1 /\ wake = 1

\* The published transition is the first whole hour at which the calendar changes,
\* also when it was published many hours ago; one that was too far off to be found
\* then is there once it is a fallback requeue closer than the horizon.
NextIsFirst ==
  AtRest /\ ~Fails(spec) /\ status.active = IsActiveAt(spec, now) =>
    \A k \in 1..(Horizon - Fallback) :
      (/\ IsActiveAt(spec, Candidate(now, k)) # status.active
       /\ \A j \in 1..(k - 1) : IsActiveAt(spec, Candidate(now, j)) = status.active)
      => status.next = Candidate(now, k)

\* A reconcile whose outcome is already published changes nothing, so that its own
\* watch event does not keep it going: there is always a time with nothing to do.
ComesToRest == []<>AtRest

=============================================================================
