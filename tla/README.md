# A verification of 5-Spot

5-Spot is a Kubernetes operator that adds machines to Cluster API (CAPI)
clusters while a schedule says so and takes them out again when it does not.
This directory holds TLA+ models of its control logic, the TLC configurations
that check them, and TLAPS proofs about them. Source paths below are relative to
the repository; a file named without its directory is in `src/reconcilers/`.

## The system and its parts

| Part | Source | Module |
|---|---|---|
| ScheduledMachine reconciler | `scheduled_machine.rs`, `helpers.rs`, `spot_schedule.rs` | `ScheduledMachine`, `MachineLifecycle` |
| Node taints | `helpers.rs` | `NodeTaints` |
| Kata-config delivery and agent | `helpers.rs`, `src/kata_config_agent.rs`, `src/cmd/kata_config_agent.rs` | `KataConfig` |
| Reclaim-agent projection and agent | `helpers.rs`, `src/reclaim_agent.rs`, `src/cmd/reclaim_agent.rs`, `src/netlink_proc.rs` | `ReclaimAgent` |
| ScheduledCapacity reconciler | `scheduled_capacity.rs`, `capacity_decision.rs` | `ScheduledCapacity` |
| Schedule providers | `src/providers/*.rs` | `SpotProvider` |
| Child-cluster clients and Node watchers | `child_client.rs`, `child_watch.rs` | `ChildClients`, `SecretClients` |

How they interact: the user owns the spec of a ScheduledMachine or a
ScheduledCapacity, the reconciler owns its status. A provider publishes whether
a calendar is active. A reconcile starts from the reflector's copy of its
resource, reads the provider and moves the resource through its phases. For a
ScheduledMachine it creates or deletes three objects (bootstrap, infrastructure,
Machine), which CAPI turns into a Node or tears down, and while the machine is
active it puts taints on the Node and opts it in to two agents, through a client
of the workload cluster. One agent delivers a configuration file to the host; the
other looks for listed processes and asks for the Node back by annotating it,
whereupon the reconciler removes the machine and disables its schedule. For a
ScheduledCapacity the reconciler writes one number into an object of its own and
waits for the consumer to hand the capacity back. Everything is one API call
after another, and any of them may fail, or succeed with its answer lost, or be
the last one before the process dies.

The modules meet where the parts do: the annotation that `ReclaimAgent` ends with
is the one `ScheduledMachine` begins its emergency flow with; the verdict that
`SpotProvider` publishes is what the two reconcilers resolve, and they are
checked against a provider that may answer anything; `NodeTaints`, `KataConfig`
and `ReclaimAgent` are the three best-effort parts of `handle_active_phase`,
which ignores their outcome, so that each is a controller of its own.

## Modules

A component has its state, its actions and its properties in one module. Its
`*_proofs` module holds the theorems, its `*Claims` module a sentence of the
repository that the code does not keep, and its `MC*` module the values of
constants that a configuration file cannot write down. `ScheduledMachine` has two
proof modules: `ScheduledMachineResources_proofs` builds on the other and is about
the CAPI objects.

Two modules are abstract promises. `MachineLifecycle` is what `ScheduledMachine`
implements: which phase may follow which, and in which phases a Machine may be
created or given up. `SecretClients` is what `ChildClients` implements
(`BuiltFromWhatWasRead`): a resolve reads the Secret its machine names and answers
with a client built from a good key of the very version it read; the error of a key
is given only to a machine whose own key is not good, and not always to that one (see
below). It has no cache, no order of use and no hooks; the refinement mapping
(`Reading`) forgets them.

Two conventions hold throughout. An API call is answered, is refused without
effect, or takes effect while its answer is lost (`Answers`, `Charge`). Edits,
faults, crashes and changes by others draw on one bound, `MaxEvents` (for
`ScheduledMachine` there is a bound for each kind); everything else is unbounded.

### ScheduledMachine: state and code

`sm` is the resource in the API server, `cache` the copy reconciles start from,
`capi` the three objects, `machineRef` the Machine's `status.nodeRef`, `node` the
Node, `retryCount` the entry of `Context.retry_counts`. `ctl` is the reconcile in
progress: `pc` is the API call it is about to make, `task` the flow it is in,
`obj` the snapshot it started from (kept only while it is still read), `target`
and `grace` the phase write it is about to make. `graceLeft` stands for the
recorded grace start: the ticks until `check_grace_period_elapsed` answers true.
`spent` counts down the bounds. `shut` and `ejected` are history variables; no
action reads them.

Each action is the code from one API call to the next:

| Action | Code |
|---|---|
| `StartDeletion`, `StartFinalizer`, `RejectSpec`, `StartKillSwitch`, `StartInner` | `reconcile_guarded` and the head of `reconcile_inner`, in the order of its checks |
| `AddFinalizer`, `RemoveFinalizer`, `CleanupTimesOut` | `add_finalizer`, `handle_deletion` |
| `CheckEmergencyReclaim` | `check_emergency_reclaim` |
| `ResolveSchedule` | provider resolution, `compose_should_be_active`, the persisted verdict with its no-op guard, and the dispatch on the phase (`PhaseHandler` and one operator per handler) |
| `UpdatePhase` | `update_phase`, `update_phase_with_grace_period` |
| `Preflight`, `AddMachineToCluster` | `add_machine_to_cluster` and the move to Error when it fails |
| `RemoveMachineFromCluster` | `remove_machine_from_cluster`, for its four callers |
| `Drain`, `DisableSchedule`, `ClearReclaimAnnotations` | the drain of both flows, `handle_emergency_remove` |
| `EnrichStatus` | the nodeRef copied by `handle_active_phase` |

`Observe`, `Crash`, `UserEdits`, `AgentRequestsReclaim`, `NodeJoins`,
`NodeLeaves`, `TeardownEnds`, `GarbageCollect` and `Tick` are the environment.
Only the Machine carries an owner reference, so only the Machine is garbage
collected.

Abstractions: contents of specs, names, events, metrics and logs are left out;
a spec is valid or not; the three access preflights are one call; a provider
read and the persisting patch are one step, because nothing in between is
written; a drain is one call that may fail.

### The other modules

* `ScheduledCapacity`. `status` is the resource's status, `seen` the copy
  reconciles start from, `owned` the object with the gated field, `world` the
  provider, the cluster's CRDs and grants, and conflicting ScheduledMachines.
  The reconcile is `ResolveSchedule`, `ResolveTarget`, `DetectConflict` (which
  ends in `Decide`), `ApplyOwnedObject` (or `ApplyNothing`, `InjectFails`), and
  `PatchStatus` or, by the no-op guard, `SkipPatch`. A deadline is the ticks left
  to it; `Tick` ages every copy alike. `parted` is a history variable: why record
  and object may differ.
* `NodeTaints`. A slot is a key and an effect, with a value. `Diff` is
  `diff_node_taints` on the first read of the Node, `Target` what
  `apply_node_taints` makes of that plan and the second read; `ApplyNodeTaints`
  is the forced apply, `PatchAppliedStatus` the record. `asked` and `quiet` are
  history variables: what the user ever asked for, and whether somebody else
  wrote the Node since the plan.
* `KataConfig`. `Deliver` is the controller: it probes the source and stamps
  reference and label. `Tick` is the agent: `ReadNodeState`, then either
  `Unlink` and `ClearOptin`, or `FetchContent`, `SyncContent`, `RecordApplied`
  and `Restart`. The restart may kill the agent. `Schedule` and `Deschedule` are
  the DaemonSet. `news` and `missed` are history variables.
* `ReclaimAgent`. `PatchLabel` and `ProjectConfigMap` are the controller's two
  calls; `Rendered` is what they make of the list. The agent starts (and exits if
  the Node is requested already), follows the ConfigMap through a watch that may
  break and list again, scans by polling or by netlink events that may be lost,
  compares machine ids and annotates. A process is what `/proc` shows of it: its
  `comm`, which the kernel keeps and cuts at 15 characters, and the commands that
  occur in its command line. `Matches` compares the first as a whole and the second
  for a part, with one list each. An administrator may delete, empty or break the
  ConfigMap, or write any other two lists into it.
* `ChildClients`. Per machine a `task` walks through `GetSecret`, `LookUp`,
  `InsertClient` and, with the lock released, `CancelWatcher` and `StartWatcher`.
  A client is told by the Secret version and key it was built from; of a Secret it
  is known which keys hold a kubeconfig of use. A hit is decided by the version, and
  only a miss looks at the key. `recent` is
  the order of use: `Used` moves a Secret to its end, `Evict` takes the head.
* `SpotProvider`. `IsActiveAt` is the calendar, `Flips` the scan of
  `next_transition`, `ComputeStatus` and `Wait` what is published and when the
  controller is called again. The clock counts half-hours over a calendar that
  repeats. The time-based provider is a single session without holidays. Of several
  early closes of a date the first counts. Each reconcile replaces the requeue of the
  one before.

Abstractions: names, texts, events, metrics and logs are left out; contents are
members of small sets; a spec is valid or not.

## Runs

| Run | Shows | Constants |
|---|---|---|
| `sm_faults` | without faults, no phase that says the machine is gone, and no deleted resource, leaves a CAPI object (`ResourcesAccounted`); every provisioning and every closed window is backed by the persisted verdict; only a resolved verdict replaces it; a reclaimed machine is not provisioned again while its Node lives; a closed window gets its whole grace period; the model implements `MachineLifecycle` | 2 edits, 1 reclaim, 1 fault, 1 crash |
| `sm_live_faults` | whatever fails, a running resource reports Inactive or Terminated, or is let go by its finalizer, only with every CAPI object deleted (`RemovalBeforeReport`); kill switch, deletion and reclaim request each reach their end; without a fault, a window that stays closed ends with the Machine gone | 1 edit, 1 reclaim, 1 fault, strict finalizer cleanup |
| `sm_stale` | reconciles may start from stale objects: a reclaim request is never cleared while its Machine is in place, so that a failed flow can be replayed; the bootstrap object is deleted only after the Machine, the infrastructure object only after both (`TornDownInOrder`) | 1 reclaim, 1 fault; edits and crashes are left to the proof |
| `capacity` | the recorded value is the one on the object and a completed handback is a zero; a running deadline is not moved back and not reported early; a window that stays closed or open, and a consumer that never drains, get what they should; the status comes to rest | 1 active value, timeout of 1 tick, 2 events |
| `node_taints` | only taints once asked for are taken away; a record goes after its taint; Node and record converge | 2 slots, 2 values, 4 events |
| `kata_config` | no restart loop; the label goes last; the drop-in follows its source onto the host and off it | 2 contents, 4 events |
| `reclaim_agent` | no agent overwrites the request of an earlier one; a process that keeps running under a listed name gets its Node requested; agents end up with exactly the list, whatever was written into the ConfigMap by hand | 2 commands, 2 processes, 4 events |
| `child_clients` | the cache keeps to its capacity and its order; a resolve answers with a client of the version it read (`BuiltFromWhatWasRead`); watchers follow the cache while resolves do not cross | 2 machines, 2 Secrets, 2 keys, room for 1, 2 versions |
| `spot_provider` | what is published follows the calendar; the published transition is the first one; the controller comes to rest | 8 calendars, 4 dates of 3 hours, 2 events |

Every property of these has a mutant of the mapped code that breaks it.

The exceptions that some properties make are behaviours of the code, listed
below under "Met while modelling": `ResourcesAccounted` and `ClosedWindowReleases` are for executions without
a fault (`FaultFree`), `parted` excepts lost records and deleted objects (in
`RecordedValueStands`, `CompleteMeansZero` and, for good, in the three liveness
properties of the capacity run that ask for `Settled`),
`ForeignTaintsStay` a Node written in mid-flight, `RunningIsReclaimed` netlink and
processes that are only told by their command line,
`DropInTornDown` a reference stamped behind the agent's back,
`WatchersFollowClients` crossing resolves, and `PublishedInTime` the half hour
before the next whole UTC hour in a timezone off by a fraction of an hour.

Deadlock is not checked where the system may really stop: a deleted
ScheduledCapacity, and a Node that is gone with its machine.

### Claims the code does not keep

Each `claim_*` run checks one sentence of the repository and finds a
counterexample.

* `claim_grace_on_disable`. "Schedule disabled → `ShuttingDown` (grace period
  starts)". Disabling records the reason ScheduleDisabled; the grace check looks
  for GracePeriod, finds none and answers "elapsed". The next reconcile drains
  and deletes.
* `claim_capacity_hold`. "A transient API error resolving the provider must not
  zero capacity: hold". The first unresolved reconcile holds, and records null as
  the verdict; the second has nothing to hold and writes zero.
* `claim_kata_restart`. "the caller treats an error as "retry next tick"". The
  hash is recorded before the restart; when the restart fails, the next tick
  finds nothing to do.

### Met while modelling

Behaviours of the code that the models have, for which there is no run:

* ScheduledMachine. Terminated leaves objects when the kill switch meets Error
  (`helpers.rs:429`, `:467`), and Inactive does after a crash between a create
  and the write of Active (`scheduled_machine.rs:1426`). A crash after the
  emergency delete re-adds the machine if the Node goes before the next reconcile
  (`helpers.rs:2603`). A deletion reconciled from a copy that says Pending
  releases the finalizer with objects left (`helpers.rs:157`). Error is never left
  (`scheduled_machine.rs:19`). A create that meets the old Machine in teardown
  adopts it, and Active stays without a Machine (`helpers.rs:1626`). A reclaim
  request moves a Terminated resource once the kill switch is taken back
  (`scheduled_machine.rs:1511`); Terminated does not go back to Pending
  (`docs/src/concepts/machine-lifecycle.md:133`); an invalid spec stops the kill
  switch (`machine-lifecycle.md:132`); the retry count survives a completed
  deletion (`helpers.rs:2315`); the first failure waits 60 s, not 30 s
  (`helpers.rs:2311`); from a stale copy an unresolved reconcile writes an older
  verdict over a newer one (`scheduled_machine.rs:661`).
* ScheduledCapacity. A conflict asks for a zero on a target that was not
  resolved, and the zero is recorded though nothing is applied
  (`scheduled_capacity.rs:556` calls the branch unreachable). Discovery that fails for
  a moment is such a target too (`scheduled_capacity.rs:314`). `write_if_changed`
  compares with the record, never with the object (`capacity_decision.rs:324`). So when
  a value was written and its record lost (the status patch failed, or the process died
  before it), and the window flips back before the next reconcile, the record already
  has the desired value and nothing is written: a closed window stays with the active
  value on the object, for ever, and its handback may be called complete; an open one
  stays at zero. And an object that somebody deletes is not created again while the
  recorded value is the desired one.
* Node taints. A taint that an administrator sets between the plan and the forced
  apply is lost (`docs/src/concepts/scheduled-machine.md:193`).
* Kata config. A teardown restarts nothing, so the service keeps the drop-in
  until its next restart. A reference stamped between the agent's look and
  `clear_optin` loses its label; if it is taken back before the next stamp, its
  file stays on the host.
* Reclaim agent. `src/crd.rs:133` and `docs/src/concepts/emergency-reclaim.md:256`
  say that a pattern of `killIfCommands` is matched against the command line as well,
  as a part of it. The controller renders the list as `match_commands` only and leaves
  `match_argv_substrings` empty (`helpers.rs:2865`, on purpose), so that the agent
  compares it with `comm` alone: a command that shows only in the command line, or
  whose name has more than 15 characters, is never found. A list that somebody writes
  into the ConfigMap arms the agent until the next projection overwrites it
  (`helpers.rs:2887`). A ConfigMap deleted while the watch was broken leaves the agent
  armed (`src/cmd/reclaim_agent.rs:381`). A netlink agent that misses an event has
  no poll to fall back on. A request written by an operator after the agent
  started is overwritten.
* Child clients. When resolves of one Secret, or a resolve and an eviction, cross,
  a watcher may run with an older client than the cache, or for a client that is
  no longer cached (`child_client.rs:157` has them in lock-step). A cached client
  is returned whichever key of the Secret it was built from (`child_client.rs:394`),
  before the machine's own key is looked at (`:418`). So a machine whose key is missing
  or broken gets the client of another key if that is cached, possibly for another
  cluster, and an error otherwise; `child_client.rs:256` promises the error.
* Providers. Without a next transition the merge patch leaves the old one in the
  status (`src/crd.rs:306`). A change within an hour, in a timezone off by a
  fraction of one, is published up to an hour late.

### Bounds

One resource per model: reconciles of different resources share only the retry
map, keyed by resource, and the client cache, which has a model with two. One
fault and one crash for `ScheduledMachine`: each behaviour above needs at most
one of either. Two edits reach disable-then-enable and kill-then-delete. A grace
period of two ticks tells "not yet", "one left" and "over" apart; for the
handback deadline one tick tells "not yet" from "over". Four events for
the agents allow an edit, its revocation, a fault and a crash in one execution. One
process that runs under a command's name and one that only has a command in its
command line are the two ways to match.
Two machines and two Secrets with room for one client make every insert of the
other Secret an eviction; machines are interchangeable, and so are Secrets, but not
keys (one is the default), so symmetry is used for the two (that run checks invariants and a safety refinement that treats
them alike, no liveness). Four dates of two weekdays and three
hours, with a horizon of five hours, hold wrapped ranges, a holiday that makes a
closure longer than the horizon, and a fallback within it. The proofs remove the
bounds for the properties they cover.

### Fairness

Every outcome of a reconcile but the end of a deletion returns a requeue, and an
error is requeued by the error policy, so the controllers are weakly fair. The
reflector catches up, the clock ticks, CAPI finishes teardowns it has begun, the
garbage collector runs, a DaemonSet follows its label, an agent loops. Users,
administrators, providers, consumers, processes, joining Nodes, faults and
crashes are not fair.

`SpotProvider` needs one strong fairness: watch events do not for ever arrive
exactly while a patch is in flight. Otherwise each patch could be computed from
the status before the last one and the time stamp would change back and forth.

## Proofs

`ScheduledMachine_proofs` proves, for every grace period and every number of
edits, reclaims, faults and crashes:

* with stale reads too: `TypeCorrect`, `RequestOutlivesMachineHolds`,
  `TornDownInOrderHolds`, and `EveryReconcileEndsHolds`, that a reconcile is at most
  nine steps: `StepsLeft` falls with each of its own and is not raised by anybody
  else's;
* and, for reconciles that start from the current object (`~CacheLag`):
  `VerdictBehindActionHolds`, `GraceForClosedWindowHolds`,
  `NoReAddWhileNodeLivesHolds`, `HoldLastStateHolds`, and `Refinement`, that the
  model implements `MachineLifecycle`.

The hypothesis `~CacheLag` is needed: with `CacheLag = TRUE` TLC refutes each of
these five.

None of these is inductive alone. The strengthening has these pieces:

* `TaskKnown`: each step of a removal knows which flow it belongs to;
* `Standing`: while a reconcile works, the finalizer keeps the resource
  (`Owned`); only the controller writes the status, so the snapshot's status is
  the current one (`SnapshotCurrent`); and so the step a reconcile stands at
  tells the phase of the resource (`PhaseKnown`). This carries the refinement,
  the verdict property and hold-last-state;
* `RequestBooked`: past its delete step the emergency flow has no Machine in
  place. It needs nothing about snapshots, as the flow reads none;
* `RemovedSoFar`: past a delete step, the object of that step and those before it are
  not in place, whatever copy the removal started from;
* `GraceBooked`: the ticks left in the status and the age of the shutdown add up
  to the grace period;
* `EjectionBooked` with `NodeRecorded`: a reclaimed resource is either disabled,
  or its status names a Node that still carries the request, so that the next
  reconcile starts the emergency flow over instead of dispatching on the phase.

The invariance lemmas (`TypeStep`, `StandingStep`, `GraceStep`,
`NodeRecordedStep`, `EjectionStep`, `LifecycleStep`) go action by action; the
lemmas before them say what the operators of the model return.

`ScheduledMachineResources_proofs` proves two more for reconciles from the current
object (with `CacheLag = TRUE` TLC refutes these as well):

* `ResourcesAccountedHolds`: without a fault or a crash, no object outlives its
  use. `Accounts` says what may be in place by the phase and by how far a removal
  has come (Machine, then bootstrap, then infrastructure). It needs `PhaseKnown`,
  and `Routed`: a resource without a finalizer has no phase yet, so none is deleted
  past the controller with objects in place, and only the emergency flow writes
  EmergencyRemove, so without faults no reconcile starts from that phase
  (`EmergencyAnnounced`). `FaultFreeBefore` and `AnswerIsGood` turn the condition
  on the whole execution into one on each step.
* `RemovalBeforeReportHolds`: with faults and crashes. `Removed` keeps, at each step
  behind a delete, the object of that delete gone; nothing creates one meanwhile
  (`RemovedStep`). `ReportStep` then goes through the steps that write a report.

The other modules' proofs hold for all their constants, stale reads included,
under the `ConstantsAssumption` of each module (positive sizes, no clash of
names, a calendar of whole weeks, offsets in whole half-hours). Most have a `Shape`, the part of the
types they need, and:

* `ScheduledCapacity_proofs`: `RecordedValueStandsHolds` rests on `NextRecords`
  (the status to be written records the value decided, or the one the reconcile
  started from) and `WriteBooked` (between the write and its record the object
  holds the value); `CompleteMeansZeroHolds` adds `CompleteRecordsZero`, in every
  copy of the status; `DeadlineKeptHolds` and `TimeoutNotEarlyHolds` rest on
  `DeadlineBooked`, what `decide` makes of a deadline, which stays true while time
  passes for all copies alike. `OnlyAWindowConcedesHolds`, from `Warranted`: a value
  other than zero reaches the object only by a reconcile that found the resource
  enabled, the kill switch off, the target its own and the verdict, resolved or held,
  active; what is edited after that decision does not count.
* `NodeTaints_proofs`: `ForeignTaintsStayHolds`, from `AllAskedFor` (whatever any
  copy of the record lists was once asked for) and `PlanFits` (without another
  writer the plan still fits the Node at the apply). `ForgottenTaintsAreGoneHolds`,
  from `DropsTakeEffect`: from the plan to the record, a taint that is dropped is
  either still to be removed by the plan or off the Node.
* `KataConfig_proofs`: `NoRestartLoopHolds`, from `Guarded`: until there is
  something new, the recorded hash is that of the content fetched last.
  `LabelGoesLastHolds`, from `UnlinkedBeforeClear`. `RecordedIsLoadedHolds`: the
  annotation on the Node names the drop-in the service runs with, unless the restart
  it announced failed or found another file.
* `ReclaimAgent_proofs`: `FirstRequestStaysHolds`. A Node requested by an agent
  has no agent past its start-up check. `ArmedAsToldHolds`: the scanner is armed with
  the last list the watch told of.
* `ChildClients_proofs`: `BuiltFromWhatWasReadHolds`, the refinement of
  `SecretClients`. `GetSecret` is `Read` or `GiveUp`, the step that returns is
  `Build`, the others stutter. The one hard case is a hit: the resolve read a version
  and is given a client that another one built. `Agreed` is why this is right: the
  API server, the cache and every resolve that holds a version of a Secret agree on
  which of its keys are good, and nobody is ahead of the API server, so that a rotation
  brings a version that nobody holds. `SoundTasks`: only a client of a good key is ever
  inserted. `CacheBoundedHolds`, from `Lru`: the order of use names each cached client
  once and no more than fit. It rests on lemmas about the sequence operators
  (`RemoveFirstFacts`, `UsedFacts`, `TailFacts`). `WatchersFollowClientsHolds`, from
  `HooksSettle`: unless resolves crossed, at most one owes its hooks, and what it
  owes is the difference between watchers and cache.
* `SpotProvider_proofs`: `TypeCorrect`, `PublishedInTimeHolds` and
  `NextIsFirstHolds`, for every set of calendars, horizon and fallback. `InFlight`:
  a patch computed from a copy that is not old is what the calendar asks for now.
  `Kept`: between two reconciles the status is `Foreseen`, that is, right now, and
  with the requeue no later than the next change; `ForeseenTick` carries this over
  a tick of the clock, `ComputedForeseen` shows that `Flips` and `Wait` establish
  it. Under them are lemmas on remainders (`ModSum`, `SameHour`) and on the least
  element of a set (`MinFacts`).

Some theorems are the part of a liveness property that does not need fairness: once
the inputs stay as they are, what was reached stays. Three are about the
computations:

* `PlanReachesDesired` (for `TaintsConverge`): a plan without conflicts, applied to
  the Node it was made for, gives the desired taints, and leaves nothing to plan.
* `DecidingIsIdempotent` (for `StatusComesToRest`): a second decision from the
  status that the first one built writes no value and builds the same status. Its
  hypothesis is a resolved verdict: `claim_capacity_hold` shows why.
* `PublishingIsIdempotent` (for `ComesToRest`): a status computed from itself at the
  same time is itself.

Three are about executions, with every failing call, lost answer and crash in them:

* `DeliveryLastsHolds` (for `DropInDelivered`): a delivery that has come to its end
  (`Settled`) stays, with no further restart, until the user edits it or somebody
  changes the file on the host.
* `TearDownLastsHolds` (for `DropInTornDown`): what is `TornDown` stays so until the
  user edits it.
* `ListStaysFollowedHolds` (for `ListFollowed`): once the projection has `CaughtUp`
  with the list, no agent is armed with a command off the list until the list is
  edited, or somebody writes another list into the ConfigMap (`ForeignList`). That
  leaves alone what the controller projects, and every write of the controller puts
  the ConfigMap back within the list.

The properties that only a theorem states (`EveryReconcileEnds`,
`OnlyAWindowConcedes`, `RecordedIsLoaded`, `ArmedAsTold`, `DeliveryLasts`,
`TearDownLasts`, `ListStaysFollowed`) are defined beside their proofs.

Every safety property of a passing run is proved. Only model-checked are the
liveness properties, as fairness and ENABLED are beyond the prover:
`ClosedWindowReleases`, `KillSwitchTakesEffect`, `DeletionCompletes`,
`ReclaimHonoured`, `ClosedWindowZeroes`, `OpenWindowConcedes`,
`MissedHandbackReported`, `StatusComesToRest`, `TaintsConverge`, `DropInDelivered`,
`DropInTornDown`, `RunningIsReclaimed`, `ListFollowed` and `ComesToRest`.

## Not modelled

* Leader election (`src/leader.rs`). The lease is an external library's, and the
  file copies its answer into a flag. The models have the leading replica.
* Dynamic reference watches (`dynamic_ref_watch.rs`, `src/stream.rs`). They decide
  which resources an event wakes. The models let a reconcile start at any time,
  and the requeue interval bounds what a missing trigger delays.
* Loop protection (`src/loop_protection.rs`): only a warning and a counter depend
  on it.
* Delays in seconds, daylight saving, the clock being set back, the identity of
  Nodes across two Machines of one resource, the one-shot mode of the reclaim
  agent, the parsing of netlink frames, and the syntax of capacity paths.
* Start-up, command line, probes and metrics: no decision depends on them. The
  generators under `src/bin`: batch input and output.
