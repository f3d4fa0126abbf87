----------------------------- MODULE KataConfig -----------------------------
(***************************************************************************)
(* The delivery of a kata drop-in to one Node. The controller of an Active *)
(* ScheduledMachine looks for the source object and stamps a label and a   *)
(* reference on the Node; the label schedules an agent there, which copies *)
(* the source into a host file, records on the Node what it applied and    *)
(* restarts the host service. With the reference gone the agent unlinks    *)
(* the file and takes the label away, and with it itself.                  *)
(***************************************************************************)
EXTENDS Integers

CONSTANTS
  Contents,   \* what a drop-in may say
  MaxEvents   \* bound: changes by others, failing calls and crashes

ASSUME ConstantsAssumption ==
  Contents \cap {"absent", "unset", "nokey", "edited"} = {} /\ MaxEvents \in Nat

VARIABLES
  kata,     \* spec.kata: none, good, or bad for the agent's validation
  source,   \* the object it names: its content, without the key, or absent
  node,     \* label, reference and applied annotation on the Node
  host,     \* the drop-in, and the drop-in the service was last started with
  ctl,      \* the controller's delivery in progress
  agent,    \* the agent's tick in progress
  events,   \* how much of the bound is used up
  (*************************************************************************)
  (* History variables: no action reads them.                              *)
  (*************************************************************************)
  news,     \* the content fetched last, and was there another one, or a
            \* tear-down, since the last restart?
  missed    \* was a hash recorded with which the service was not started?

vars == <<kata, source, node, host, ctl, agent, events, news, missed>>

Refs == {"none", "good", "bad"}

\* What the agent wants on the host ("absent": ABSENT_HASH_MARKER).
Wanted == Contents \cup {"absent"}

\* What is there: "edited" is nobody's delivery.
Files == Wanted \cup {"edited"}

Nodes == [label : BOOLEAN, ref : Refs, applied : Wanted \cup {"unset"}]

Hosts == [file : Files, loaded : Files]

\* kata: the reference the delivery started with.
Control == [pc : {"idle", "patch"}, kata : Refs]

\* prev: the applied hash read at the start of the tick. want: the content fetched,
\* then the hash that is on the host.
Agents == [pc : {"off", "idle", "teardown", "clear", "fetch", "sync", "record", "restart"},
           prev : Wanted \cup {"unset"}, want : Wanted]

Off == [pc |-> "off", prev |-> "unset", want |-> "absent"]

Waiting == [Off EXCEPT !.pc = "idle"]

TypeOK ==
  /\ kata \in Refs
  /\ source \in Wanted \cup {"nokey"}
  /\ node \in Nodes
  /\ host \in Hosts
  /\ ctl \in Control
  /\ agent \in Agents
  /\ events \in 0..MaxEvents
  /\ news \in [content : Wanted \cup {"unset"}, fresh : BOOLEAN]
  /\ missed \in BOOLEAN

Init ==
  /\ kata \in Refs
  /\ source \in Wanted
  /\ node = [label |-> FALSE, ref |-> "none", applied |-> "unset"]
  /\ host = [file |-> "absent", loaded |-> "absent"]
  /\ ctl = [pc |-> "idle", kata |-> "none"]
  /\ agent = Off
  /\ events = 0
  /\ news = [content |-> "unset", fresh |-> TRUE]
  /\ missed = FALSE

(***************************************************************************)
(* A call is answered ("ok"), refused without effect ("refused"), or takes *)
(* effect while its answer is lost ("lost").                               *)
(***************************************************************************)
Answers == {"ok"} \cup (IF events < MaxEvents THEN {"refused", "lost"} ELSE {})

Charge(a) == events' = IF a = "ok" THEN events ELSE events + 1

CountEvent == events < MaxEvents /\ events' = events + 1

(***************************************************************************)
(* reconcile_kata_config_delivery                                          *)
(***************************************************************************)
\* The existence check. An object without the key counts as there.
ProbeSource ==
  /\ ctl.pc = "idle"
  /\ \E a \in Answers :
       /\ Charge(a)
       /\ ctl' = CASE kata = "none"               -> [pc |-> "patch", kata |-> "none"]
                   [] kata # "none" /\ a = "ok"   ->
                        [pc |-> "patch", kata |-> IF source = "absent" THEN "none" ELSE kata]
                   [] kata # "none" /\ a # "ok"   -> ctl
  /\ UNCHANGED <<kata, source, node, host, agent, news, missed>>

\* Mutant: the tear-down takes the label away as well.
StampedBare(n, ref) == [n EXCEPT !.ref = ref, !.label = (ref # "none")]

\* The label goes on with a reference; the controller never takes it off.
Stamped(n, ref) == [n EXCEPT !.ref = ref, !.label = @ \/ ref # "none"]

PatchNode ==
  /\ ctl.pc = "patch"
  /\ \E a \in Answers :
       /\ Charge(a)
       /\ node' = IF a = "refused" THEN node ELSE Stamped(node, ctl.kata)
  /\ ctl' = [pc |-> "idle", kata |-> "none"]
  /\ UNCHANGED <<kata, source, host, agent, news, missed>>

Deliver == ProbeSource \/ PatchNode

(***************************************************************************)
(* reconcile_once of the agent. An error ends the tick.                    *)
(***************************************************************************)
\* read_node_state; a reference that does not parse is an error.
ReadNodeState ==
  /\ agent.pc = "idle"
  /\ \E a \in Answers :
       /\ Charge(a)
       /\ agent' = CASE a # "ok" \/ node.ref = "bad"   -> Waiting
                     [] a = "ok" /\ node.ref = "none"  -> [Waiting EXCEPT !.pc = "teardown"]
                     [] a = "ok" /\ node.ref = "good"  ->
                          [Waiting EXCEPT !.pc = "fetch", !.prev = node.applied]
  /\ UNCHANGED <<kata, source, node, host, ctl, news, missed>>

\* sync_content(None) on the fixed path.
Unlink ==
  /\ agent.pc = "teardown"
  /\ \E a \in Answers :
       /\ Charge(a)
       /\ host' = IF a = "refused" THEN host ELSE [host EXCEPT !.file = "absent"]
       /\ agent' = IF a = "ok" THEN [Waiting EXCEPT !.pc = "clear"] ELSE Waiting
  /\ UNCHANGED <<kata, source, node, ctl, news, missed>>

\* Mutant: the clean-up leaves the label to the controller.
ClearAppliedOnly ==
  /\ agent.pc = "clear"
  /\ \E a \in Answers :
       /\ Charge(a)
       /\ node' = IF a = "refused" THEN node ELSE [node EXCEPT !.applied = "unset"]
  /\ agent' = Waiting
  /\ UNCHANGED <<kata, source, host, ctl, news, missed>>

ClearOptin ==
  /\ agent.pc = "clear"
  /\ \E a \in Answers :
       /\ Charge(a)
       /\ IF a = "refused" THEN UNCHANGED <<node, news>>
          ELSE /\ node' = [node EXCEPT !.applied = "unset", !.label = FALSE]
               /\ news' = [news EXCEPT !.fresh = TRUE]
  /\ agent' = Waiting
  /\ UNCHANGED <<kata, source, host, ctl, missed>>

FetchContent ==
  /\ agent.pc = "fetch"
  /\ \E a \in Answers :
       /\ Charge(a)
       /\ IF a # "ok" THEN agent' = Waiting /\ UNCHANGED news
          ELSE LET want == IF source = "nokey" THEN "absent" ELSE source
               IN  /\ agent' = [agent EXCEPT !.pc = "sync", !.want = want]
                   /\ news' = IF news.content = want THEN news
                              ELSE [content |-> want, fresh |-> TRUE]
  /\ UNCHANGED <<kata, source, node, host, ctl, missed>>

\* Mutant: only a first delivery restarts the service.
NeedsRestartOnce(prev, want) == prev = "unset"

NeedsRestart(prev, want) == prev # want

\* sync_content and the restart guard: the file ends up with the content whatever
\* was there, and a crash cannot leave half of it (atomic_write).
SyncContent ==
  /\ agent.pc = "sync"
  /\ \E a \in Answers :
       /\ Charge(a)
       /\ host' = IF a = "refused" THEN host ELSE [host EXCEPT !.file = agent.want]
       /\ agent' = IF a = "ok" /\ NeedsRestart(agent.prev, agent.want)
                   THEN [agent EXCEPT !.pc = "record"] ELSE Waiting
  /\ UNCHANGED <<kata, source, node, ctl, news, missed>>

\* Mutant: a record that could not be written does not keep the service running.
RecordLoosely ==
  /\ agent.pc = "record"
  /\ \E a \in Answers :
       /\ Charge(a)
       /\ node' = IF a = "refused" THEN node ELSE [node EXCEPT !.applied = agent.want]
  /\ agent' = [agent EXCEPT !.pc = "restart"]
  /\ missed' = TRUE
  /\ UNCHANGED <<kata, source, host, ctl, news>>

RecordApplied ==
  /\ agent.pc = "record"
  /\ \E a \in Answers :
       /\ Charge(a)
       /\ IF a = "refused" THEN UNCHANGED <<node, missed>>
          ELSE node' = [node EXCEPT !.applied = agent.want] /\ missed' = TRUE
       /\ agent' = IF a = "ok" THEN [agent EXCEPT !.pc = "restart"] ELSE Waiting
  /\ UNCHANGED <<kata, source, host, ctl, news>>

\* restart_if_needed: the service loads the file there is now. Its restart may kill
\* this pod, which comes back.
Restart ==
  /\ agent.pc = "restart"
  /\ \E a \in Answers :
       /\ Charge(a)
       /\ IF a = "refused" THEN UNCHANGED <<host, news, missed>>
          ELSE /\ host' = [host EXCEPT !.loaded = host.file]
               /\ news' = [news EXCEPT !.fresh = FALSE]
               /\ missed' = (host.file # agent.want)
  /\ agent' = Waiting
  /\ UNCHANGED <<kata, source, node, ctl>>

Tick ==
  \/ ReadNodeState \/ Unlink \/ ClearOptin \/ FetchContent \/ SyncContent
  \/ RecordApplied \/ Restart

(***************************************************************************)
(* Everybody else. The DaemonSet keeps an agent where the label is.        *)
(***************************************************************************)
Schedule ==
  /\ node.label /\ agent.pc = "off"
  /\ agent' = Waiting
  /\ UNCHANGED <<kata, source, node, host, ctl, events, news, missed>>

Deschedule ==
  /\ ~node.label /\ agent.pc # "off"
  /\ agent' = Off
  /\ UNCHANGED <<kata, source, node, host, ctl, events, news, missed>>

AgentDies ==
  /\ agent.pc \notin {"off", "idle"}
  /\ CountEvent
  /\ agent' = Waiting
  /\ UNCHANGED <<kata, source, node, host, ctl, news, missed>>

ControllerDies ==
  /\ ctl.pc # "idle"
  /\ CountEvent
  /\ ctl' = [pc |-> "idle", kata |-> "none"]
  /\ UNCHANGED <<kata, source, node, host, agent, news, missed>>

UserEdits ==
  /\ CountEvent
  /\ \/ kata' \in Refs \ {kata} /\ UNCHANGED source
     \/ source' \in (Wanted \cup {"nokey"}) \ {source} /\ UNCHANGED kata
  /\ UNCHANGED <<node, host, ctl, agent, news, missed>>

\* Somebody edits or removes the drop-in on the host.
HostDrifts ==
  /\ CountEvent
  /\ \E f \in {"absent", "edited"} \ {host.file} : host' = [host EXCEPT !.file = f]
  /\ UNCHANGED <<kata, source, node, ctl, agent, news, missed>>

Environment == AgentDies \/ ControllerDies \/ UserEdits \/ HostDrifts

Next == Deliver \/ Tick \/ Schedule \/ Deschedule \/ Environment

Spec == Init /\ [][Next]_vars

(***************************************************************************)
(* handle_active_phase requeues on a timer, the agent loops on its poll    *)
(* interval, and the DaemonSet follows the label.                          *)
(***************************************************************************)
FairSpec ==
  Spec /\ WF_vars(Deliver) /\ WF_vars(Tick) /\ WF_vars(Schedule) /\ WF_vars(Deschedule)

(***************************************************************************)
(* Properties.                                                             *)
(***************************************************************************)
\* The restart guard: the agent gets as far as restarting the service only when it
\* has fetched another content, or torn down, since the last restart, whatever dies,
\* drifts or gets lost in between.
NoRestartLoop == agent.pc = "restart" => news.fresh

\* A drop-in that stays referenced and readable is on the host for good, and the
\* service runs with it unless its hash was recorded and the restart that should
\* have followed failed, or found the file changed.
DropInDelivered ==
  \A c \in Contents :
    <>[](kata = "good" /\ source = c) => <>[](host.file = c /\ (missed \/ host.loaded = c))

\* The tear-down handshake: the label, and with it the agent, goes only when the
\* delivered file is off the host.
LabelGoesLast == [][node.label /\ ~node.label' => host.file \notin Contents]_vars

\* A reference that is gone for good takes the drop-in and the opt-in with it, if no
\* reference was ever stamped between the agent's look and its clear_optin.
DropInTornDown ==
  [](node.ref = "none" \/ node.label) /\ <>[](kata = "none" \/ source = "absent")
    => <>[](host.file \notin Contents /\ ~node.label)

=============================================================================
