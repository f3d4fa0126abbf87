---------------------------- MODULE ReclaimAgent ----------------------------
(***************************************************************************)
(* Emergency reclaim up to the request on the Node. The controller of an   *)
(* Active ScheduledMachine projects spec.killIfCommands as a label and a   *)
(* ConfigMap; the label schedules an agent on the Node, which follows the  *)
(* ConfigMap, compares its lists with what /proc shows of the host's       *)
(* processes and annotates the Node. What the controller makes of the      *)
(* annotation is in ScheduledMachine.                                      *)
(***************************************************************************)
EXTENDS Integers

CONSTANTS
  Commands,   \* what killIfCommands may list
  Processes,  \* what may run on the host, as /proc shows it: comm, the name the kernel
              \* keeps of the executable, and argv, the commands that occur anywhere in
              \* the command line
  MaxEvents   \* bound: changes by others, failing calls and crashes

\* The kernel cuts comm at 15 characters, and a script shows its interpreter's name
\* or its own: a comm need not be any of the commands.
ASSUME ConstantsAssumption ==
  /\ MaxEvents \in Nat
  /\ "other" \notin Commands
  /\ Processes \subseteq [comm : Commands \cup {"other"}, argv : SUBSET Commands]

VARIABLES
  asked,      \* spec.killIfCommands
  detector,   \* how the agents find processes: poll or netlink
  node,       \* opt-in label, machine id as the kubelet reports it, request
  cm,         \* the per-node ConfigMap
  procs,      \* the processes that run on the host
  ctl,        \* the controller's projection in progress
  agent,      \* the agent on the Node
  events      \* how much of the bound is used up

vars == <<asked, detector, node, cm, procs, ctl, agent, events>>

\* What the flag resolves to; it stays as it is while an agent is deployed.
Detectors == {"poll", "netlink"}

\* request: by whom the Node's reclaim annotations were written.
Nodes == [label : BOOLEAN, id : {"missing", "own"}, request : {"none", "agent", "operator"}]

\* A parsed reclaim.toml: match_commands and match_argv_substrings.
Lists == [commands : SUBSET Commands, substrings : SUBSET Commands]

NoList == [commands |-> {}, substrings |-> {}]

\* empty: without a reclaim.toml; bad: with one that does not parse.
ConfigMaps == [kind : {"absent", "good", "empty", "bad"}, list : Lists]

Absent == [kind |-> "absent", list |-> NoList]

\* render_reclaim_toml: the list goes into match_commands, and nothing ever into
\* match_argv_substrings.
Rendered(commands) == [commands |-> commands, substrings |-> {}]

Projected(commands) == [kind |-> "good", list |-> Rendered(commands)]

Control == [pc : {"idle", "configmap"}, commands : SUBSET Commands]

\* seen: the ConfigMap the watch last told of. config: what the scanner is armed
\* with, NoList when idle. queue: exec events in the netlink socket.
Agents == [pc : {"off", "start", "run", "check", "patch"}, seen : ConfigMaps,
           config : Lists, queue : SUBSET Processes]

Off == [pc |-> "off", seen |-> Absent, config |-> NoList, queue |-> {}]

\* A process that ended, whatever the reason, is started again.
Started == [Off EXCEPT !.pc = "start"]

TypeOK ==
  /\ asked \in SUBSET Commands
  /\ detector \in Detectors
  /\ node \in Nodes
  /\ cm \in ConfigMaps
  /\ procs \in SUBSET Processes
  /\ ctl \in Control
  /\ agent \in Agents
  /\ events \in 0..MaxEvents

Init ==
  /\ asked \in SUBSET Commands
  /\ detector \in Detectors
  /\ node = [label |-> FALSE, id |-> "missing", request |-> "none"]
  /\ cm = Absent
  /\ procs = {}
  /\ ctl = [pc |-> "idle", commands |-> {}]
  /\ agent = Off
  /\ events = 0

(***************************************************************************)
(* A call is answered ("ok"), refused without effect ("refused"), or takes *)
(* effect while its answer is lost ("lost").                               *)
(***************************************************************************)
Answers == {"ok"} \cup (IF events < MaxEvents THEN {"refused", "lost"} ELSE {})

Charge(a) == events' = IF a = "ok" THEN events ELSE events + 1

CountEvent == events < MaxEvents /\ events' = events + 1

(***************************************************************************)
(* reconcile_reclaim_agent_provision: the label, then the ConfigMap. An    *)
(* error ends the projection and the next reconcile starts it again.       *)
(***************************************************************************)
PatchLabel ==
  /\ ctl.pc = "idle"
  /\ \E a \in Answers :
       /\ Charge(a)
       /\ node' = IF a = "refused" THEN node ELSE [node EXCEPT !.label = asked # {}]
       /\ ctl' = IF a = "ok" THEN [pc |-> "configmap", commands |-> asked] ELSE ctl
  /\ UNCHANGED <<asked, detector, cm, procs, agent>>

\* Mutant: a ConfigMap that is there is taken for the projected one.
ProjectOnce(commands) ==
  CASE commands = {}                        -> Absent
    [] commands # {} /\ cm # Absent         -> cm
    [] commands # {} /\ cm = Absent         -> Projected(commands)

Projection(commands) == IF commands = {} THEN Absent ELSE Projected(commands)

\* Deleting one that is gone is no error; the forced apply overwrites any edit.
ProjectConfigMap ==
  /\ ctl.pc = "configmap"
  /\ \E a \in Answers :
       /\ Charge(a)
       /\ cm' = IF a = "refused" THEN cm ELSE Projection(ctl.commands)
  /\ ctl' = [pc |-> "idle", commands |-> {}]
  /\ UNCHANGED <<asked, detector, node, procs, agent>>

Project == PatchLabel \/ ProjectConfigMap

(***************************************************************************)
(* The agent: run and, concurrently, run_config_watcher.                   *)
(***************************************************************************)
\* Mutant: the agent starts without looking for an earlier request.
StartBlindly ==
  /\ agent.pc = "start"
  /\ agent' = [agent EXCEPT !.pc = "run"]
  /\ UNCHANGED <<asked, detector, node, cm, procs, ctl, events>>

\* is_already_requested: with a request on the Node the process ends.
Start ==
  /\ agent.pc = "start"
  /\ \E a \in Answers :
       /\ Charge(a)
       /\ agent' = IF a = "ok" /\ node.request = "none" THEN [agent EXCEPT !.pc = "run"]
                   ELSE Started
  /\ UNCHANGED <<asked, detector, node, cm, procs, ctl>>

\* Mutant: an armed scanner is disarmed by a new list.
ArmedOrBroken(held, c) == IF c.kind = "good" /\ held = NoList THEN c.list ELSE NoList

\* push_parsed: a bad payload leaves the scanner armed with what it has.
Armed(held, c) == IF c.kind = "bad" THEN held ELSE c.list

\* apply_event. A new configuration has the netlink socket opened again, and what
\* was queued in the old one is gone.
WatchEvent ==
  /\ agent.pc \in {"run", "check", "patch"}
  /\ agent.seen # cm
  /\ agent' = [agent EXCEPT !.seen = cm, !.config = Armed(@, cm),
                            !.queue = IF cm.kind = "bad" THEN @ ELSE {}]
  /\ UNCHANGED <<asked, detector, node, cm, procs, ctl, events>>

\* The watch breaks and lists again. The list of a ConfigMap that is gone has no
\* event for it, so the scanner stays armed.
WatchListsAgain ==
  /\ agent.pc \in {"run", "check", "patch"}
  /\ agent.seen # cm /\ cm = Absent
  /\ CountEvent
  /\ agent' = [agent EXCEPT !.seen = cm]
  /\ UNCHANGED <<asked, detector, node, cm, procs, ctl>>

\* match_pid: comm is compared as a whole, the command line for a part of it.
Matches(p, list) == p.comm \in list.commands \/ p.argv \cap list.substrings # {}

\* run_scanner: one pass over /proc.
ScanProc ==
  /\ detector = "poll" /\ agent.pc = "run"
  /\ \E p \in procs : Matches(p, agent.config)
  /\ agent' = [agent EXCEPT !.pc = "check"]
  /\ UNCHANGED <<asked, detector, node, cm, procs, ctl, events>>

\* run_netlink_scanner: one exec event, its process looked up as in ScanProc.
NextEvent ==
  /\ detector = "netlink" /\ agent.pc = "run"
  /\ \E p \in agent.queue :
       agent' = IF p \in procs /\ Matches(p, agent.config)
                THEN [agent EXCEPT !.pc = "check", !.queue = {}]
                ELSE [agent EXCEPT !.queue = @ \ {p}]
  /\ UNCHANGED <<asked, detector, node, cm, procs, ctl, events>>

\* annotate_node: the Node must report the machine id of this host ...
CheckIdentity ==
  /\ agent.pc = "check"
  /\ \E a \in Answers :
       /\ Charge(a)
       /\ agent' = IF a = "ok" /\ node.id = "own" THEN [agent EXCEPT !.pc = "patch"]
                   ELSE Started
  /\ UNCHANGED <<asked, detector, node, cm, procs, ctl>>

\* ... before the request is written. Either way the process ends.
AnnotateNode ==
  /\ agent.pc = "patch"
  /\ \E a \in Answers :
       /\ Charge(a)
       /\ node' = IF a = "refused" THEN node ELSE [node EXCEPT !.request = "agent"]
  /\ agent' = Started
  /\ UNCHANGED <<asked, detector, cm, procs, ctl>>

Agent == Start \/ WatchEvent \/ ScanProc \/ NextEvent \/ CheckIdentity \/ AnnotateNode

(***************************************************************************)
(* Everybody else.                                                         *)
(***************************************************************************)
\* The DaemonSet keeps an agent where the label is.
Schedule ==
  /\ node.label /\ agent.pc = "off"
  /\ agent' = Started
  /\ UNCHANGED <<asked, detector, node, cm, procs, ctl, events>>

Deschedule ==
  /\ ~node.label /\ agent.pc # "off"
  /\ agent' = Off
  /\ UNCHANGED <<asked, detector, node, cm, procs, ctl, events>>

\* A crash, an error of the scanner, or an overrun of the netlink socket.
AgentDies ==
  /\ agent.pc \in {"run", "check", "patch"}
  /\ CountEvent
  /\ agent' = Started
  /\ UNCHANGED <<asked, detector, node, cm, procs, ctl>>

\* next_event drops a frame it cannot parse, and all but the first of a datagram.
DropEvent ==
  /\ CountEvent
  /\ \E p \in agent.queue : agent' = [agent EXCEPT !.queue = @ \ {p}]
  /\ UNCHANGED <<asked, detector, node, cm, procs, ctl>>

ControllerDies ==
  /\ ctl.pc # "idle"
  /\ CountEvent
  /\ ctl' = [pc |-> "idle", commands |-> {}]
  /\ UNCHANGED <<asked, detector, node, cm, procs, agent>>

UserEdits ==
  /\ CountEvent
  /\ asked' \in SUBSET Commands \ {asked}
  /\ UNCHANGED <<detector, node, cm, procs, ctl, agent>>

\* The ConfigMap is deleted, emptied, broken, or given any other list.
AdminEditsConfigMap ==
  /\ CountEvent
  /\ \/ \E k \in {"absent", "empty", "bad"} : cm' = [kind |-> k, list |-> NoList]
     \/ \E l \in Lists : cm' = [kind |-> "good", list |-> l]
  /\ cm' # cm
  /\ UNCHANGED <<asked, detector, node, procs, ctl, agent>>

\* The kernel reports an exec to an open socket: there is one while a netlink
\* scanner is armed.
ProcessStarts ==
  /\ CountEvent
  /\ \E p \in Processes \ procs :
       /\ procs' = procs \cup {p}
       /\ agent' = IF detector = "netlink" /\ agent.pc = "run" /\ agent.config # NoList
                   THEN [agent EXCEPT !.queue = @ \cup {p}] ELSE agent
  /\ UNCHANGED <<asked, detector, node, cm, ctl>>

ProcessEnds ==
  /\ CountEvent
  /\ \E p \in procs : procs' = procs \ {p}
  /\ UNCHANGED <<asked, detector, node, cm, ctl, agent>>

\* The kubelet reports the machine id; somebody requests a reclaim by hand; the
\* controller has handled a request.
NodeChanges ==
  /\ CountEvent
  /\ \/ node.id = "missing" /\ node' = [node EXCEPT !.id = "own"]
     \/ node.request = "none" /\ node' = [node EXCEPT !.request = "operator"]
     \/ node.request # "none" /\ node' = [node EXCEPT !.request = "none"]
  /\ UNCHANGED <<asked, detector, cm, procs, ctl, agent>>

Environment ==
  \/ WatchListsAgain \/ AgentDies \/ DropEvent \/ ControllerDies \/ UserEdits
  \/ AdminEditsConfigMap \/ ProcessStarts \/ ProcessEnds \/ NodeChanges

Next == Project \/ Agent \/ Schedule \/ Deschedule \/ Environment

Spec == Init /\ [][Next]_vars

(***************************************************************************)
(* handle_active_phase requeues on a timer, the watcher resubscribes, the  *)
(* scanner loops and the DaemonSet follows the label.                      *)
(***************************************************************************)
FairSpec ==
  /\ Spec
  /\ WF_vars(Project) /\ WF_vars(Schedule) /\ WF_vars(Deschedule)
  /\ WF_vars(Start) /\ WF_vars(WatchEvent) /\ WF_vars(ScanProc) /\ WF_vars(NextEvent)
  /\ WF_vars(CheckIdentity) /\ WF_vars(AnnotateNode)

(***************************************************************************)
(* Properties.                                                             *)
(***************************************************************************)
\* is_already_requested: an agent about to annotate the Node never faces the request
\* of an earlier one, whose time and reason it would overwrite, whatever was lost
\* or died in between.
FirstRequestStays == agent.pc \in {"run", "check", "patch"} => node.request # "agent"

\* A process that keeps running on a Node that reports its machine id, under a comm that
\* stays listed, gets the Node requested by an agent that polls, whatever happened to
\* the ConfigMap, the watch and the agent before. (One that only shows a listed command
\* in its command line does not: Rendered fills no match_argv_substrings.)
RunningIsReclaimed ==
  \A p \in Processes :
    (detector = "poll" /\ <>[](p \in procs /\ p.comm \in asked /\ node.id = "own"))
      => <>(node.request # "none")

\* A list that stays is, in the end, all that an agent is ever armed with, whatever an
\* administrator wrote into the ConfigMap before: it waits for its first event, or acts
\* on exactly the list. A list that stays empty takes agent and projection with it.
ListFollowed ==
  \A s \in SUBSET Commands :
    <>[](asked = s) => <>[](/\ agent.config \in {NoList, Rendered(s)}
                            /\ s = {} => ~node.label /\ cm = Absent /\ agent.pc = "off")

=============================================================================
