------------------------- MODULE ReclaimAgent_proofs -------------------------
(***************************************************************************)
(* Proofs about ReclaimAgent, for any commands, any processes and any      *)
(* number of events.                                                       *)
(***************************************************************************)
EXTENDS ReclaimAgent, TLAPS

(***************************************************************************)
(* Type correctness, as far as the proof needs it.                         *)
(***************************************************************************)
Shape ==
  /\ asked \in SUBSET Commands /\ node \in Nodes /\ cm \in ConfigMaps
  /\ procs \in SUBSET Processes /\ ctl \in Control /\ agent \in Agents

\* What is projected, watched, armed and queued keeps to its type.
LEMMA ShapeHolds == Spec => []Shape
<1>1. Init => Shape
  BY DEF Init, Shape, Nodes, ConfigMaps, Lists, NoList, Control, Agents, Off, Absent
<1>2. Shape /\ [Next]_vars => Shape'
  <2> SUFFICES ASSUME Shape, [Next]_vars PROVE Shape'
    OBVIOUS
  <2>1. Off \in Agents /\ Started \in Agents
    BY DEF Off, Started, Absent, ConfigMaps, Lists, NoList, Agents
  <2>2. CASE PatchLabel
    <3>1. node' \in Nodes
      BY <2>2 DEF PatchLabel, Shape, Nodes
    <3>2. ctl' \in Control
      BY <2>2 DEF PatchLabel, Shape, Control
    <3> QED
      BY <2>2, <3>1, <3>2 DEF PatchLabel, Shape
  <2>3. CASE ProjectConfigMap
    <3>1. Projection(ctl.commands) \in ConfigMaps
      BY DEF Shape, Control, Projection, Projected, Rendered, Absent, ConfigMaps, Lists, NoList
    <3> QED
      BY <2>3, <3>1 DEF ProjectConfigMap, Shape, Control
  <2>4. CASE Start
    BY <2>1, <2>4 DEF Start, Shape, Agents
  <2>5. CASE WatchEvent
    BY <2>1, <2>5 DEF WatchEvent, Shape, Armed, Agents, ConfigMaps
  <2>6. CASE WatchListsAgain
    BY <2>1, <2>6 DEF WatchListsAgain, Shape, Agents
  <2>7. CASE ScanProc
    BY <2>1, <2>7 DEF ScanProc, Shape, Agents
  <2>8. CASE NextEvent
    <3>1. PICK p \in agent.queue :
            \/ agent' = [agent EXCEPT !.pc = "check", !.queue = {}]
            \/ agent' = [agent EXCEPT !.queue = @ \ {p}]
      BY <2>8 DEF NextEvent
    <3>2. agent' \in Agents
      BY <3>1 DEF Shape, Agents
    <3> QED
      BY <2>8, <3>2 DEF NextEvent, Shape
  <2>9. CASE CheckIdentity
    BY <2>1, <2>9 DEF CheckIdentity, Shape, Agents
  <2>10. CASE AnnotateNode
    BY <2>1, <2>10 DEF AnnotateNode, Shape, Nodes
  <2>11. CASE Schedule \/ Deschedule \/ AgentDies
    BY <2>1, <2>11 DEF Schedule, Deschedule, AgentDies, Shape
  <2>12. CASE DropEvent
    BY <2>1, <2>12 DEF DropEvent, Shape, Agents
  <2>13. CASE ControllerDies \/ UserEdits \/ ProcessEnds
    BY <2>1, <2>13 DEF ControllerDies, UserEdits, ProcessEnds, Shape, Control
  <2>14. CASE AdminEditsConfigMap
    BY <2>14 DEF AdminEditsConfigMap, Shape, ConfigMaps, Lists, NoList
  <2>15. CASE ProcessStarts
    BY <2>1, <2>15 DEF ProcessStarts, Shape, Agents
  <2>16. CASE NodeChanges
    BY <2>1, <2>16 DEF NodeChanges, Shape, Nodes
  <2>17. CASE UNCHANGED vars
    BY <2>1, <2>17 DEF vars, Shape
  <2> QED
    BY <2>2, <2>3, <2>4, <2>5, <2>6, <2>7, <2>8, <2>9, <2>10,
       <2>11, <2>12, <2>13, <2>14, <2>15, <2>16, <2>17
    DEF Next, Project, Agent, Environment
<1> QED
  BY <1>1, <1>2, PTL DEF Spec

(***************************************************************************)
(* The requests.                                                           *)
(***************************************************************************)
\* An agent that got past is_already_requested never faces the request of an earlier
\* agent, however many of its calls are refused or lost and however often it dies: an
\* agent that may have written a request (AnnotateNode) starts over.
THEOREM FirstRequestStaysHolds == Spec => []FirstRequestStays
<1>1. Init => FirstRequestStays
  BY DEF Init, Off, FirstRequestStays
<1>2. Shape /\ FirstRequestStays /\ [Next]_vars => FirstRequestStays'
  <2> SUFFICES ASSUME Shape, FirstRequestStays, [Next]_vars PROVE FirstRequestStays'
    OBVIOUS
  <2> USE DEF Shape, FirstRequestStays, Nodes, Agents, Started, Off
  <2>1. CASE Project
    BY <2>1 DEF Project, PatchLabel, ProjectConfigMap
  <2>2. CASE Start
    BY <2>2 DEF Start
  <2>3. CASE WatchEvent \/ WatchListsAgain
    BY <2>3 DEF WatchEvent, WatchListsAgain
  <2>4. CASE ScanProc \/ NextEvent
    BY <2>4 DEF ScanProc, NextEvent
  <2>5. CASE CheckIdentity
    BY <2>5 DEF CheckIdentity
  <2>6. CASE AnnotateNode
    BY <2>6 DEF AnnotateNode
  <2>7. CASE Schedule \/ Deschedule \/ AgentDies
    BY <2>7 DEF Schedule, Deschedule, AgentDies
  <2>8. CASE DropEvent \/ ProcessStarts
    BY <2>8 DEF DropEvent, ProcessStarts
  <2>9. CASE ControllerDies \/ UserEdits \/ AdminEditsConfigMap \/ ProcessEnds
    BY <2>9 DEF ControllerDies, UserEdits, AdminEditsConfigMap, ProcessEnds
  <2>10. CASE NodeChanges
    BY <2>10 DEF NodeChanges
  <2>11. CASE UNCHANGED vars
    BY <2>11 DEF vars
  <2> QED
    BY <2>1, <2>2, <2>3, <2>4, <2>5, <2>6, <2>7, <2>8, <2>9, <2>10, <2>11
    DEF Next, Agent, Environment
<1> QED
  BY <1>1, <1>2, ShapeHolds, PTL DEF Spec

(***************************************************************************)
(* The list of commands.                                                   *)
(***************************************************************************)
\* A payload the scanner acts on is the one the watch last told of, and a ConfigMap
\* that does not parse holds no command.
ArmedAsTold ==
  /\ cm.kind # "good" => cm.list = NoList
  /\ agent.seen.kind \in {"good", "empty"} => agent.config = agent.seen.list

\* push_parsed: once the watch has told of a list or of an empty payload, the scanner
\* is armed with exactly that, however the agent, the ConfigMap and the watch fail in
\* between; only a payload that does not parse, or a ConfigMap that is gone, leaves it
\* with an older list.
THEOREM ArmedAsToldHolds == Spec => []ArmedAsTold
<1>1. Init => ArmedAsTold
  BY DEF Init, ArmedAsTold, Off, Absent
<1>2. Shape /\ ArmedAsTold /\ [Next]_vars => ArmedAsTold'
  <2> SUFFICES ASSUME Shape, ArmedAsTold, [Next]_vars PROVE ArmedAsTold'
    OBVIOUS
  <2> USE DEF Shape, ArmedAsTold, Agents, ConfigMaps, Started, Off, Absent
  <2>1. CASE PatchLabel
    BY <2>1 DEF PatchLabel
  <2>2. CASE ProjectConfigMap
    BY <2>2 DEF ProjectConfigMap, Projection, Projected
  <2>3. CASE Start \/ CheckIdentity
    BY <2>3 DEF Start, CheckIdentity
  <2>4. CASE WatchEvent
    BY <2>4 DEF WatchEvent, Armed
  <2>5. CASE WatchListsAgain
    BY <2>5 DEF WatchListsAgain
  <2>6. CASE ScanProc \/ NextEvent
    BY <2>6 DEF ScanProc, NextEvent
  <2>7. CASE AnnotateNode
    BY <2>7 DEF AnnotateNode
  <2>8. CASE Schedule \/ Deschedule \/ AgentDies
    BY <2>8 DEF Schedule, Deschedule, AgentDies
  <2>9. CASE DropEvent \/ ProcessStarts
    BY <2>9 DEF DropEvent, ProcessStarts
  <2>10. CASE AdminEditsConfigMap
    BY <2>10 DEF AdminEditsConfigMap
  <2>11. CASE ControllerDies \/ UserEdits \/ ProcessEnds \/ NodeChanges
    BY <2>11 DEF ControllerDies, UserEdits, ProcessEnds, NodeChanges
  <2>12. CASE UNCHANGED vars
    BY <2>12 DEF vars
  <2> QED
    BY <2>1, <2>2, <2>3, <2>4, <2>5, <2>6, <2>7, <2>8, <2>9, <2>10, <2>11, <2>12
    DEF Next, Project, Agent, Environment
<1> QED
  BY <1>1, <1>2, ShapeHolds, PTL DEF Spec

\* What the controller projects is spec.killIfCommands as it is: the label says whether
\* there is a list, and a projection in progress carries the one there is.
Projecting ==
  /\ node.label = (asked # {})
  /\ ctl.pc = "configmap" => ctl.commands = asked

\* A list that matches no process but those whose comm spec.killIfCommands names.
Within(list) == list.commands \subseteq asked /\ list.substrings = {}

\* The projection has caught up with spec.killIfCommands: nothing between the spec and
\* the scanner holds a command that was taken off the list, and an empty list has no
\* agent.
CaughtUp ==
  /\ Projecting
  /\ Within(cm.list) /\ Within(agent.config)
  /\ asked = {} => agent.pc = "off"

\* Somebody writes a list of their own into the ConfigMap.
ForeignList == AdminEditsConfigMap /\ ~Within(cm'.list)

\* The safety half of ListFollowed, while spec.killIfCommands stays as it is. Once
\* caught up, no call that fails or takes effect with its answer lost, no broken watch
\* or crash, and no edit of the ConfigMap that deletes, empties, breaks or shortens it,
\* has the agent armed with a command that is not listed; only a list of somebody's own
\* has. Not even that reaches what the controller projects, and whatever else writes
\* the ConfigMap writes what is listed: the next projection overwrites such a list.
ListStaysFollowed ==
  [][asked' = asked =>
       /\ CaughtUp => CaughtUp' \/ ForeignList
       /\ Projecting => Projecting'
       /\ Projecting /\ cm' # cm => Within(cm'.list) \/ AdminEditsConfigMap]_vars

\* Nothing but an edit of spec.killIfCommands, or of the ConfigMap's list by hand, undoes
\* what PatchLabel, ProjectConfigMap and WatchEvent have brought about together.
THEOREM ListStaysFollowedHolds == Spec => ListStaysFollowed
<1>1. ASSUME Shape, Next, asked' = asked, Projecting PROVE Projecting'
  <2> USE DEF Shape, Projecting
  <2>1. CASE PatchLabel
    BY <1>1, <2>1 DEF PatchLabel, Nodes
  <2>2. CASE ProjectConfigMap \/ ControllerDies
    BY <1>1, <2>2 DEF ProjectConfigMap, ControllerDies
  <2>3. CASE AnnotateNode
    BY <1>1, <2>3 DEF AnnotateNode, Nodes
  <2>4. CASE NodeChanges
    BY <1>1, <2>4 DEF NodeChanges, Nodes
  <2>5. CASE UNCHANGED <<node, ctl>>
    BY <1>1, <2>5
  <2> QED
    BY <1>1, <2>1, <2>2, <2>3, <2>4, <2>5
    DEF Next, Project, Agent, Environment, Start, WatchEvent, ScanProc, NextEvent, CheckIdentity,
        Schedule, Deschedule, WatchListsAgain, AgentDies, DropEvent, UserEdits,
        AdminEditsConfigMap, ProcessStarts, ProcessEnds
<1>2. ASSUME Shape, Next, asked' = asked, Projecting, cm' # cm
      PROVE  Within(cm'.list) \/ AdminEditsConfigMap
  <2>1. CASE ProjectConfigMap
    BY <1>2, <2>1 DEF ProjectConfigMap, Projecting, Projection, Projected, Rendered, Absent,
                      NoList, Within
  <2> QED
    BY <1>2, <2>1
    DEF Next, Project, Agent, Environment, PatchLabel, Start, WatchEvent, ScanProc, NextEvent,
        CheckIdentity, AnnotateNode, Schedule, Deschedule, WatchListsAgain, AgentDies, DropEvent,
        ControllerDies, UserEdits, ProcessStarts, ProcessEnds, NodeChanges
<1>3. ASSUME Shape, Next, asked' = asked, CaughtUp PROVE CaughtUp' \/ ForeignList
  <2>1. Projecting'
    BY <1>1, <1>3 DEF CaughtUp
  <2>2. CASE AdminEditsConfigMap
    BY <1>3, <2>1, <2>2 DEF AdminEditsConfigMap, CaughtUp, Within, ForeignList
  <2>3. CASE ~AdminEditsConfigMap
    <3>1. Within(cm'.list) /\ Within(cm.list)
      BY <1>2, <1>3, <2>3 DEF CaughtUp
    <3>2. Within(agent'.config) /\ (asked = {} => agent'.pc = "off")
      <4> USE DEF Shape, CaughtUp, Projecting, Within, Agents, ConfigMaps, Started, Off, Absent,
                  NoList
      <4>1. CASE UNCHANGED agent
        BY <1>3, <4>1
      <4>2. CASE Start \/ CheckIdentity \/ AnnotateNode
        BY <1>3, <4>2 DEF Start, CheckIdentity, AnnotateNode
      <4>3. CASE WatchEvent
        BY <1>3, <4>3 DEF WatchEvent, Armed
      <4>4. CASE WatchListsAgain
        BY <1>3, <4>4 DEF WatchListsAgain
      <4>5. CASE ScanProc \/ NextEvent
        BY <1>3, <4>5 DEF ScanProc, NextEvent
      <4>6. CASE Schedule
        <5>1. asked # {} /\ agent' = Started
          BY <1>3, <4>6 DEF Schedule
        <5> QED
          BY <5>1
      <4>7. CASE DropEvent \/ ProcessStarts
        BY <1>3, <4>7 DEF DropEvent, ProcessStarts
      <4>8. CASE Deschedule \/ AgentDies
        BY <1>3, <4>8 DEF Deschedule, AgentDies
      <4> QED
        BY <1>3, <2>3, <4>1, <4>2, <4>3, <4>4, <4>5, <4>6, <4>7, <4>8
        DEF Next, Project, Agent, Environment, PatchLabel, ProjectConfigMap, ControllerDies,
            UserEdits, ProcessEnds, NodeChanges
    <3> QED
      BY <1>3, <2>1, <3>1, <3>2 DEF CaughtUp, Within
  <2> QED
    BY <2>2, <2>3
<1>4. Shape /\ [Next]_vars =>
        [asked' = asked => /\ CaughtUp => CaughtUp' \/ ForeignList
                           /\ Projecting => Projecting'
                           /\ Projecting /\ cm' # cm => Within(cm'.list) \/ AdminEditsConfigMap]_vars
  BY <1>1, <1>2, <1>3 DEF vars
<1> QED
  BY <1>4, ShapeHolds, PTL DEF Spec, ListStaysFollowed

=============================================================================
