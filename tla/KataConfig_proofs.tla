-------------------------- MODULE KataConfig_proofs --------------------------
(***************************************************************************)
(* Proofs about KataConfig, for any contents and any number of events.     *)
(***************************************************************************)
EXTENDS KataConfig, TLAPS

(***************************************************************************)
(* Type correctness, as far as the proofs need it.                         *)
(***************************************************************************)
News == [content : Wanted \cup {"unset"}, fresh : BOOLEAN]

Shape ==
  /\ kata \in Refs /\ source \in Wanted \cup {"nokey"}
  /\ node \in Nodes /\ host \in Hosts /\ ctl \in Control /\ agent \in Agents
  /\ news \in News

\* A tick of the agent never mixes up what it fetched, what was recorded and what is
\* on the host: all keep to their types.
LEMMA ShapeHolds == Spec => []Shape
<1>1. Init => Shape
  BY DEF Init, Shape, Refs, Wanted, Files, Nodes, Hosts, Control, Agents, Off, News
<1>2. Shape /\ [Next]_vars => Shape'
  <2> SUFFICES ASSUME Shape, [Next]_vars PROVE Shape'
    OBVIOUS
  <2>1. CASE ProbeSource
    BY <2>1 DEF ProbeSource, Shape, Control, Refs
  <2>2. CASE PatchNode
    <3>1. node' \in Nodes
      BY <2>2 DEF PatchNode, Stamped, Shape, Nodes, Refs, Wanted, Control, Agents
    <3>2. ctl' \in Control
      BY <2>2 DEF PatchNode, Stamped, Shape, Control, Refs
    <3> QED
      BY <2>2, <3>1, <3>2 DEF PatchNode, Shape
  <2>3. CASE ReadNodeState
    <3>1. node.ref \in {"none", "good", "bad"} /\ node.applied \in Wanted \cup {"unset"}
      BY DEF Shape, Nodes, Refs
    <3>2. \/ agent' = Waiting \/ agent' = [Waiting EXCEPT !.pc = "teardown"]
          \/ agent' = [Waiting EXCEPT !.pc = "fetch", !.prev = node.applied]
      BY <2>3, <3>1 DEF ReadNodeState
    <3>3. agent' \in Agents
      BY <3>1, <3>2 DEF Agents, Wanted, Waiting, Off
    <3> QED
      BY <2>3, <3>3 DEF ReadNodeState, Shape
  <2>4. CASE Unlink
    <3>1. host' \in Hosts
      BY <2>4 DEF Unlink, Shape, Hosts, Files, Wanted, Agents
    <3>2. agent' \in Agents
      BY <2>4 DEF Unlink, Shape, Agents, Wanted, Waiting, Off, Nodes, Refs
    <3> QED
      BY <2>4, <3>1, <3>2 DEF Unlink, Shape
  <2>5. CASE ClearOptin
    <3>1. node' \in Nodes
      BY <2>5 DEF ClearOptin, Shape, Nodes, Refs, Wanted, Control, Agents
    <3>2. news' \in News
      BY <2>5 DEF ClearOptin, Shape, News, Wanted
    <3>3. agent' \in Agents
      BY <2>5 DEF ClearOptin, Shape, Agents, Wanted, Waiting, Off, Nodes, Refs
    <3> QED
      BY <2>5, <3>1, <3>2, <3>3 DEF ClearOptin, Shape
  <2>6. CASE FetchContent
    <3>1. agent' \in Agents
      BY <2>6 DEF FetchContent, Shape, Agents, Wanted, Waiting, Off, Nodes, Refs
    <3>2. news' \in News
      <4> DEFINE want == IF source = "nokey" THEN "absent" ELSE source
      <4>1. want \in Wanted
        BY DEF Shape, Wanted
      <4>2. news' = news \/ news' = [content |-> want, fresh |-> TRUE]
        BY <2>6 DEF FetchContent
      <4>3. [content |-> want, fresh |-> TRUE] \in News
        BY <4>1 DEF News
      <4> QED
        BY <4>2, <4>3 DEF Shape
    <3> QED
      BY <2>6, <3>1, <3>2 DEF FetchContent, Shape
  <2>7. CASE SyncContent
    <3>1. host' \in Hosts
      BY <2>7 DEF SyncContent, NeedsRestart, Shape, Hosts, Files, Wanted, Agents
    <3>2. agent' \in Agents
      BY <2>7 DEF SyncContent, NeedsRestart, Shape, Agents, Wanted, Waiting, Off, Nodes, Refs
    <3> QED
      BY <2>7, <3>1, <3>2 DEF SyncContent, Shape
  <2>8. CASE RecordApplied
    <3>1. node' \in Nodes
      BY <2>8 DEF RecordApplied, Shape, Nodes, Refs, Wanted, Control, Agents
    <3>2. agent' \in Agents
      BY <2>8 DEF RecordApplied, Shape, Agents, Wanted, Waiting, Off, Nodes, Refs
    <3> QED
      BY <2>8, <3>1, <3>2 DEF RecordApplied, Shape
  <2>9. CASE Restart
    <3>1. host' \in Hosts
      BY <2>9 DEF Restart, Shape, Hosts, Files, Wanted, Agents
    <3>2. news' \in News
      BY <2>9 DEF Restart, Shape, News, Wanted
    <3>3. agent' \in Agents
      BY <2>9 DEF Restart, Shape, Agents, Wanted, Waiting, Off, Nodes, Refs
    <3> QED
      BY <2>9, <3>1, <3>2, <3>3 DEF Restart, Shape
  <2>10. CASE Schedule \/ Deschedule \/ AgentDies
    BY <2>10 DEF Schedule, Deschedule, AgentDies, Shape, Refs, Wanted, Files, Hosts, Control, Agents, Waiting, Off
  <2>11. CASE ControllerDies \/ UserEdits \/ HostDrifts
    BY <2>11 DEF ControllerDies, UserEdits, HostDrifts, Shape, Refs, Wanted, Files, Hosts, Control, Agents, Waiting, Off
  <2>12. CASE UNCHANGED vars
    BY <2>12 DEF vars, Shape, Refs, Wanted, Files, Hosts, Control, Agents, Waiting, Off
  <2> QED
    BY <2>1, <2>2, <2>3, <2>4, <2>5, <2>6, <2>7, <2>8, <2>9, <2>10, <2>11, <2>12
    DEF Next, Deliver, Tick, Environment
<1> QED
  BY <1>1, <1>2, PTL DEF Spec

(***************************************************************************)
(* The restart guard.                                                      *)
(***************************************************************************)
\* What a tick carries from call to call, and the one fact that outlives ticks: until
\* there is something new, the recorded hash is that of the content fetched last.
Guarded ==
  /\ agent.pc \in {"sync", "record", "restart"} => agent.want = news.content
  /\ agent.pc \in {"fetch", "sync", "record"} => agent.prev = node.applied
  /\ agent.pc = "record" => agent.prev # agent.want
  /\ agent.pc = "restart" => node.applied = agent.want /\ news.fresh
  /\ ~news.fresh => node.applied = news.content

\* The chain from the fetch to the restart is kept by every step of a tick and by
\* whatever cuts a tick short.
LEMMA GuardedHolds == Spec => []Guarded
<1>1. Init => Guarded
  BY DEF Init, Guarded, Off
<1>2. Shape /\ Guarded /\ [Next]_vars => Guarded'
  <2> SUFFICES ASSUME Shape, Guarded, [Next]_vars PROVE Guarded'
    OBVIOUS
  <2> USE DEF Shape, Guarded, Nodes, Agents, Off, Waiting, News
  <2>1. CASE ProbeSource
    BY <2>1 DEF ProbeSource
  <2>2. CASE PatchNode
    BY <2>2 DEF PatchNode, Stamped
  <2>3. CASE ReadNodeState
    BY <2>3 DEF ReadNodeState, Refs
  <2>4. CASE Unlink
    BY <2>4 DEF Unlink
  <2>5. CASE ClearOptin
    BY <2>5 DEF ClearOptin
  <2>6. CASE FetchContent
    <3> DEFINE want == IF source = "nokey" THEN "absent" ELSE source
    <3>1. \/ agent' = Waiting /\ news' = news
          \/ /\ agent' = [agent EXCEPT !.pc = "sync", !.want = want]
             /\ \/ news' = news /\ news.content = want
                \/ news' = [content |-> want, fresh |-> TRUE]
      BY <2>6 DEF FetchContent
    <3>2. agent.pc = "fetch" /\ node' = node
      BY <2>6 DEF FetchContent
    <3> HIDE DEF want
    <3>3. CASE agent' = Waiting /\ news' = news
      BY <3>2, <3>3
    <3>4. CASE agent' = [agent EXCEPT !.pc = "sync", !.want = want]
               /\ news' = news /\ news.content = want
      BY <3>2, <3>4
    <3>5. CASE agent' = [agent EXCEPT !.pc = "sync", !.want = want]
               /\ news' = [content |-> want, fresh |-> TRUE]
      BY <3>2, <3>5
    <3> QED
      BY <3>1, <3>3, <3>4, <3>5
  <2>7. CASE SyncContent
    BY <2>7 DEF SyncContent, NeedsRestart
  <2>8. CASE RecordApplied
    BY <2>8 DEF RecordApplied
  <2>9. CASE Restart
    BY <2>9 DEF Restart
  <2>10. CASE Schedule \/ Deschedule
    BY <2>10 DEF Schedule, Deschedule
  <2>11. CASE Environment
    BY <2>11 DEF Environment, AgentDies, ControllerDies, UserEdits, HostDrifts
  <2>12. CASE UNCHANGED vars
    BY <2>12 DEF vars
  <2> QED
    BY <2>1, <2>2, <2>3, <2>4, <2>5, <2>6, <2>7, <2>8, <2>9, <2>10, <2>11, <2>12
    DEF Next, Deliver, Tick
<1> QED
  BY <1>1, <1>2, ShapeHolds, PTL DEF Spec

\* The agent gets as far as restarting the service only with something new since the
\* last restart (NeedsRestart, RecordApplied before Restart), whatever the contents
\* and however many calls fail, processes die or files drift.
THEOREM NoRestartLoopHolds == Spec => []NoRestartLoop
<1>1. Guarded => NoRestartLoop
  BY DEF Guarded, NoRestartLoop
<1> QED
  BY <1>1, GuardedHolds, PTL

(***************************************************************************)
(* The tear-down handshake.                                                *)
(***************************************************************************)
\* Nothing puts a delivered file back between Unlink and ClearOptin: only the agent
\* writes one, and it is busy.
UnlinkedBeforeClear == agent.pc = "clear" => host.file \notin Contents

\* The label goes, and with it the agent that could clean up, only when the delivered
\* file is off the host (Unlink before ClearOptin).
THEOREM LabelGoesLastHolds == Spec => LabelGoesLast
<1> USE ConstantsAssumption DEF ConstantsAssumption
<1>1. Init => UnlinkedBeforeClear
  BY DEF Init, UnlinkedBeforeClear, Off
<1>2. Shape /\ UnlinkedBeforeClear /\ [Next]_vars => UnlinkedBeforeClear'
  <2> SUFFICES ASSUME Shape, UnlinkedBeforeClear, [Next]_vars PROVE UnlinkedBeforeClear'
    OBVIOUS
  <2> USE DEF Shape, UnlinkedBeforeClear, Hosts, Agents, Off, Waiting
  <2>1. CASE Deliver
    BY <2>1 DEF Deliver, ProbeSource, PatchNode
  <2>2. CASE ReadNodeState
    BY <2>2 DEF ReadNodeState, Nodes, Refs
  <2>3. CASE Unlink
    BY <2>3 DEF Unlink, Answers
  <2>4. CASE ClearOptin \/ FetchContent
    BY <2>4 DEF ClearOptin, FetchContent
  <2>5. CASE SyncContent
    BY <2>5 DEF SyncContent
  <2>6. CASE RecordApplied \/ Restart
    BY <2>6 DEF RecordApplied, Restart
  <2>7. CASE Schedule \/ Deschedule
    BY <2>7 DEF Schedule, Deschedule
  <2>8. CASE Environment
    BY <2>8 DEF Environment, AgentDies, ControllerDies, UserEdits, HostDrifts
  <2>9. CASE UNCHANGED vars
    BY <2>9 DEF vars
  <2> QED
    BY <2>1, <2>2, <2>3, <2>4, <2>5, <2>6, <2>7, <2>8, <2>9 DEF Next, Tick
<1>3. Shape /\ UnlinkedBeforeClear /\ [Next]_vars
        => [node.label /\ ~node.label' => host.file \notin Contents]_vars
  <2> SUFFICES ASSUME Shape, UnlinkedBeforeClear, [Next]_vars, node.label, ~node.label'
               PROVE host.file \notin Contents
    OBVIOUS
  <2>1. agent.pc = "clear"
    BY DEF Shape, Nodes, Next, Deliver, ProbeSource, PatchNode, Stamped, Tick, ReadNodeState,
           Unlink, ClearOptin, FetchContent, SyncContent, RecordApplied, Restart, Schedule,
           Deschedule, Environment, AgentDies, ControllerDies, UserEdits, HostDrifts, vars
  <2> QED
    BY <2>1 DEF UnlinkedBeforeClear
<1> QED
  BY <1>1, <1>2, <1>3, ShapeHolds, PTL DEF Spec, LabelGoesLast

(***************************************************************************)
(* What the service runs with.                                             *)
(***************************************************************************)
\* Until a restart is missed, the applied annotation on the Node tells the truth about
\* the running service: it names the drop-in the service was last started with.
RecordedIsLoaded == ~missed /\ node.applied # "unset" => host.loaded = node.applied

\* The annotation is written before the restart it announces (RecordApplied, Restart).
\* It can be wrong only when that restart failed, or found another file in place, and
\* then only until the next restart that finds the right one.
THEOREM RecordedIsLoadedHolds == Spec => []RecordedIsLoaded
<1>1. Init => RecordedIsLoaded
  BY DEF Init, RecordedIsLoaded
<1>2. Shape /\ Guarded /\ RecordedIsLoaded /\ [Next]_vars => RecordedIsLoaded'
  <2> SUFFICES ASSUME Shape, Guarded, RecordedIsLoaded, [Next]_vars PROVE RecordedIsLoaded'
    OBVIOUS
  <2> USE DEF Shape, RecordedIsLoaded, Nodes, Hosts
  <2>1. CASE ProbeSource \/ ReadNodeState \/ FetchContent
    BY <2>1 DEF ProbeSource, ReadNodeState, FetchContent
  <2>2. CASE PatchNode
    BY <2>2 DEF PatchNode, Stamped
  <2>3. CASE Unlink \/ SyncContent
    BY <2>3 DEF Unlink, SyncContent
  <2>4. CASE ClearOptin
    BY <2>4 DEF ClearOptin
  <2>5. CASE RecordApplied
    BY <2>5 DEF RecordApplied
  <2>6. CASE Restart
    BY <2>6 DEF Restart, Guarded
  <2>7. CASE Schedule \/ Deschedule \/ AgentDies
    BY <2>7 DEF Schedule, Deschedule, AgentDies
  <2>8. CASE ControllerDies \/ UserEdits \/ HostDrifts
    BY <2>8 DEF ControllerDies, UserEdits, HostDrifts
  <2>9. CASE UNCHANGED vars
    BY <2>9 DEF vars
  <2> QED
    BY <2>1, <2>2, <2>3, <2>4, <2>5, <2>6, <2>7, <2>8, <2>9
    DEF Next, Deliver, Tick, Environment
<1> QED
  BY <1>1, <1>2, GuardedHolds, ShapeHolds, PTL DEF Spec

(***************************************************************************)
(* What is delivered.                                                      *)
(***************************************************************************)
\* The delivery of a source has come to its end: the Node refers to it, its content is
\* on the host and its hash is recorded, and neither a delivery of the controller nor a
\* tick of the agent that is under way carries anything else.
Settled ==
  /\ kata = "good" /\ source \in Contents
  /\ ctl.pc = "patch" => ctl.kata = "good"
  /\ node.label /\ node.ref = "good" /\ node.applied = source
  /\ host.file = source
  /\ agent.pc \in {"off", "idle", "fetch", "sync"}
  /\ agent.pc \in {"fetch", "sync"} => agent.prev = source
  /\ agent.pc = "sync" => agent.want = source

\* The safety half of DropInDelivered: a delivery that has come to its end is undone by
\* nobody but the user, and by whoever edits the file on the host. No call that fails or
\* takes effect with its answer lost, no crash and no number of ticks takes the file
\* away, changes the annotation or gets as far as a restart.
DeliveryLasts ==
  [][Settled /\ UNCHANGED <<kata, source>>
       => (Settled' /\ UNCHANGED host.loaded) \/ HostDrifts]_vars

\* A delivery that has come to its end is a fixed point of Deliver, Tick and the crashes.
THEOREM DeliveryLastsHolds == Spec => DeliveryLasts
<1> USE ConstantsAssumption DEF ConstantsAssumption
<1>1. Shape /\ [Next]_vars
        => [Settled /\ UNCHANGED <<kata, source>>
              => (Settled' /\ UNCHANGED host.loaded) \/ HostDrifts]_vars
  <2> SUFFICES ASSUME Shape, Next, Settled, UNCHANGED <<kata, source>>, ~HostDrifts
               PROVE  Settled' /\ UNCHANGED host.loaded
    OBVIOUS
  <2> USE DEF Settled
  <2>1. CASE ProbeSource
    BY <2>1 DEF ProbeSource
  <2>2. CASE PatchNode
    <3>1. node' = node \/ node' = Stamped(node, "good")
      BY <2>2 DEF PatchNode
    <3>2. node'.label /\ node'.ref = "good" /\ node'.applied = source
      BY <3>1 DEF Stamped, Shape, Nodes
    <3> QED
      BY <2>2, <3>2 DEF PatchNode
  <2>3. CASE ReadNodeState
    BY <2>3 DEF ReadNodeState, Waiting, Off
  <2>4. CASE Unlink \/ ClearOptin \/ RecordApplied \/ Restart
    BY <2>4 DEF Unlink, ClearOptin, RecordApplied, Restart
  <2>5. CASE FetchContent
    BY <2>5 DEF FetchContent, Shape, Agents, Waiting, Off
  <2>6. CASE SyncContent
    <3>1. host' = host /\ agent' = Waiting
      BY <2>6 DEF SyncContent, NeedsRestart, Shape, Hosts
    <3> QED
      BY <2>6, <3>1 DEF SyncContent, Waiting, Off
  <2>7. CASE Schedule \/ Deschedule \/ AgentDies
    BY <2>7 DEF Schedule, Deschedule, AgentDies, Waiting, Off
  <2>8. CASE ControllerDies \/ UserEdits
    BY <2>8 DEF ControllerDies, UserEdits
  <2> QED
    BY <2>1, <2>2, <2>3, <2>4, <2>5, <2>6, <2>7, <2>8
    DEF Next, Deliver, Tick, Environment
<1> QED
  BY <1>1, ShapeHolds, PTL DEF Spec, DeliveryLasts

\* The drop-in is torn down: nothing refers to a source, the delivered file and the
\* opt-in are gone, and a tick that is under way only removes.
TornDown ==
  /\ kata = "none" \/ source = "absent"
  /\ ctl.pc = "patch" => ctl.kata = "none"
  /\ ~node.label /\ node.ref = "none"
  /\ host.file \notin Contents
  /\ agent.pc \in {"off", "idle", "teardown", "clear"}

\* The safety half of DropInTornDown: what is torn down comes back only with an edit of
\* the user, whatever fails, dies, or is done to the file on the host.
TearDownLasts == [][TornDown /\ UNCHANGED <<kata, source>> => TornDown']_vars

\* Neither the controller nor an agent that is about to go brings back the label, the
\* reference or the file (ProbeSource, Stamped, ReadNodeState).
THEOREM TearDownLastsHolds == Spec => TearDownLasts
<1> USE ConstantsAssumption DEF ConstantsAssumption
<1>1. Shape /\ [Next]_vars => [TornDown /\ UNCHANGED <<kata, source>> => TornDown']_vars
  <2> SUFFICES ASSUME Shape, Next, TornDown, UNCHANGED <<kata, source>> PROVE TornDown'
    OBVIOUS
  <2> USE DEF TornDown
  <2>1. CASE ProbeSource
    BY <2>1 DEF ProbeSource, Shape, Refs
  <2>2. CASE PatchNode
    <3>1. node' = node \/ node' = Stamped(node, "none")
      BY <2>2 DEF PatchNode
    <3>2. ~node'.label /\ node'.ref = "none"
      BY <3>1 DEF Stamped, Shape, Nodes
    <3> QED
      BY <2>2, <3>2 DEF PatchNode
  <2>3. CASE ReadNodeState
    BY <2>3 DEF ReadNodeState, Waiting, Off
  <2>4. CASE Unlink
    BY <2>4 DEF Unlink, Shape, Hosts, Waiting, Off
  <2>5. CASE ClearOptin
    BY <2>5 DEF ClearOptin, Shape, Nodes, Waiting, Off
  <2>6. CASE FetchContent \/ SyncContent \/ RecordApplied \/ Restart
    BY <2>6 DEF FetchContent, SyncContent, RecordApplied, Restart
  <2>7. CASE Schedule \/ Deschedule \/ AgentDies
    BY <2>7 DEF Schedule, Deschedule, AgentDies, Waiting, Off
  <2>8. CASE ControllerDies \/ UserEdits
    BY <2>8 DEF ControllerDies, UserEdits
  <2>9. CASE HostDrifts
    BY <2>9 DEF HostDrifts, Shape, Hosts
  <2> QED
    BY <2>1, <2>2, <2>3, <2>4, <2>5, <2>6, <2>7, <2>8, <2>9
    DEF Next, Deliver, Tick, Environment
<1> QED
  BY <1>1, ShapeHolds, PTL DEF Spec, TearDownLasts

=============================================================================
