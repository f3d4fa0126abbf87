-------------------------- MODULE MachineLifecycle --------------------------
(***************************************************************************)
(* What the reconciler promises of a ScheduledMachine, with the controller *)
(* left out: the phases it may go through, and in which of them the CAPI   *)
(* Machine may come and go. The edges are the ones the phase handlers of   *)
(* reconcilers/scheduled_machine.rs write; none leads out of Error but the *)
(* kill switch, a reclaim and deletion.                                    *)
(***************************************************************************)

VARIABLES
  phase,    \* status.phase, "Gone" once the resource is deleted
  machine   \* the CAPI Machine: "absent", "present" or "deleting"

lifecycleVars == <<phase, machine>>

Initial == {"Unset", "Pending"}

\* Pending, Active, ShuttingDown, Inactive, Pending ...; Disabled on the side.
Schedule ==
  (Initial \X {"Active", "Inactive", "Disabled", "Error"})
    \cup {<<"Active", "ShuttingDown">>, <<"ShuttingDown", "Inactive">>,
          <<"ShuttingDown", "Error">>, <<"Inactive", "Pending">>,
          <<"Disabled", "Pending">>, <<"EmergencyRemove", "Disabled">>}

MayMove(from, to) ==
  \/ <<from, to>> \in Schedule
  \/ from # "Gone" /\ to \in {"Terminated", "EmergencyRemove", "Gone"}

LifecycleInit == phase = "Unset" /\ machine = "absent"

Move == MayMove(phase, phase') /\ UNCHANGED machine

\* The Machine is created while the resource is Pending.
Provision ==
  /\ phase \in Initial
  /\ machine = "absent" /\ machine' = "present"
  /\ UNCHANGED phase

\* It is given up only by a resource that has it, and says so or is deleted.
Release ==
  /\ phase \in {"Active", "ShuttingDown", "EmergencyRemove", "Gone"}
  /\ machine = "present" /\ machine' = "deleting"
  /\ UNCHANGED phase

Teardown == machine = "deleting" /\ machine' = "absent" /\ UNCHANGED phase

LifecycleNext == Move \/ Provision \/ Release \/ Teardown

LifecycleSpec == LifecycleInit /\ [][LifecycleNext]_lifecycleVars

=============================================================================
