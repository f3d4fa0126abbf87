---------------------- MODULE ScheduledCapacityClaims ----------------------
(***************************************************************************)
(* What a comment says of ScheduledCapacity and the code does not do.      *)
(***************************************************************************)
EXTENDS ScheduledCapacity

\* scheduled_capacity.rs:198: "A transient API error resolving the provider must
\* not zero capacity: hold". A write of zero over the value the status records comes
\* from a provider that was read, from the user, or from a conflict.
UnresolvedHolds ==
  [][(/\ ctl.pc = "apply" /\ owned.value # Zero /\ ctl.from.written = owned.value
      /\ owned'.owner = "self" /\ owned'.value = Zero)
       => \/ ctl.next.active # "unset"
          \/ ~ctl.spec.enabled \/ ctl.spec.killSwitch
          \/ ctl.next.phase = "Error"]_vars

=============================================================================
