----------------------- MODULE ScheduledMachineClaims -----------------------
(***************************************************************************)
(* What comments say of the ScheduledMachine lifecycle, stated as they say *)
(* it, where the code does not keep it.                                    *)
(***************************************************************************)
EXTENDS ScheduledMachine

\* scheduled_machine.rs, handle_active_phase: a disabled schedule too goes to
\* ShuttingDown and its grace period starts, so that no shutdown deletes the
\* CAPI objects before the whole grace period is over.
GraceBeforeRemoval == RemovingAfterShutdown => shut.age = GraceTimeout

=============================================================================
