--------------------------- MODULE MCReclaimAgent ---------------------------
(***************************************************************************)
(* ReclaimAgent for TLC: a process that runs under a command's name, and   *)
(* one that only has a command in its command line.                        *)
(***************************************************************************)
EXTENDS ReclaimAgent

HostProcesses == {[comm |-> "java", argv |-> {"java"}], [comm |-> "other", argv |-> {"idea"}]}

=============================================================================
