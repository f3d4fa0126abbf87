--------------------------- MODULE MCChildClients ---------------------------
(***************************************************************************)
(* ChildClients for TLC: machines and Secrets are interchangeable.         *)
(***************************************************************************)
EXTENDS ChildClients

Symmetry == Permutations(Machines) \cup Permutations(Secrets)

=============================================================================
