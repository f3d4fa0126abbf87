-------------------------- MODULE KataConfigClaims --------------------------
(***************************************************************************)
(* What the documentation and the comments say of the delivery of a kata   *)
(* drop-in, where it is not what the code does.                            *)
(***************************************************************************)
EXTENDS KataConfig

\* A restart that fails is retried by a later tick: once the agent has a restart to
\* do, it is done, if only the drop-in stays as it is.
RestartRetried ==
  \A c \in Contents :
    (agent.pc = "restart" /\ agent.want = c)
      ~> (host.loaded = c \/ host.file # c \/ source # c \/ kata # "good")

=============================================================================
