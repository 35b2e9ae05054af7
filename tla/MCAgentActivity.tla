--------------------------- MODULE MCAgentActivity ---------------------------
(* AgentActivity for TLC.  Liveness is checked, so no symmetry.            *)
EXTENDS AgentActivity

=============================================================================
