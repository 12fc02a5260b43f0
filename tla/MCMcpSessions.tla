---------------------------- MODULE MCMcpSessions ----------------------------
(* Instances of McpSessions for TLC.  A call opens two sessions at most. *)
EXTENDS McpSessions

=============================================================================
