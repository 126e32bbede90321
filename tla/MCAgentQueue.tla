---------------------------- MODULE MCAgentQueue ----------------------------
(***************************************************************************)
(* One task, two replicas and the sweep.                                   *)
(***************************************************************************)
EXTENDS AgentQueue, TLC

=============================================================================
