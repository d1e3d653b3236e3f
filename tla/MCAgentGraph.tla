---------------------------- MODULE MCAgentGraph ----------------------------
(***************************************************************************)
(* AgentGraph for TLC.  MCAgentGraph.cfg has the limits of the default     *)
(* configuration: every path of both analyses.  MCAgentGraphTight.cfg has  *)
(* limits that each stop some run, and a second repair.                    *)
(***************************************************************************)
EXTENDS AgentGraph, TLC

MCPurposes == ModelPurposes

MCCosts == {1, 2}

MCToolErrors == SafeErrorReasons

=============================================================================
