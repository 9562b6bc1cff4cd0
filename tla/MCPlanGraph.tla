---------------------------- MODULE MCPlanGraph ----------------------------
(* Every plan of at most MaxNodes nodes over three ids: repeated ids, self *)
(* dependencies and dependencies on absent ids all occur.                  *)
EXTENDS PlanGraph
=============================================================================
