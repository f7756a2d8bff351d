--------------------------- MODULE MCPlannerWrite ---------------------------
(***************************************************************************)
(* Instance of PlannerWrite for TLC; the bounds are in the configuration.  *)
(***************************************************************************)
EXTENDS PlannerWrite
=============================================================================
