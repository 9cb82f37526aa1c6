-------------------------------- MODULE MCGui -------------------------------
(* Instances of the bridge and its feed for TLC. *)
EXTENDS GuiFeed

(* One task, of one sub-task. *)
MCPlan == <<<<"grasp">>>>
=============================================================================
