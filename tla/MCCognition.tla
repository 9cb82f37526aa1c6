---------------------------- MODULE MCCognition -----------------------------
(* Instances of the judgement loop for TLC. *)
EXTENDS Cognition

Task(name, timeout) ==
  [name |-> name, on_create |-> <<>>, on_start |-> <<>>, on_success |-> <<>>, on_fail |-> <<>>,
   criterion |-> {[type |-> "vlm"]}, timeout_s |-> timeout]

(* Two judged sub-tasks in a row, which the same command starts over.      *)
MCScenarios == <<[triggers |-> {"pickup"}, sub_tasks |-> <<Task("approach", 1), Task("grasp", 1)>>]>>
MCUtterances == {{"pickup"}}
MCHorizon == 1
MCDepth == 2
=============================================================================
