--------------------------- MODULE MCOrchestrator ---------------------------
(* Instances of the orchestrator for TLC. *)
EXTENDS OrchestratorHistory

Speak(text) == <<[label |-> "speak", payload |-> text]>>
Move(goal) == <<[label |-> "navigation", payload |-> goal]>>

Delay(n) == [type |-> "delay", seconds |-> n]
Vlm == [type |-> "vlm"]
Always == [type |-> "always"]
Voice(words) == [type |-> "voice_keyword", keywords |-> words]

Task(name, moves, leaves, timeout) ==
  [name |-> name, on_create |-> Speak(name), on_start |-> moves,
   on_success |-> <<>>, on_fail |-> Speak("failed"),
   criterion |-> leaves, timeout_s |-> timeout]

(* Two judged sub-tasks, of which the second announces its success.        *)
Pickup ==
  [triggers |-> {"pickup"},
   sub_tasks |-> << Task("approach", Move("fridge"), {Vlm}, 2),
                    [Task("grasp", <<[label |-> "vla", payload |-> "grasp"]>>, {Vlm}, 1)
                       EXCEPT !.on_success = Speak("done")] >>]

(* A delay one unit short of its timeout, which a late second reading of   *)
(* the clock may still fail, and then an answer that is awaited, by a      *)
(* criterion that is a composite.                                          *)
Visit ==
  [triggers |-> {"visit"},
   sub_tasks |-> << Task("go", Move("table"), {Delay(1)}, 2),
                    Task("ask", <<>>, {Delay(1), Voice({"yes"})}, 2) >>]

(* A greeting: nothing to judge. A hook with a label without connector.    *)
Greet ==
  [triggers |-> {"hello"},
   sub_tasks |-> << [Task("greet", <<[label |-> "wave", payload |-> ""]>>, {Always}, 0)
                       EXCEPT !.on_fail = <<>>] >>]

(* A pure stop. *)
Halt == [triggers |-> {"stop"}, sub_tasks |-> <<>>]

MCScenarios == <<Pickup, Visit, Greet, Halt>>

(* A command each, an answer, an utterance that is an answer and a command *)
(* at once, and one that holds two triggers (the first scenario wins).     *)
MCUtterances == {{"pickup"}, {"visit", "stop"}, {"hello"}, {"stop"}, {"yes"}, {"yes", "visit"}}

MCVerdicts == [subtask_id : {"approach", "grasp"}, passed : BOOLEAN]
MCHorizon == 2
=============================================================================
