---------------------------- MODULE MCSpeechPath ----------------------------
(* An instance of the speech path for TLC. *)
EXTENDS SpeechPath

Speak(text) == <<[label |-> "speak", payload |-> text]>>

(* A question that nobody answers in time: it is announced, fails and      *)
(* reports the failure.                                                    *)
MCScenarios ==
  << [triggers |-> {"ask"},
      sub_tasks |-> << [name |-> "question",
                        on_create |-> Speak("question"), on_start |-> <<>>,
                        on_success |-> <<>>, on_fail |-> Speak("no answer"),
                        criterion |-> {[type |-> "voice_keyword", keywords |-> {"yes"}]},
                        timeout_s |-> 1] >>] >>
MCUtterances == {{"ask"}}
MCVerdicts == {}
MCHorizon == 1
MCMaxSaid == 2
MCChunkCounts == {1}
=============================================================================
