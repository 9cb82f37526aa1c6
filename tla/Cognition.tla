----------------------------- MODULE Cognition ------------------------------
(***************************************************************************)
(* orchestrator_node and vlm_node, joined by the topics active_subtask     *)
(* and verdict: the loop by which a scene judgement completes a sub-task.  *)
(*                                                                         *)
(* Each topic keeps the last Depth undelivered messages (KEEP_LAST         *)
(* history; the queue depth in the code is 10), in the order in which they *)
(* were published.                                                         *)
(***************************************************************************)
EXTENDS Integers, Sequences

CONSTANTS
  Scenarios, Utterances, NoVerdict, Horizon,   \* of the orchestrator
  Threads, Evaluations, NoSubtask,             \* of vlm_node
  Depth                                        \* of the topics

VARIABLES
  active, index, criterion, started, age,
  latest_verdict, transcripts,
  task_status, cmds, active_subtask,
  current, thread,
  subtask_topic,   \* /cortex/active_subtask: undelivered messages
  verdict_topic    \* /cortex/critic/verdict: undelivered messages

SubtaskNames == UNION {{Scenarios[k].sub_tasks[i].name : i \in DOMAIN Scenarios[k].sub_tasks} :
                         k \in DOMAIN Scenarios}
Subtasks == [id : SubtaskNames]
Verdicts == [subtask_id : SubtaskNames, passed : BOOLEAN, subject : Subtasks]

Orc == INSTANCE Orchestrator
Vlm == INSTANCE VlmNode

orc == <<active, index, criterion, started, age, latest_verdict, transcripts,
         task_status, cmds, active_subtask>>
vlm == <<current, thread>>
topics == <<subtask_topic, verdict_topic>>
vars == <<orc, vlm, topics>>

(* What the orchestrator assumes of its scenarios and inputs. *)
ASSUME OrchestratorAssumption ==
  Orc!ScenarioAssumption /\ Orc!InputAssumption /\ Orc!HorizonAssumption

ASSUME DepthAssumption == Depth \in Nat \ {0}
ASSUME EvaluationsAssumption == Evaluations \subseteq BOOLEAN

(* Mutation: an unbounded history. *)
PublishKeepingAll(topic, messages) == topic \o messages

Publish(topic, messages) ==
  LET all == topic \o messages
      lost == Len(all) - Depth
  IN  IF lost > 0 THEN SubSeq(all, lost + 1, Len(all)) ELSE all

(* A step of the orchestrator that consumes nothing. *)
OrcAlone(step) ==
  /\ step
  /\ subtask_topic' =
       Publish(subtask_topic, [i \in DOMAIN active_subtask' |-> [id |-> active_subtask'[i]]])
  /\ UNCHANGED <<vlm, verdict_topic>>

Transcript == \E text \in Utterances : OrcAlone(Orc!OnTranscript(text))
TickStart == OrcAlone(Orc!TickStart)
TickPass == OrcAlone(Orc!TickPass)
TickFail == OrcAlone(Orc!TickFail)
Elapse == OrcAlone(Orc!Elapse)

DeliverVerdict ==
  /\ verdict_topic # <<>>
  /\ Orc!OnVerdict(Head(verdict_topic))
  /\ verdict_topic' = Tail(verdict_topic)
  /\ UNCHANGED <<vlm, subtask_topic>>

DeliverSubtask(t) ==
  /\ subtask_topic # <<>>
  /\ Vlm!TakeSubtask(t, Head(subtask_topic))
  /\ subtask_topic' = Tail(subtask_topic)
  /\ UNCHANGED <<orc, verdict_topic>>

Assign(t) == Vlm!AssignSubtask(t) /\ UNCHANGED <<orc, topics>>

Read(t) == Vlm!TickRead(t) /\ UNCHANGED <<orc, topics>>

Judge(t) ==
  \E v \in Verdicts :
    /\ Vlm!TickPublish(t, v)
    /\ verdict_topic' = Publish(verdict_topic, <<v>>)
    /\ UNCHANGED <<orc, subtask_topic>>

Init ==
  /\ Orc!Init /\ Vlm!Init
  /\ subtask_topic = <<>> /\ verdict_topic = <<>>

Next ==
  \/ Transcript
  \/ TickStart \/ TickPass \/ TickFail
  \/ Elapse
  \/ DeliverVerdict
  \/ \E t \in Threads : DeliverSubtask(t) \/ Assign(t) \/ Read(t) \/ Judge(t)

Spec == Init /\ [][Next]_vars

------------------------------------------------------------------------------
(* Properties.                                                             *)

Steps == {"free", "assign", "judge"}

(* Every variable stays in its range; no topic holds more than its depth.  *)
TypeOK ==
  /\ Orc!TypeOK
  /\ current \in Subtasks \cup {NoSubtask}
  /\ thread \in [Threads -> [step : Steps, held : Subtasks \cup {NoSubtask}]]
  /\ subtask_topic \in Seq(Subtasks) /\ Len(subtask_topic) <= Depth
  /\ verdict_topic \in Seq(Verdicts) /\ Len(verdict_topic) <= Depth

Judged == \E leaf \in Orc!Current.criterion : leaf.type = "vlm"

(* A verdict completes a sub-task only if the scene was judged for a       *)
(* sub-task of that name: however deliveries, judgements and preemptions   *)
(* overlap, a judgement reached about one sub-task is never credited to    *)
(* another (vlm_node's snapshot under the lock, the id it puts on the      *)
(* verdict, the comparison and the reset in the orchestrator).             *)
PassIsForThisCheck ==
  [][TickPass /\ Judged => latest_verdict.subject.id = Orc!Current.name]_vars
=============================================================================
