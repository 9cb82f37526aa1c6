-------------------------- MODULE CognitionProofs ---------------------------
(***************************************************************************)
(* Proofs about the judgement loop, for any scenarios, any threads of      *)
(* vlm_node and any depth of the topics.                                   *)
(***************************************************************************)
EXTENDS Cognition, TLAPS

Inv == INSTANCE OrchestratorInvariant

(* A verdict names the sub-task it was reached about. *)
OwnVerdicts == {v \in Verdicts : v.subject.id = v.subtask_id}

OrcInv == Orc!TypeOK /\ Orc!ExecConsistent

CInv ==
  /\ TypeOK
  /\ Orc!ExecConsistent
  /\ verdict_topic \in Seq(OwnVerdicts)
  /\ latest_verdict \in OwnVerdicts \cup {NoVerdict}

------------------------------------------------------------------------------
(* The orchestrator here and the one its invariant was proved of are two   *)
(* instances of one module, so they agree definition by definition.        *)

LEMMA Assumptions ==
  Inv!ScenarioAssumption /\ Inv!InputAssumption /\ Inv!HorizonAssumption
  BY OrchestratorAssumption
     DEF Orc!ScenarioAssumption, Inv!ScenarioAssumption, Orc!Scenario, Inv!Scenario,
         Orc!SubTaskDef, Inv!SubTaskDef, Orc!Hook, Inv!Hook, Orc!Leaf, Inv!Leaf,
         Orc!InputAssumption, Inv!InputAssumption, Orc!HorizonAssumption,
         Inv!HorizonAssumption

LEMMA SameInvariant == OrcInv <=> Inv!IInv
  BY DEF OrcInv, Inv!IInv, Orc!TypeOK, Inv!TypeOK, Orc!ExecConsistent, Inv!ExecConsistent, Orc!Leaf, Inv!Leaf,
         Orc!NoCriterion, Inv!NoCriterion, Orc!HasCurrent, Inv!HasCurrent, Orc!None,
         Inv!None, Orc!Count, Inv!Count, Orc!Current, Inv!Current, Orc!SubTask,
         Inv!SubTask

LEMMA SameInit == Orc!Init <=> Inv!Init
  BY DEF Orc!Init, Inv!Init, Orc!None, Inv!None, Orc!NoCriterion, Inv!NoCriterion

LEMMA SameTranscript == \A text : Orc!OnTranscript(text) <=> Inv!OnTranscript(text)
  BY DEF Orc!OnTranscript, Inv!OnTranscript, Orc!Hear, Inv!Hear, Orc!Trigger, Inv!Trigger,
         Orc!FirstMatch, Inv!FirstMatch, Orc!Triggers, Inv!Triggers, Orc!Request,
         Inv!Request, Orc!Begin, Inv!Begin, Orc!ResetExec, Inv!ResetExec,
         Orc!NoCriterion, Inv!NoCriterion, Orc!None, Inv!None, Orc!Count, Inv!Count,
         Orc!SubTask, Inv!SubTask, Orc!CancelAll, Inv!CancelAll, Orc!exec, Inv!exec,
         Orc!Dispatch, Inv!Dispatch, Orc!Command, Inv!Command, Orc!HasConnector,
         Inv!HasConnector, Orc!Labels, Inv!Labels, Orc!Connectors, Inv!Connectors,
         Orc!EnterSubtask, Inv!EnterSubtask, Orc!Status, Inv!Status

LEMMA SameVerdict == \A v : Orc!OnVerdict(v) <=> Inv!OnVerdict(v)
  BY DEF Orc!OnVerdict, Inv!OnVerdict, Orc!exec, Inv!exec

LEMMA SameTicks ==
  /\ Orc!TickStart <=> Inv!TickStart
  /\ Orc!TickPass <=> Inv!TickPass
  /\ Orc!TickFail <=> Inv!TickFail
  /\ Orc!Elapse <=> Inv!Elapse
<1>1. Orc!TickStart <=> Inv!TickStart
  BY DEF Orc!TickStart, Inv!TickStart, Orc!HasCurrent, Inv!HasCurrent, Orc!None, Inv!None,
         Orc!Count, Inv!Count, Orc!Current, Inv!Current, Orc!SubTask, Inv!SubTask,
         Orc!Dispatch, Inv!Dispatch, Orc!Command, Inv!Command, Orc!HasConnector,
         Inv!HasConnector, Orc!Labels, Inv!Labels, Orc!Connectors, Inv!Connectors,
         Orc!inputs, Inv!inputs
<1>2. Orc!TickPass <=> Inv!TickPass
  BY DEF Orc!TickPass, Inv!TickPass, Orc!HasCurrent, Inv!HasCurrent, Orc!None, Inv!None,
         Orc!Count, Inv!Count, Orc!Current, Inv!Current, Orc!SubTask, Inv!SubTask,
         Orc!Dispatch, Inv!Dispatch, Orc!Command, Inv!Command, Orc!HasConnector,
         Inv!HasConnector, Orc!Labels, Inv!Labels, Orc!Connectors, Inv!Connectors,
         Orc!Evaluate, Inv!Evaluate, Orc!Passes, Inv!Passes, Orc!EnterSubtask,
         Inv!EnterSubtask, Orc!Status, Inv!Status, Orc!ResetExec, Inv!ResetExec,
         Orc!NoCriterion, Inv!NoCriterion, Orc!inputs, Inv!inputs
<1>3. Orc!TickFail <=> Inv!TickFail
  BY DEF Orc!TickFail, Inv!TickFail, Orc!HasCurrent, Inv!HasCurrent, Orc!None, Inv!None,
         Orc!Count, Inv!Count, Orc!Current, Inv!Current, Orc!SubTask, Inv!SubTask,
         Orc!Dispatch, Inv!Dispatch, Orc!Command, Inv!Command, Orc!HasConnector,
         Inv!HasConnector, Orc!Labels, Inv!Labels, Orc!Connectors, Inv!Connectors,
         Orc!Evaluate, Inv!Evaluate, Orc!Passes, Inv!Passes, Orc!TimesOut, Inv!TimesOut,
         Orc!LaterReading, Inv!LaterReading, Orc!Status, Inv!Status, Orc!CancelAll,
         Inv!CancelAll, Orc!ResetExec, Inv!ResetExec, Orc!NoCriterion, Inv!NoCriterion,
         Orc!inputs, Inv!inputs
<1>4. Orc!Elapse <=> Inv!Elapse
  BY DEF Orc!Elapse, Inv!Elapse, Orc!exec, Inv!exec, Orc!inputs, Inv!inputs
<1>. QED  BY <1>1, <1>2, <1>3, <1>4

(* What a step of the orchestrator may be here. *)
OrcStep ==
  \/ \E text \in Utterances : Orc!OnTranscript(text)
  \/ Orc!TickStart \/ Orc!TickPass \/ Orc!TickFail
  \/ Orc!Elapse

LEMMA OrchestratorStep ==
  ASSUME OrcInv, OrcStep \/ \E v \in Verdicts : Orc!OnVerdict(v)
  PROVE  OrcInv'
<1>1. Inv!Next
  BY SameTranscript, SameVerdict, SameTicks DEF OrcStep, Inv!Next, Inv!Tick
<1>2. Inv!IInv'
  BY <1>1, SameInvariant, Assumptions, Inv!NextIInv
<1>. QED  BY <1>2, SameInvariant, PTL

(* It sends vlm_node names of sub-tasks, and holds no verdict it was not   *)
(* sent.                                                                   *)
LEMMA OrchestratorSends ==
  ASSUME OrcInv, OrcStep
  PROVE  /\ active_subtask' \in Seq(SubtaskNames)
         /\ latest_verdict' \in {latest_verdict, NoVerdict}
<1>1. ASSUME NEW k \in DOMAIN Scenarios, NEW i \in Nat, i < Orc!Count(k),
             NEW before, NEW said, Orc!EnterSubtask(k, i, before, said)
      PROVE  active_subtask' \in Seq(SubtaskNames) /\ latest_verdict' = NoVerdict
  <2>1. Orc!SubTask(k, i).name \in SubtaskNames
    <3>1. Scenarios[k] \in Inv!Scenario
      BY Assumptions DEF Inv!ScenarioAssumption
    <3>2. i + 1 \in DOMAIN Scenarios[k].sub_tasks
      BY <1>1, <3>1 DEF Inv!Scenario, Orc!Count
    <3>. QED  BY <3>2 DEF SubtaskNames, Orc!SubTask
  <2>2. active_subtask' = <<Orc!SubTask(k, i).name>> /\ latest_verdict' = NoVerdict
    BY <1>1 DEF Orc!EnterSubtask
  <2>. QED  BY <2>1, <2>2
<1>2. ASSUME NEW text \in Utterances, Orc!OnTranscript(text)
      PROVE  active_subtask' \in Seq(SubtaskNames) /\ latest_verdict' \in {latest_verdict, NoVerdict}
  <2>1. CASE Orc!Hear(text)
    BY <2>1 DEF Orc!Hear
  <2>2. CASE Orc!Trigger(text)
    <3>1. PICK k \in DOMAIN Scenarios : Orc!Request(k, text)
      BY <2>2 DEF Orc!Trigger
    <3>2. PICK before, said : Orc!Begin(k, text, before, said)
      BY <3>1 DEF Orc!Request
    <3>3. CASE Orc!Count(k) > 0 /\ Orc!EnterSubtask(k, 0, before, said)
      BY <3>3, <1>1
    <3>4. CASE active_subtask' = <<>> /\ UNCHANGED latest_verdict
      BY <3>4
    <3>. QED  BY <3>2, <3>3, <3>4 DEF Orc!Begin
  <2>. QED  BY <1>2, <2>1, <2>2 DEF Orc!OnTranscript
<1>3. CASE Orc!TickPass
  <2>1. active \in DOMAIN Scenarios /\ index \in Nat
    BY <1>3 DEF Orc!TickPass, Orc!HasCurrent, OrcInv, Orc!TypeOK
  <2>2. CASE index + 1 < Orc!Count(active)
             /\ Orc!EnterSubtask(active, index + 1, <<>>, Orc!Dispatch(Orc!Current.on_success))
    <3>. DEFINE i == index + 1
                said == Orc!Dispatch(Orc!Current.on_success)
    <3>1. i \in Nat /\ i < Orc!Count(active) /\ Orc!EnterSubtask(active, i, <<>>, said)
      BY <2>1, <2>2
    <3>. HIDE DEF i, said
    <3>. QED  BY <2>1, <3>1, <1>1
  <2>3. CASE active_subtask' = <<>> /\ UNCHANGED Orc!inputs
    BY <2>3 DEF Orc!inputs
  <2>. QED  BY <1>3, <2>2, <2>3 DEF Orc!TickPass
<1>4. CASE Orc!TickStart \/ Orc!TickFail \/ Orc!Elapse
  <2>1. active_subtask' = <<>> /\ UNCHANGED latest_verdict
    BY <1>4 DEF Orc!TickStart, Orc!TickFail, Orc!TimesOut, Orc!Elapse, Orc!inputs
  <2>. QED  BY <2>1
<1>. QED  BY <1>2, <1>3, <1>4 DEF OrcStep

------------------------------------------------------------------------------
(* The topics.                                                             *)

LEMMA DepthType == Depth \in Nat /\ Depth > 0
  BY DepthAssumption

(* A topic keeps what was put on it, and no more than its depth. *)
LEMMA PublishType ==
  ASSUME NEW S, NEW topic \in Seq(S), NEW messages \in Seq(S)
  PROVE  Publish(topic, messages) \in Seq(S) /\ Len(Publish(topic, messages)) <= Depth
<1>. DEFINE all == topic \o messages
            lost == Len(all) - Depth
<1>1. all \in Seq(S) /\ Len(all) \in Nat
  OBVIOUS
<1>2. Publish(topic, messages) = IF lost > 0 THEN SubSeq(all, lost + 1, Len(all)) ELSE all
  BY DEF Publish
<1>. HIDE DEF all
<1>3. CASE lost > 0
  <2>1. SubSeq(all, lost + 1, Len(all)) \in Seq(S)
    BY <1>1, <1>3, DepthType
  <2>2. Len(SubSeq(all, lost + 1, Len(all))) = Depth
    BY <1>1, <1>3, DepthType
  <2>. QED  BY <1>2, <1>3, <2>1, <2>2, DepthType
<1>4. CASE ~(lost > 0)
  BY <1>1, <1>2, <1>4, DepthType
<1>. QED  BY <1>3, <1>4

LEMMA OwnVerdictsAreVerdicts == OwnVerdicts \subseteq Verdicts
  BY DEF OwnVerdicts

(* What a thread of vlm_node may be at. *)
Activities == [step : Steps, held : Subtasks \cup {NoSubtask}]

LEMMA ActivityType ==
  /\ Vlm!Free \in Activities
  /\ \A step \in {"assign", "judge"}, msg \in Subtasks \cup {NoSubtask} :
       [step |-> step, held |-> msg] \in Activities
  /\ \A a \in Activities : a.held \in Subtasks \cup {NoSubtask}
  BY DEF Vlm!Free, Activities, Steps

(* The half of the invariant that vlm_node and the topics hold. *)
LoopInv ==
  /\ current \in Subtasks \cup {NoSubtask}
  /\ thread \in [Threads -> Activities]
  /\ subtask_topic \in Seq(Subtasks) /\ Len(subtask_topic) <= Depth
  /\ verdict_topic \in Seq(OwnVerdicts) /\ Len(verdict_topic) <= Depth
  /\ latest_verdict \in OwnVerdicts \cup {NoVerdict}

LEMMA Halves == OrcInv /\ LoopInv <=> CInv
<1>1. verdict_topic \in Seq(OwnVerdicts) => verdict_topic \in Seq(Verdicts)
  BY OwnVerdictsAreVerdicts
<1>. QED  BY <1>1 DEF CInv, OrcInv, LoopInv, TypeOK, Activities

LEMMA AloneStep ==
  ASSUME CInv, NEW ACTION step, OrcAlone(step), step => OrcStep
  PROVE  CInv'
<1>. DEFINE new == [i \in DOMAIN active_subtask' |-> [id |-> active_subtask'[i]]]
<1>1. OrcStep /\ OrcInv /\ LoopInv
  BY Halves DEF OrcAlone
<1>2. OrcInv'
  BY <1>1, OrchestratorStep
<1>3. active_subtask' \in Seq(SubtaskNames) /\ latest_verdict' \in {latest_verdict, NoVerdict}
  BY <1>1, OrchestratorSends
<1>4. new \in Seq(Subtasks)
  <2>1. \A i \in DOMAIN active_subtask' : [id |-> active_subtask'[i]] \in Subtasks
    BY <1>3 DEF Subtasks
  <2>2. DOMAIN active_subtask' = 1..Len(active_subtask') /\ Len(active_subtask') \in Nat
    BY <1>3
  <2>. QED  BY <2>1, <2>2
<1>5. subtask_topic' \in Seq(Subtasks) /\ Len(subtask_topic') <= Depth
  <2>1. subtask_topic \in Seq(Subtasks) /\ subtask_topic' = Publish(subtask_topic, new)
    BY <1>1 DEF LoopInv, OrcAlone
  <2>. HIDE DEF new
  <2>. QED  BY <1>4, <2>1, PublishType
<1>6. LoopInv'
  BY <1>1, <1>3, <1>5 DEF LoopInv, OrcAlone, vlm
<1>. QED  BY <1>2, <1>6, Halves, PTL

LEMMA OrchestratorRests ==
  ASSUME OrcInv, UNCHANGED orc
  PROVE  OrcInv'
  BY DEF OrcInv, orc, Orc!TypeOK, Orc!ExecConsistent, Orc!HasCurrent, Orc!Current

LEMMA DeliverVerdictStep ==
  ASSUME CInv, DeliverVerdict
  PROVE  CInv'
<1>1. OrcInv /\ LoopInv
  BY Halves
<1>2. Head(verdict_topic) \in OwnVerdicts /\ Tail(verdict_topic) \in Seq(OwnVerdicts)
      /\ Len(Tail(verdict_topic)) <= Depth
  BY <1>1, DepthType DEF LoopInv, DeliverVerdict
<1>3. OrcInv'
  BY <1>1, <1>2, OwnVerdictsAreVerdicts, OrchestratorStep DEF DeliverVerdict
<1>4. LoopInv'
  BY <1>1, <1>2 DEF LoopInv, DeliverVerdict, Orc!OnVerdict, vlm
<1>. QED  BY <1>3, <1>4, Halves, PTL

LEMMA ThreadStep ==
  ASSUME CInv, NEW t \in Threads, DeliverSubtask(t) \/ Assign(t) \/ Read(t) \/ Judge(t)
  PROVE  CInv'
<1>1. OrcInv /\ LoopInv
  BY Halves
<1>2. OrcInv'
  BY <1>1, OrchestratorRests DEF DeliverSubtask, Assign, Read, Judge
<1>3. UNCHANGED latest_verdict
  BY DEF DeliverSubtask, Assign, Read, Judge, orc
<1>4. ASSUME DeliverSubtask(t) PROVE LoopInv'
  <2>1. Head(subtask_topic) \in Subtasks /\ Tail(subtask_topic) \in Seq(Subtasks)
        /\ Len(Tail(subtask_topic)) <= Depth
    BY <1>1, <1>4, DepthType DEF LoopInv, DeliverSubtask
  <2>2. thread' \in [Threads -> Activities]
    BY <1>1, <1>4, <2>1, ActivityType DEF LoopInv, DeliverSubtask, Vlm!TakeSubtask
  <2>. QED  BY <1>1, <1>3, <1>4, <2>1, <2>2 DEF LoopInv, DeliverSubtask, Vlm!TakeSubtask
<1>5. ASSUME Assign(t) PROVE LoopInv'
  <2>1. thread' \in [Threads -> Activities] /\ current' \in Subtasks \cup {NoSubtask}
    BY <1>1, <1>5, ActivityType DEF LoopInv, Assign, Vlm!AssignSubtask
  <2>. QED  BY <1>1, <1>3, <1>5, <2>1 DEF LoopInv, Assign, topics
<1>6. ASSUME Read(t) PROVE LoopInv'
  <2>1. thread' \in [Threads -> Activities]
    BY <1>1, <1>6, ActivityType DEF LoopInv, Read, Vlm!TickRead
  <2>. QED  BY <1>1, <1>3, <1>6, <2>1 DEF LoopInv, Read, Vlm!TickRead, topics
<1>7. ASSUME Judge(t) PROVE LoopInv'
  <2>1. PICK v \in Verdicts :
          Vlm!TickPublish(t, v) /\ verdict_topic' = Publish(verdict_topic, <<v>>)
    BY <1>7 DEF Judge
  <2>2. v \in OwnVerdicts
    BY <2>1 DEF Vlm!TickPublish, Vlm!Verdict, OwnVerdicts
  <2>3. verdict_topic' \in Seq(OwnVerdicts) /\ Len(verdict_topic') <= Depth
    <3>1. verdict_topic \in Seq(OwnVerdicts) /\ <<v>> \in Seq(OwnVerdicts)
      BY <1>1, <2>2 DEF LoopInv
    <3>. QED  BY <2>1, <3>1, PublishType
  <2>4. thread' \in [Threads -> Activities]
    BY <1>1, <2>1, ActivityType DEF LoopInv, Vlm!TickPublish
  <2>5. UNCHANGED current
    BY <2>1 DEF Vlm!TickPublish
  <2>. QED  BY <1>1, <1>3, <1>7, <2>3, <2>4, <2>5 DEF LoopInv, Judge, orc
<1>8. LoopInv'
  BY <1>4, <1>5, <1>6, <1>7
<1>. QED  BY <1>2, <1>8, Halves, PTL

------------------------------------------------------------------------------
LEMMA Initially == Init => CInv
<1>. SUFFICES ASSUME Init PROVE CInv
  OBVIOUS
<1>1. OrcInv
  BY SameInit, SameInvariant, Assumptions, Inv!InitIInv DEF Init
<1>2. latest_verdict = NoVerdict
  BY DEF Init, Orc!Init
<1>3. LoopInv
  BY <1>2, DepthType, ActivityType DEF Init, Vlm!Init, LoopInv
<1>. QED  BY <1>1, <1>3, Halves

LEMMA EveryStep == CInv /\ [Next]_vars => CInv'
<1>. SUFFICES ASSUME CInv, [Next]_vars PROVE CInv'
  OBVIOUS
<1>1. ASSUME NEW text \in Utterances, OrcAlone(Orc!OnTranscript(text)) PROVE CInv'
  BY <1>1, AloneStep DEF OrcStep
<1>2. CASE TickStart
  BY <1>2, AloneStep DEF TickStart, OrcStep
<1>3. CASE TickPass
  BY <1>3, AloneStep DEF TickPass, OrcStep
<1>4. CASE TickFail
  BY <1>4, AloneStep DEF TickFail, OrcStep
<1>5. CASE Elapse
  BY <1>5, AloneStep DEF Elapse, OrcStep
<1>6. CASE DeliverVerdict
  BY <1>6, DeliverVerdictStep
<1>7. CASE \E t \in Threads : DeliverSubtask(t) \/ Assign(t) \/ Read(t) \/ Judge(t)
  BY <1>7, ThreadStep
<1>8. CASE UNCHANGED vars
  <2>1. OrcInv' /\ LoopInv'
    BY <1>8, Halves, OrchestratorRests DEF vars, vlm, topics, orc, LoopInv
  <2>. QED  BY <2>1, Halves, PTL
<1>. QED  BY <1>1, <1>2, <1>3, <1>4, <1>5, <1>6, <1>7, <1>8 DEF Next, Transcript

LEMMA Invariance == Spec => []CInv
  BY Initially, EveryStep, PTL DEF Spec

(* Orchestrator, critic and topics stay in their ranges; a topic never     *)
(* holds more than its depth, for any depth.                               *)
THEOREM LoopTypeCorrect == Spec => []TypeOK
<1>1. CInv => TypeOK
  BY DEF CInv
<1>. QED  BY <1>1, Invariance, PTL

(* A sub-task of any scenario completes by a scene judgement only if the   *)
(* scene was judged for a sub-task of its name, however many threads       *)
(* vlm_node has and however deep the topics are.                           *)
THEOREM PassOnOwnJudgement == Spec => PassIsForThisCheck
<1>1. ASSUME CInv, TickPass, Judged
      PROVE  latest_verdict.subject.id = Orc!Current.name
  <2>1. Orc!HasCurrent /\ Orc!Evaluate(Orc!Current.name)
    BY <1>1 DEF TickPass, OrcAlone, Orc!TickPass
  <2>2. criterion = Orc!Current.criterion
    BY <1>1, <2>1 DEF CInv, Orc!ExecConsistent, Orc!HasCurrent
  <2>3. PICK leaf \in criterion : leaf.type = "vlm"
    BY <1>1, <2>2 DEF Judged
  <2>4. latest_verdict # NoVerdict /\ latest_verdict.subtask_id = Orc!Current.name
    BY <2>1, <2>3 DEF Orc!Evaluate, Orc!Passes
  <2>. QED  BY <1>1, <2>4 DEF CInv, OwnVerdicts
<1>2. CInv /\ [Next]_vars => [TickPass /\ Judged => latest_verdict.subject.id = Orc!Current.name]_vars
  BY <1>1
<1>. QED  BY <1>2, Invariance, PTL DEF Spec, PassIsForThisCheck

------------------------------------------------------------------------------
(* The orchestrator in the loop is Orchestrator: delivery of verdicts from *)
(* a bounded topic, and whatever vlm_node does, show it nothing that       *)
(* Orchestrator does not allow. So what is proved of Orchestrator, for any *)
(* verdicts at any time, holds in the loop.                                *)
THEOREM LoopRunsOrchestrator == Spec => Orc!Spec
<1>1. Init => Orc!Init
  BY DEF Init
<1>2. ASSUME CInv, [Next]_vars PROVE [Orc!Next]_(Orc!vars)
  <2>1. OrcStep => Orc!Next
    BY DEF OrcStep, Orc!Next, Orc!Tick
  <2>2. CASE Transcript \/ TickStart \/ TickPass \/ TickFail \/ Elapse
    BY <2>1, <2>2 DEF Transcript, TickStart, TickPass, TickFail, Elapse, OrcAlone, OrcStep
  <2>3. CASE DeliverVerdict
    <3>1. Head(verdict_topic) \in Verdicts
      BY <1>2, <2>3 DEF CInv, TypeOK, DeliverVerdict
    <3>. QED  BY <2>3, <3>1 DEF DeliverVerdict, Orc!Next
  <2>4. ASSUME UNCHANGED orc PROVE UNCHANGED Orc!vars
    BY <2>4 DEF orc, Orc!vars, Orc!exec, Orc!inputs, Orc!published
  <2>5. CASE \E t \in Threads : DeliverSubtask(t) \/ Assign(t) \/ Read(t) \/ Judge(t)
    BY <2>4, <2>5 DEF DeliverSubtask, Assign, Read, Judge
  <2>6. CASE UNCHANGED vars
    BY <2>4, <2>6 DEF vars
  <2>. QED  BY <1>2, <2>2, <2>3, <2>5, <2>6 DEF Next
<1>. QED  BY <1>1, <1>2, Invariance, PTL DEF Spec, Orc!Spec
=============================================================================
