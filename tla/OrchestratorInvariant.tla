----------------------- MODULE OrchestratorInvariant ------------------------
(***************************************************************************)
(* Proofs about Orchestrator alone, so that they serve wherever the        *)
(* orchestrator is part of something larger: the inductive invariant of    *)
(* its state, and what a failure is and fires.                             *)
(***************************************************************************)
EXTENDS Orchestrator, SequenceTheorems, TLAPS

------------------------------------------------------------------------------
(* The scenarios as data: a position in range holds a sub-task.            *)

LEMMA CountType == \A k \in DOMAIN Scenarios : Count(k) \in Nat
  BY ScenarioAssumption DEF ScenarioAssumption, Count, Scenario

LEMMA SubTaskType ==
  ASSUME NEW k \in DOMAIN Scenarios, NEW i \in Nat, i < Count(k)
  PROVE  SubTask(k, i) \in SubTaskDef
<1>0. Scenarios[k] \in Scenario
  BY ScenarioAssumption DEF ScenarioAssumption
<1>1. Scenarios[k].sub_tasks \in Seq(SubTaskDef)
  BY <1>0 DEF Scenario
<1>2. i + 1 \in 1..Len(Scenarios[k].sub_tasks)
  BY <1>1 DEF Count
<1>. QED  BY <1>1, <1>2 DEF SubTask

LEMMA NoneIsNoScenario == None \notin DOMAIN Scenarios
  BY ScenarioAssumption DEF ScenarioAssumption, None

LEMMA HorizonType == Horizon \in Nat
  BY HorizonAssumption DEF HorizonType

------------------------------------------------------------------------------
(* The inductive invariant of the node's own state.                        *)

IInv == TypeOK /\ ExecConsistent

LEMMA InitIInv == Init => IInv
<1>1. Init => TypeOK
  <2>. SUFFICES ASSUME Init PROVE TypeOK
    OBVIOUS
  <2>1. active \in {None} \cup DOMAIN Scenarios /\ index \in Nat /\ started \in BOOLEAN
    BY DEF Init
  <2>2. criterion \in SUBSET Leaf /\ transcripts \in SUBSET Utterances
    BY DEF Init, NoCriterion
  <2>3. age \in 0..Horizon
    BY HorizonType DEF Init
  <2>4. latest_verdict \in Verdicts \cup {NoVerdict}
    BY DEF Init
  <2>. QED  BY <2>1, <2>2, <2>3, <2>4 DEF TypeOK
<1>2. Init => ExecConsistent
  BY DEF Init, ExecConsistent
<1>. QED  BY <1>1, <1>2 DEF IInv

(* Entering a sub-task that exists establishes the invariant. *)
LEMMA EnterIInv ==
  ASSUME NEW k \in DOMAIN Scenarios, NEW i \in Nat, i < Count(k),
         NEW before, NEW said,
         age' \in 0..Horizon,
         EnterSubtask(k, i, before, said)
  PROVE  IInv'
<1>1. SubTask(k, i) \in SubTaskDef
  BY SubTaskType
<1>2. TypeOK'
  BY <1>1 DEF EnterSubtask, TypeOK, SubTaskDef
<1>3. active' = k /\ index' = i /\ criterion' = SubTask(k, i).criterion
  BY DEF EnterSubtask
<1>4. i \in 0..Count(k) - 1 /\ k # None
  BY CountType, NoneIsNoScenario
<1>. QED  BY <1>2, <1>3, <1>4 DEF IInv, ExecConsistent, HasCurrent, Current, SubTask, Count

LEMMA RequestIInv ==
  ASSUME IInv, NEW k \in DOMAIN Scenarios, NEW text \in Utterances,
         Request(k, text), UNCHANGED age
  PROVE  IInv'
<1>1. PICK before, said : Begin(k, text, before, said)
  BY DEF Request
<1>2. CASE Count(k) > 0 /\ EnterSubtask(k, 0, before, said)
  BY <1>2, EnterIInv DEF IInv, TypeOK
<1>3. CASE Count(k) = 0 /\ ResetExec /\ transcripts' = transcripts \cup {text}
                        /\ UNCHANGED latest_verdict
  BY <1>3 DEF ResetExec, IInv, TypeOK, ExecConsistent, NoCriterion
<1>. QED  BY <1>1, <1>2, <1>3 DEF Begin

LEMMA TranscriptIInv ==
  ASSUME IInv, NEW text \in Utterances, OnTranscript(text)
  PROVE  IInv'
<1>1. CASE Hear(text)
  BY <1>1 DEF Hear, IInv, TypeOK, ExecConsistent, HasCurrent, Current, exec
<1>2. CASE Trigger(text)
  BY <1>2, RequestIInv DEF Trigger
<1>. QED  BY <1>1, <1>2 DEF OnTranscript

LEMMA TickPassIInv ==
  ASSUME IInv, TickPass
  PROVE  IInv'
<1>0. index \in Nat /\ age' \in 0..Horizon /\ active \in DOMAIN Scenarios
  BY DEF TickPass, HasCurrent, IInv, TypeOK
<1>1. CASE index + 1 < Count(active)
           /\ EnterSubtask(active, index + 1, <<>>, Dispatch(Current.on_success))
  <2>. DEFINE i == index + 1
              said == Dispatch(Current.on_success)
  <2>1. i \in Nat /\ i < Count(active) /\ EnterSubtask(active, i, <<>>, said)
    BY <1>0, <1>1
  <2>. HIDE DEF i, said
  <2>. QED  BY <1>0, <2>1, EnterIInv
<1>2. CASE ResetExec /\ UNCHANGED inputs
  BY <1>0, <1>2 DEF ResetExec, inputs, IInv, TypeOK, ExecConsistent, NoCriterion
<1>. QED  BY <1>1, <1>2 DEF TickPass

LEMMA NextIInv == IInv /\ [Next]_vars => IInv'
<1>. SUFFICES ASSUME IInv, [Next]_vars PROVE IInv'
  OBVIOUS
<1>1. CASE \E text \in Utterances : OnTranscript(text)
  BY <1>1, TranscriptIInv
<1>2. ASSUME NEW v \in Verdicts, OnVerdict(v) PROVE IInv'
  BY <1>2 DEF OnVerdict, IInv, TypeOK, ExecConsistent, HasCurrent, Current, exec
<1>3. CASE TickStart
  BY <1>3, HorizonType
     DEF TickStart, IInv, TypeOK, ExecConsistent, HasCurrent, Current, inputs
<1>4. CASE TickPass
  BY <1>4, TickPassIInv
<1>5. CASE TickFail
  <2>1. age \in 0..Horizon /\ age' \in LaterReading
    BY <1>5 DEF TickFail, TimesOut, IInv, TypeOK
  <2>2. age' \in 0..Horizon
    BY <2>1, HorizonType DEF LaterReading
  <2>. QED
    BY <1>5, <2>2 DEF TickFail, TimesOut, ResetExec, inputs, IInv, TypeOK, ExecConsistent, NoCriterion
<1>6. CASE Elapse
  BY <1>6, HorizonType
     DEF Elapse, IInv, TypeOK, ExecConsistent, HasCurrent, Current, exec, inputs
<1>7. CASE UNCHANGED vars
  BY <1>7 DEF vars, exec, inputs, IInv, TypeOK, ExecConsistent, HasCurrent, Current
<1>. QED  BY <1>1, <1>2, <1>3, <1>4, <1>5, <1>6, <1>7 DEF Next, Tick

LEMMA Invariant == Spec => []IInv
  BY InitIInv, NextIInv, PTL DEF Spec

------------------------------------------------------------------------------
(* Who fails, and what a failure fires.                                    *)

(* A criterion that _tick holds in its hands is that of the current        *)
(* sub-task, made of leaves.                                               *)
LEMMA CriterionType ==
  ASSUME IInv, HasCurrent
  PROVE  Current.criterion = criterion /\ criterion \subseteq Leaf
  BY DEF IInv, TypeOK, ExecConsistent, HasCurrent

LEMMA CurrentType == ASSUME IInv, HasCurrent PROVE Current \in SubTaskDef
<1>1. active \in DOMAIN Scenarios /\ index \in Nat /\ index < Count(active)
  BY CountType DEF HasCurrent, IInv, TypeOK
<1>. QED  BY <1>1, SubTaskType DEF Current

(* The timeout strikes on a reading of the clock at or after the one on    *)
(* which a leaf of the current criterion did not pass.                     *)
LEMMA Overdue ==
  ASSUME IInv, TickFail
  PROVE  /\ age' >= Current.timeout_s
         /\ age \in Nat /\ age' \in age..Horizon
         /\ \E leaf \in Current.criterion : leaf \in Leaf /\ ~Passes(leaf, Current.name)
         /\ CanFail(Current)
<1>1. age \in Nat /\ age' \in age..Horizon /\ age' >= Current.timeout_s
  <2>1. age \in Nat
    BY HorizonType DEF IInv, TypeOK
  <2>2. age' \in age..Horizon /\ age' >= Current.timeout_s
    BY DEF TickFail, TimesOut, LaterReading
  <2>. QED  BY <2>1, <2>2
<1>2. PICK leaf \in criterion : ~Passes(leaf, Current.name)
  BY DEF TickFail, TimesOut, Evaluate
<1>3. leaf \in Current.criterion /\ leaf \in Leaf
  BY <1>2, CriterionType DEF TickFail, TimesOut
<1>4. leaf.type # "always"
  BY <1>2 DEF Passes
<1>5. CanFail(Current)
  BY <1>3, <1>4 DEF CanFail
<1>. QED  BY <1>1, <1>2, <1>3, <1>5

LEMMA CurrentIsSubTask == ASSUME IInv, HasCurrent PROVE Current \in SubTasks
  BY DEF HasCurrent, Current, SubTasks, IInv, TypeOK

LEMMA Pair == ASSUME NEW x, NEW y PROVE <<x>> \o <<y>> = <<x, y>>
<1>. DEFINE S == {x, y}
            s == <<x>>
            t == <<y>>
<1>1. s \in Seq(S) /\ t \in Seq(S) /\ <<x, y>> \in Seq(S)
  OBVIOUS
<1>2. Len(s) = 1 /\ Len(t) = 1 /\ s[1] = x /\ t[1] = y
  OBVIOUS
<1>3. s \o t \in Seq(S) /\ Len(s \o t) = 2 /\ (s \o t)[1] = x /\ (s \o t)[2] = y
  <2>. HIDE DEF S, s, t
  <2>. QED  BY <1>1, <1>2, ConcatProperties
<1>4. Len(<<x, y>>) = 2 /\ <<x, y>>[1] = x /\ <<x, y>>[2] = y
  OBVIOUS
<1>5. \A i \in 1..Len(s \o t) : (s \o t)[i] = <<x, y>>[i]
  BY <1>3, <1>4
<1>. QED  BY <1>1, <1>3, <1>4, <1>5, SeqEqual

LEMMA Alone == ASSUME NEW x PROVE <<>> \o <<x>> = <<x>>
<1>1. <<x>> \in Seq({x})
  OBVIOUS
<1>. QED  BY <1>1, ConcatEmptySeq

(* The status with which a scenario begins, and where it leaves the node. *)
(* Only the timeout publishes FAILED. *)
LEMMA OnlyTimeoutFails ==
  ASSUME IInv, Next, NEW i \in DOMAIN task_status', task_status'[i].state = "FAILED"
  PROVE  TickFail
<1>1. \A k, n, name :
        /\ Status("RUNNING", k, n, name).state # "FAILED"
        /\ Status("SUCCEEDED", k, n, name).state # "FAILED"
        /\ Status("PREEMPTED", k, n, name).state # "FAILED"
  BY DEF Status
<1>2. task_status' # <<>>
  OBVIOUS
<1>3. ASSUME NEW text \in Utterances, OnTranscript(text) PROVE FALSE
  <2>1. Trigger(text)
    BY <1>2, <1>3 DEF OnTranscript, Hear
  <2>2. PICK k \in DOMAIN Scenarios : Request(k, text)
    BY <2>1 DEF Trigger
  <2>. DEFINE p == Status("PREEMPTED", active, index, "")
  <2>3. PICK before, said : Begin(k, text, before, said) /\ before \in {<<>>, <<p>>}
    BY <2>2 DEF Request
  <2>4. PICK s : task_status' = before \o <<s>> /\ s.state # "FAILED"
    BY <1>1, <2>3 DEF Begin, EnterSubtask
  <2>5. p.state # "FAILED"
    BY <1>1
  <2>. HIDE DEF p
  <2>6. task_status' \in {<<s>>, <<p, s>>}
    BY <2>3, <2>4, Pair, Alone
  <2>7. ASSUME task_status' = <<s>> PROVE FALSE
    <3>1. i = 1 /\ task_status'[1] = s
      BY <2>7
    <3>. QED  BY <2>4, <3>1
  <2>8. ASSUME task_status' = <<p, s>> PROVE FALSE
    <3>1. i \in {1, 2} /\ task_status'[1] = p /\ task_status'[2] = s
      BY <2>8
    <3>. QED  BY <2>4, <2>5, <3>1
  <2>. QED  BY <2>6, <2>7, <2>8
<1>4. ASSUME TickPass PROVE FALSE
  <2>1. PICK s : (task_status' = <<>> \o <<s>> \/ task_status' = <<s>>) /\ s.state # "FAILED"
    BY <1>1, <1>4 DEF TickPass, EnterSubtask
  <2>2. task_status' = <<s>>
    BY <2>1, Alone
  <2>. QED  BY <2>1, <2>2
<1>5. ~TickStart /\ ~Elapse /\ \A v \in Verdicts : ~OnVerdict(v)
  BY <1>2 DEF TickStart, Elapse, OnVerdict
<1>. QED  BY <1>3, <1>4, <1>5 DEF Next, Tick

(* The last command of a failure is that of the last step of its on_fail.  *)
LEMMA FailureCommands ==
  ASSUME IInv, TickFail, Current.on_fail # <<>>
  PROVE  /\ Current.on_fail[Len(Current.on_fail)] \in [label : STRING, payload : STRING]
         /\ cmds' # <<>>
         /\ cmds'[Len(cmds')] = Command(Current.on_fail[Len(Current.on_fail)])
<1>. DEFINE hooks == Current.on_fail
            c == CancelAll
            d == Dispatch(hooks)
            Step == [label : STRING, payload : STRING]
            n == Len(hooks)
<1>1. hooks \in Seq(Step) /\ hooks # <<>>
  BY CurrentType DEF TickFail, TimesOut, SubTaskDef, Hook
<1>2. n \in Nat /\ n > 0 /\ n \in 1..n /\ hooks[n] \in Step
  <2>. HIDE DEF hooks, Step
  <2>. QED  BY <1>1, EmptySeq
<1>3. d = [i \in 1..n |-> Command(hooks[i])]
  BY DEF Dispatch
<1>. DEFINE S == {Command(hooks[i]) : i \in 1..n} \cup {c[i] : i \in 1..3}
<1>4. d \in Seq(S) /\ Len(d) = n /\ d[n] = Command(hooks[n])
  <2>1. d \in [1..n -> S]
    BY <1>3
  <2>. HIDE DEF d, S, n
  <2>. QED  BY <1>2, <1>3, <2>1, SeqDef
<1>5. c \in Seq(S) /\ Len(c) \in Nat
  <2>1. Len(Connectors) = 3
    BY DEF Connectors
  <2>2. DOMAIN c = 1..3 /\ c = [i \in 1..3 |-> c[i]]
    BY <2>1 DEF CancelAll
  <2>. HIDE DEF c
  <2>. QED  BY <2>2, SeqDef
<1>6. cmds' = c \o d
  BY DEF TickFail
<1>. HIDE DEF c, d, S, n
<1>7. Len(c \o d) = Len(c) + n /\ c \o d # <<>> /\ (c \o d)[Len(c) + n] = d[n]
  <2>1. /\ Len(c \o d) = Len(c) + Len(d)
        /\ \A i \in 1..Len(c) + Len(d) :
             (c \o d)[i] = IF i <= Len(c) THEN c[i] ELSE d[i - Len(c)]
    BY ONLY <1>4, <1>5, ConcatProperties
  <2>2. PICK last : last = Len(c) + n
    OBVIOUS
  <2>3. last \in 1..Len(c) + Len(d) /\ ~(last <= Len(c)) /\ last - Len(c) = n
    BY <1>2, <1>4, <1>5, <2>2
  <2>4. (c \o d)[last] = d[n]
    BY <2>1, <2>3
  <2>5. c \o d # <<>>
    BY <1>2, <1>4, <1>5, <2>1
  <2>. QED  BY <1>4, <2>1, <2>2, <2>4, <2>5
<1>8. cmds' # <<>> /\ cmds'[Len(cmds')] = Command(hooks[n])
  BY <1>4, <1>6, <1>7
<1>. QED  BY <1>2, <1>8 DEF n

(* No failure is silent, for any scenarios in which whoever can fail has   *)
(* its failure spoken last: the cancellations a failure fires do not come  *)
(* after the announcement, and it is that of the sub-task that failed.     *)
THEOREM FailuresHeard ==
  ASSUME FailuresAreSpoken
  PROVE  Spec => FailureNeverSilent
<1>. DEFINE Failed == \E i \in DOMAIN task_status' : task_status'[i].state = "FAILED"
            Spoken == /\ cmds' # <<>>
                      /\ cmds'[Len(cmds')].op = "dispatch"
                      /\ cmds'[Len(cmds')].label = "speak"
<1>1. ASSUME IInv, Next, Failed PROVE Spoken
  <2>1. TickFail
    BY <1>1, OnlyTimeoutFails
  <2>2. CanFail(Current) /\ Current \in SubTasks
    BY <1>1, <2>1, Overdue, CurrentIsSubTask DEF TickFail, TimesOut
  <2>. DEFINE step == Current.on_fail[Len(Current.on_fail)]
  <2>3. Current.on_fail # <<>> /\ step.label = "speak"
    BY <2>2 DEF FailuresAreSpoken
  <2>4. cmds' # <<>> /\ cmds'[Len(cmds')] = Command(step)
    BY <1>1, <2>1, <2>3, FailureCommands
  <2>5. Command(step).op = "dispatch" /\ Command(step).label = "speak"
    <3>1. "speak" \in Labels
      BY DEF Labels, Connectors
    <3>. HIDE DEF step
    <3>. QED  BY <2>3, <3>1 DEF Command, HasConnector
  <2>. QED  BY <2>4, <2>5
<1>2. IInv /\ [Next]_vars => [Failed => Spoken]_vars
  BY <1>1
<1>. QED  BY <1>2, Invariant, PTL DEF Spec, FailureNeverSilent
=============================================================================
