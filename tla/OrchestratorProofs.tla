------------------------- MODULE OrchestratorProofs -------------------------
(***************************************************************************)
(* Proofs about the orchestrator, for every set of scenarios, utterances   *)
(* and verdicts.                                                           *)
(***************************************************************************)
EXTENDS OrchestratorHistory, OrchestratorInvariant, SequenceTheorems, TLAPS

------------------------------------------------------------------------------
------------------------------------------------------------------------------
(* The history only watches: its steps are steps of the orchestrator.      *)

LEMMA HInitInit == HInit => Init
  BY DEF HInit

LEMMA HNextNext == [HNext]_hvars => [Next]_vars
<1>. SUFFICES ASSUME [HNext]_hvars PROVE [Next]_vars
  OBVIOUS
<1>1. CASE UNCHANGED hvars
  BY <1>1 DEF hvars
<1>2. CASE HNext
  BY <1>2 DEF HNext, HOnTranscript, HOnVerdict, HTickStart, HTickPass, HTickFail, HElapse, Next, Tick
<1>. QED  BY <1>1, <1>2

LEMMA Invariance == HSpec => []IInv
<1>1. HInit => IInv
  BY HInitInit, InitIInv
<1>2. IInv /\ [HNext]_hvars => IInv'
  BY HNextNext, NextIInv
<1>. QED  BY <1>1, <1>2, PTL DEF HSpec

(* Type correctness of the node's state, in every behaviour. *)
THEOREM TypeCorrect == HSpec => []TypeOK
<1>1. IInv => TypeOK
  BY DEF IInv
<1>. QED  BY <1>1, Invariance, PTL

(* Between two callbacks of orchestrator_node there is never an active     *)
(* scenario without a current sub-task (one no tick could end), nor a      *)
(* criterion left from another sub-task.                                   *)
THEOREM Consistency == HSpec => []ExecConsistent
<1>1. IInv => ExecConsistent
  BY DEF IInv
<1>. QED  BY <1>1, Invariance, PTL

------------------------------------------------------------------------------
(* Evidence: the inductive invariant behind PassJustified, FailJustified.  *)

LEMMA InitEvidence == HInit => Evidence
  BY DEF HInit, Init, Evidence

(* Whatever enters a sub-task wipes the inputs and the history alike. *)
LEMMA EnterEvidence ==
  ASSUME NEW k, NEW i, NEW before, NEW said, NEW texts, NEW verdicts,
         EnterSubtask(k, i, before, said), Observe(texts, verdicts)
  PROVE  Evidence'
<1>1. active_subtask' # <<>>
  BY DEF EnterSubtask
<1>2. latest_verdict' = NoVerdict /\ transcripts' = {} /\ started' = FALSE
  BY DEF EnterSubtask
<1>3. heard' = {} /\ judged' = {}
  BY <1>1 DEF Observe, Entered
<1>. QED  BY <1>2, <1>3 DEF Evidence

LEMMA NextEvidence == IInv /\ Evidence /\ [HNext]_hvars => Evidence'
<1>. SUFFICES ASSUME IInv, Evidence, [HNext]_hvars PROVE Evidence'
  OBVIOUS
<1>1. ASSUME NEW text \in Utterances, HOnTranscript(text) PROVE Evidence'
  <2>1. CASE Hear(text)
    <3>1. heard' = heard \cup {text} /\ judged' = judged /\ since' = since
      BY <1>1, <2>1 DEF HOnTranscript, Observe, Entered, Hear
    <3>. QED  BY <2>1, <3>1 DEF Hear, Evidence, exec
  <2>2. CASE Trigger(text)
    <3>1. PICK k, before, said : Begin(k, text, before, said)
      BY <2>2 DEF Trigger, Request
    <3>2. CASE EnterSubtask(k, 0, before, said)
      BY <1>1, <3>2, EnterEvidence DEF HOnTranscript
    <3>3. CASE ResetExec
      BY <3>3 DEF ResetExec, Evidence
    <3>. QED  BY <3>1, <3>2, <3>3 DEF Begin
  <2>. QED  BY <1>1, <2>1, <2>2 DEF HOnTranscript, OnTranscript
<1>2. ASSUME NEW v \in Verdicts, HOnVerdict(v) PROVE Evidence'
  <2>1. heard' = heard /\ judged' = judged \cup {v} /\ since' = since
    BY <1>2 DEF HOnVerdict, Observe, Entered, OnVerdict
  <2>2. v # NoVerdict
    BY <1>2, InputAssumption DEF InputAssumption
  <2>. QED  BY <1>2, <2>1, <2>2 DEF HOnVerdict, OnVerdict, Evidence, exec
<1>3. CASE HTickStart
  <2>1. heard' = heard /\ judged' = judged
    BY <1>3 DEF HTickStart, Observe, Entered, TickStart
  <2>. QED  BY <1>3, <2>1 DEF HTickStart, TickStart, Evidence, inputs
<1>4. CASE HTickPass
  <2>1. CASE EnterSubtask(active, index + 1, <<>>, Dispatch(Current.on_success))
    BY <1>4, <2>1, EnterEvidence DEF HTickPass
  <2>2. CASE ResetExec
    BY <2>2 DEF ResetExec, Evidence
  <2>. QED  BY <1>4, <2>1, <2>2 DEF HTickPass, TickPass
<1>5. CASE HTickFail
  BY <1>5 DEF HTickFail, TickFail, ResetExec, Evidence
<1>6. CASE HElapse
  <2>1. heard' = heard /\ judged' = judged
    BY <1>6 DEF HElapse, Observe, Entered, Elapse
  <2>2. age \in Nat /\ age' = age + 1 /\ age < Horizon
    BY <1>6, HorizonType DEF HElapse, Elapse, IInv, TypeOK
  <2>3. since = age => since' = age'
    BY <1>6, <2>2, HorizonType DEF HElapse, Advanced
  <2>. QED  BY <1>6, <2>1, <2>3 DEF HElapse, Elapse, Evidence, exec, inputs
<1>7. CASE UNCHANGED hvars
  BY <1>7 DEF hvars, vars, exec, inputs, history, Evidence
<1>. QED  BY <1>1, <1>2, <1>3, <1>4, <1>5, <1>6, <1>7 DEF HNext

LEMMA EvidenceInvariance == HSpec => []Evidence
<1>1. HInit => Evidence
  BY InitEvidence
<1>2. IInv /\ Evidence /\ [HNext]_hvars => Evidence'
  BY NextEvidence
<1>. QED  BY <1>1, <1>2, Invariance, PTL DEF HSpec

LEMMA PassStep == IInv /\ Evidence /\ TickPass => \A leaf \in Current.criterion : Justified(leaf)
<1>. SUFFICES ASSUME IInv, Evidence, TickPass,
                     NEW leaf \in Current.criterion
              PROVE  Justified(leaf)
  OBVIOUS
<1>1. leaf \in Leaf /\ Passes(leaf, Current.name)
  BY CriterionType DEF TickPass, Evaluate
<1>2. /\ latest_verdict \in judged \cup {NoVerdict}
      /\ transcripts = heard
      /\ since = age
  BY DEF Evidence, TickPass, HasCurrent
<1>3. leaf.type \in {"always", "delay", "vlm", "voice_keyword"}
  BY <1>1 DEF Leaf
<1>. QED  BY <1>1, <1>2, <1>3 DEF Justified, Passes

(* A sub-task completes only on evidence of its own, for every set of      *)
(* scenarios and every interleaving of transcripts, verdicts and ticks.    *)
THEOREM PassOnOwnEvidence == HSpec => PassJustified
<1>1. IInv /\ Evidence /\ [HNext]_hvars
        => [TickPass => \A leaf \in Current.criterion : Justified(leaf)]_hvars
  BY PassStep
<1>. QED  BY <1>1, Invariance, EvidenceInvariance, PTL DEF HSpec, PassJustified

LEMMA FailStep ==
  IInv /\ Evidence /\ HTickFail =>
    /\ since' >= Current.timeout_s
    /\ \E leaf \in Current.criterion : Wanting(leaf)
<1>. SUFFICES ASSUME IInv, Evidence, HTickFail
              PROVE  /\ since' >= Current.timeout_s
                     /\ \E leaf \in Current.criterion : Wanting(leaf)
  OBVIOUS
<1>1. age' >= Current.timeout_s /\ age \in Nat /\ age' \in age..Horizon
  BY Overdue DEF HTickFail
<1>2. PICK leaf \in Current.criterion : leaf \in Leaf /\ ~Passes(leaf, Current.name)
  BY Overdue DEF HTickFail
<1>3. /\ since = age
      /\ latest_verdict \in judged \cup {NoVerdict}
      /\ latest_verdict = NoVerdict => judged = {}
      /\ transcripts = heard
  BY DEF HTickFail, TickFail, TimesOut, HasCurrent, Evidence
<1>4. since' = age'
  <2>0. \A a \in Nat : \A b \in a..Horizon : b \in Nat /\ b <= Horizon /\ a + (b - a) = b
    BY HorizonType
  <2>1. age \in Nat /\ age' \in age..Horizon
    BY <1>1
  <2>2. age' \in Nat /\ age' <= Horizon /\ age + (age' - age) = age'
    BY ONLY <2>0, <2>1
  <2>3. since + (age' - age) = age'
    BY <1>3, <2>2
  <2>4. since' = IF age' < Horizon THEN age' ELSE Horizon
    BY <2>3 DEF HTickFail, Advanced
  <2>. QED  BY <2>2, <2>4, HorizonType
<1>5. Wanting(leaf)
  <2>1. leaf.type \in {"delay", "vlm", "voice_keyword"}
    BY <1>2 DEF Leaf, Passes
  <2>2. CASE leaf.type = "delay"
    <3>1. leaf.seconds \in Nat
      BY <1>2, <2>2 DEF Leaf
    <3>2. ~(age >= leaf.seconds)
      BY <1>2, <2>2 DEF Passes
    <3>. QED  BY <1>1, <1>3, <2>2, <3>1, <3>2 DEF Wanting
  <2>3. CASE leaf.type = "vlm"
    BY <1>2, <1>3, <2>3 DEF Wanting, Passes
  <2>4. CASE leaf.type = "voice_keyword"
    BY <1>2, <1>3, <2>4 DEF Wanting, Passes
  <2>. QED  BY <2>1, <2>2, <2>3, <2>4
<1>. QED  BY <1>1, <1>4, <1>5

(* A failure is never premature, and never strikes for want of nothing:    *)
(* what arrived in time is not overlooked, for every set of scenarios and  *)
(* every interleaving, whatever time passes between the two readings.      *)
THEOREM FailureNeverPremature == HSpec => FailJustified
<1>. DEFINE A == TickFail => /\ since' >= Current.timeout_s
                             /\ \E leaf \in Current.criterion : Wanting(leaf)
<1>1. IInv /\ [HNext]_hvars /\ TickFail /\ ~UNCHANGED hvars => HTickFail
  <2>1. SUFFICES ASSUME IInv, HNext, TickFail PROVE HTickFail
    OBVIOUS
  <2>2. task_status' # <<>> /\ active' = None /\ active # None
    BY <2>1 DEF TickFail, TimesOut, ResetExec, HasCurrent
  <2>3. ~ \E v \in Verdicts : HOnVerdict(v)
    BY <2>2 DEF HOnVerdict, OnVerdict
  <2>4. ~HTickStart /\ ~HElapse
    BY <2>2 DEF HTickStart, TickStart, HElapse, Elapse
  <2>5. ~HTickPass
    BY <2>1 DEF HTickPass, TickPass, TickFail, TimesOut
  <2>6. ASSUME NEW text \in Utterances, HOnTranscript(text) PROVE FALSE
    <3>1. Trigger(text)
      BY <2>2, <2>6 DEF HOnTranscript, OnTranscript, Hear
    <3>2. PICK k \in DOMAIN Scenarios :
            Begin(k, text, <<Status("PREEMPTED", active, index, "")>>, CancelAll)
      BY <2>2, <3>1 DEF Trigger, Request
    <3>3. Count(k) = 0 /\ task_status' =
            <<Status("PREEMPTED", active, index, "")>> \o <<Status("SUCCEEDED", k, 0, "")>>
      BY <2>2, <3>2, NoneIsNoScenario DEF Begin, EnterSubtask
    <3>4. task_status'[1].state = "PREEMPTED"
      <4>. DEFINE p == Status("PREEMPTED", active, index, "")
                  q == Status("SUCCEEDED", k, 0, "")
      <4>1. task_status' = <<p>> \o <<q>>
        BY <3>3
      <4>2. task_status' = <<p, q>>
        <5>. HIDE DEF p, q
        <5>. QED  BY <4>1, Pair
      <4>. QED  BY <4>2 DEF Status
    <3>5. task_status'[1].state = "FAILED"
      BY <2>1 DEF TickFail, TimesOut, Status
    <3>. QED  BY <3>4, <3>5
  <2>. QED  BY <2>1, <2>3, <2>4, <2>5, <2>6 DEF HNext
<1>2. IInv /\ Evidence /\ [HNext]_hvars => [A]_hvars
  BY <1>1, FailStep
<1>. QED  BY <1>2, Invariance, EvidenceInvariance, PTL DEF HSpec, FailJustified

------------------------------------------------------------------------------
(* The status topic refines TaskStatusStream.                              *)

LEMMA PlanOf ==
  ASSUME NEW k \in DOMAIN Scenarios
  PROVE  /\ k \in DOMAIN Plan
         /\ Len(Plan[k]) = Count(k)
         /\ \A i \in Nat : i < Count(k) => Plan[k][i + 1] = SubTask(k, i).name
<1>. DEFINE names == [i \in 1..Count(k) |-> Scenarios[k].sub_tasks[i].name]
<1>1. Plan[k] = names /\ k \in DOMAIN Plan
  BY DEF Plan
<1>2. Count(k) \in Nat
  BY CountType
<1>3. \A i \in 1..Count(k) : names[i] \in STRING
  <2>. SUFFICES ASSUME NEW i \in 1..Count(k) PROVE names[i] \in STRING
    OBVIOUS
  <2>1. i - 1 \in Nat /\ i - 1 < Count(k) /\ i - 1 + 1 = i
    BY <1>2
  <2>. HIDE DEF names
  <2>2. SubTask(k, i - 1) \in SubTaskDef
    BY <2>1, SubTaskType
  <2>3. SubTask(k, i - 1) = Scenarios[k].sub_tasks[i]
    BY <2>1 DEF SubTask
  <2>. QED  BY <2>2, <2>3 DEF SubTaskDef, names
<1>4. names \in Seq(STRING)
  <2>1. names \in [1..Count(k) -> STRING]
    BY <1>3
  <2>. QED  BY <1>2, <2>1, SeqDef
<1>5. Len(names) = Count(k)
  <2>1. DOMAIN names = 1..Len(names) /\ Len(names) \in Nat
    BY <1>4, LenProperties
  <2>2. DOMAIN names = 1..Count(k)
    OBVIOUS
  <2>. QED  BY <1>2, <2>1, <2>2
<1>6. \A i \in Nat : i < Count(k) => names[i + 1] = SubTask(k, i).name
  BY <1>2 DEF SubTask
<1>. HIDE DEF names
<1>. QED  BY <1>1, <1>5, <1>6

(* What Observe records is what Publish of the abstract topic says. *)
LEMMA PublishOne ==
  ASSUME NEW texts, NEW verdicts, NEW x,
         Observe(texts, verdicts), task_status' = <<x>>
  PROVE  Stream!Publish(<<x>>) /\ last_status' = x
<1>1. <<x>> # <<>> /\ Len(<<x>>) = 1 /\ <<x>>[1] = x
  OBVIOUS
<1>. QED  BY <1>1 DEF Observe, Stream!Publish

LEMMA PublishTwo ==
  ASSUME NEW texts, NEW verdicts, NEW x, NEW y,
         Observe(texts, verdicts), task_status' = <<x>> \o <<y>>
  PROVE  Stream!Publish(<<x, y>>) /\ last_status' = y
<1>1. task_status' = <<x, y>>
  BY Pair
<1>2. <<x, y>> # <<>> /\ Len(<<x, y>>) = 2 /\ <<x, y>>[2] = y
  OBVIOUS
<1>. QED  BY <1>1, <1>2 DEF Observe, Stream!Publish

LEMMA Silence ==
  ASSUME NEW texts, NEW verdicts,
         Observe(texts, verdicts), task_status' = <<>>
  PROVE  Stream!Quiet
  BY DEF Observe, Stream!Quiet

LEMMA BeginPublishes ==
  ASSUME NEW k \in DOMAIN Scenarios, NEW text, NEW before, NEW said,
         Begin(k, text, before, said),
         NEW o, o = Stream!Opening(k)
  PROVE  /\ task_status' = before \o <<o>>
         /\ \/ /\ o.state = "RUNNING" /\ o.task = k /\ o.index = 0
               /\ active' = k /\ index' = 0
            \/ o.state = "SUCCEEDED" /\ active' = None
<1>0. /\ Len(Plan[k]) = Count(k) /\ Count(k) \in Nat
      /\ \A i \in Nat : i < Count(k) => Plan[k][i + 1] = SubTask(k, i).name
  BY PlanOf, CountType
<1>1. CASE Count(k) > 0 /\ EnterSubtask(k, 0, before, said)
  <2>1. Plan[k][1] = SubTask(k, 0).name
    <3>1. Plan[k][0 + 1] = SubTask(k, 0).name
      BY <1>0, <1>1
    <3>. QED  BY <3>1
  <2>2. Len(Plan[k]) # 0
    BY <1>0, <1>1
  <2>3. o = Status("RUNNING", k, 0, SubTask(k, 0).name)
    BY <2>1, <2>2 DEF Stream!Opening, Stream!Status, Status
  <2>4. o.state = "RUNNING" /\ o.task = k /\ o.index = 0
    BY <2>3 DEF Status
  <2>5. task_status' = before \o <<o>> /\ active' = k /\ index' = 0
    BY <1>1, <2>3 DEF EnterSubtask
  <2>. QED  BY <2>4, <2>5
<1>2. CASE /\ Count(k) = 0 /\ ResetExec
           /\ task_status' = before \o <<Status("SUCCEEDED", k, 0, "")>>
  <2>1. Len(Plan[k]) = 0
    BY <1>0, <1>2
  <2>2. o = Status("SUCCEEDED", k, 0, "")
    BY <2>1 DEF Stream!Opening, Stream!Status, Status
  <2>3. o.state = "SUCCEEDED"
    BY ONLY <2>2 DEF Status
  <2>4. task_status' = before \o <<o>> /\ active' = None
    BY <1>2, <2>2 DEF ResetExec
  <2>. QED  BY <2>3, <2>4
<1>3. \/ Count(k) > 0 /\ EnterSubtask(k, 0, before, said)
      \/ /\ Count(k) = 0 /\ ResetExec
         /\ task_status' = before \o <<Status("SUCCEEDED", k, 0, "")>>
  BY DEF Begin
<1>. QED  BY <1>1, <1>2, <1>3

LEMMA RequestStep ==
  ASSUME IInv, StatusMirrorsExec, NEW k \in DOMAIN Scenarios, NEW text,
         Request(k, text), NEW texts, NEW verdicts, Observe(texts, verdicts)
  PROVE  Stream!Next /\ StatusMirrorsExec'
<1>. DEFINE o == Stream!Opening(k)
            p == Status("PREEMPTED", active, index, "")
<1>k. k \in DOMAIN Plan /\ k # None
  BY PlanOf, NoneIsNoScenario
<1>1. CASE active = None
  <2>1. Begin(k, text, <<>>, <<>>)
    BY <1>1 DEF Request
  <2>2. task_status' = <<>> \o <<o>>
    BY <2>1, BeginPublishes
  <2>3. task_status' = <<o>>
    <3>. HIDE DEF o
    <3>. QED  BY <2>2, Alone
  <2>4. Stream!Publish(<<o>>) /\ last_status' = o
    <3>. HIDE DEF o
    <3>. QED  BY <2>3, PublishOne
  <2>5. Stream!Open(k)
    BY <1>1, <2>4 DEF Stream!Open, Stream!InFlight, StatusMirrorsExec
  <2>6. StatusMirrorsExec'
    BY <1>k, <2>1, <2>4, BeginPublishes DEF StatusMirrorsExec
  <2>. QED  BY <1>k, <2>5, <2>6 DEF Stream!Next
<1>2. CASE active # None
  <2>1. Begin(k, text, <<p>>, CancelAll)
    BY <1>2 DEF Request
  <2>2. task_status' = <<p>> \o <<o>>
    BY <2>1, BeginPublishes
  <2>3. Stream!Publish(<<p, o>>) /\ last_status' = o
    <3>. HIDE DEF o, p
    <3>. QED  BY <2>2, PublishTwo
  <2>4. p = Stream!Status("PREEMPTED", last_status.task, last_status.index, "")
    BY <1>2 DEF StatusMirrorsExec, Status, Stream!Status
  <2>5. Stream!Preempt(k)
    BY <1>2, <2>3, <2>4 DEF Stream!Preempt, Stream!InFlight, StatusMirrorsExec
  <2>6. StatusMirrorsExec'
    BY <1>k, <2>1, <2>3, BeginPublishes DEF StatusMirrorsExec
  <2>. QED  BY <1>k, <2>5, <2>6 DEF Stream!Next
<1>. QED  BY <1>1, <1>2

LEMMA PassStreamStep ==
  ASSUME IInv, StatusMirrorsExec, TickPass,
         NEW texts, NEW verdicts, Observe(texts, verdicts)
  PROVE  Stream!Next /\ StatusMirrorsExec'
<1>1. /\ active \in DOMAIN Scenarios /\ active # None /\ index \in Nat
      /\ Stream!InFlight /\ last_status.task = active /\ last_status.index = index
  BY DEF TickPass, HasCurrent, IInv, TypeOK, StatusMirrorsExec, Stream!InFlight
<1>2. /\ Len(Plan[active]) = Count(active) /\ Count(active) \in Nat
      /\ \A i \in Nat : i < Count(active) => Plan[active][i + 1] = SubTask(active, i).name
  BY <1>1, PlanOf, CountType
<1>3. CASE /\ index + 1 < Count(active)
           /\ EnterSubtask(active, index + 1, <<>>, Dispatch(Current.on_success))
  <2>. DEFINE r == Status("RUNNING", active, index + 1, SubTask(active, index + 1).name)
  <2>1. task_status' = <<>> \o <<r>> /\ active' = active /\ index' = index + 1
    BY <1>3 DEF EnterSubtask
  <2>2. task_status' = <<r>>
    <3>. HIDE DEF r
    <3>. QED  BY <2>1, Alone
  <2>3. Stream!Publish(<<r>>) /\ last_status' = r
    <3>. HIDE DEF r
    <3>. QED  BY <2>2, PublishOne
  <2>4. index + 1 \in Nat /\ index + 1 < Count(active) /\ index + 2 = (index + 1) + 1
    BY <1>1, <1>2, <1>3
  <2>5. Plan[active][index + 2] = SubTask(active, index + 1).name
    BY <1>2, <2>4
  <2>6. r = Stream!Status("RUNNING", last_status.task, last_status.index + 1,
                          Plan[last_status.task][last_status.index + 2])
    BY <1>1, <2>5 DEF Status, Stream!Status
  <2>7. Stream!Advance
    BY <1>1, <1>2, <1>3, <2>3, <2>6 DEF Stream!Advance
  <2>8. StatusMirrorsExec'
    BY <1>1, <2>1, <2>3 DEF StatusMirrorsExec, Status
  <2>. QED  BY <2>7, <2>8 DEF Stream!Next
<1>4. CASE /\ index + 1 = Count(active) /\ ResetExec
           /\ task_status' = <<Status("SUCCEEDED", active, index + 1, "")>>
  <2>. DEFINE r == Status("SUCCEEDED", active, index + 1, "")
  <2>1. Stream!Publish(<<r>>) /\ last_status' = r
    <3>. HIDE DEF r
    <3>1. task_status' = <<r>>
      BY <1>4 DEF r
    <3>. QED  BY <3>1, PublishOne
  <2>2. Stream!Succeed
    BY <1>1, <1>2, <1>4, <2>1 DEF Stream!Succeed, Status, Stream!Status
  <2>3. StatusMirrorsExec'
    BY <1>4, <2>1 DEF StatusMirrorsExec, ResetExec, Status
  <2>. QED  BY <2>2, <2>3 DEF Stream!Next
<1>. QED  BY <1>3, <1>4 DEF TickPass

LEMMA FailStreamStep ==
  ASSUME IInv, StatusMirrorsExec, TickFail,
         NEW texts, NEW verdicts, Observe(texts, verdicts)
  PROVE  Stream!Next /\ StatusMirrorsExec'
<1>. DEFINE r == Status("FAILED", active, index, "")
<1>1. /\ active # None /\ task_status' = <<r>> /\ active' = None
  BY DEF TickFail, TimesOut, HasCurrent, ResetExec
<1>2. Stream!Publish(<<r>>) /\ last_status' = r
  <2>. HIDE DEF r
  <2>. QED  BY <1>1, PublishOne
<1>3. Stream!Fail
  BY <1>1, <1>2 DEF StatusMirrorsExec, Stream!Fail, Stream!InFlight, Status, Stream!Status
<1>4. StatusMirrorsExec'
  BY <1>1, <1>2 DEF StatusMirrorsExec, Status
<1>. QED  BY <1>3, <1>4 DEF Stream!Next

LEMMA SilentStep ==
  ASSUME StatusMirrorsExec, UNCHANGED <<active, index>>, task_status' = <<>>,
         NEW texts, NEW verdicts, Observe(texts, verdicts)
  PROVE  Stream!Next /\ StatusMirrorsExec'
<1>1. Stream!Quiet
  BY Silence
<1>2. StatusMirrorsExec'
  BY <1>1 DEF StatusMirrorsExec, Stream!Quiet
<1>. QED  BY <1>1, <1>2 DEF Stream!Next

LEMMA StreamStep ==
  IInv /\ StatusMirrorsExec /\ [HNext]_hvars
    => [Stream!Next]_<<last_status, task_status>> /\ StatusMirrorsExec'
<1>. SUFFICES ASSUME IInv, StatusMirrorsExec, [HNext]_hvars
              PROVE  [Stream!Next]_<<last_status, task_status>> /\ StatusMirrorsExec'
  OBVIOUS
<1>1. ASSUME NEW text \in Utterances, HOnTranscript(text)
      PROVE  Stream!Next /\ StatusMirrorsExec'
  <2>1. CASE Hear(text)
    BY <1>1, <2>1, SilentStep DEF HOnTranscript, Hear, exec
  <2>2. CASE Trigger(text)
    BY <1>1, <2>2, RequestStep DEF HOnTranscript, Trigger
  <2>. QED  BY <1>1, <2>1, <2>2 DEF HOnTranscript, OnTranscript
<1>2. ASSUME NEW v \in Verdicts, HOnVerdict(v)
      PROVE  Stream!Next /\ StatusMirrorsExec'
  BY <1>2, SilentStep DEF HOnVerdict, OnVerdict, exec
<1>3. CASE HTickStart
  BY <1>3, SilentStep DEF HTickStart, TickStart
<1>4. CASE HTickPass
  BY <1>4, PassStreamStep DEF HTickPass
<1>5. CASE HTickFail
  BY <1>5, FailStreamStep DEF HTickFail
<1>6. CASE HElapse
  BY <1>6, SilentStep DEF HElapse, Elapse, exec
<1>7. CASE UNCHANGED hvars
  BY <1>7 DEF hvars, vars, exec, published, history, StatusMirrorsExec
<1>. QED  BY <1>1, <1>2, <1>3, <1>4, <1>5, <1>6, <1>7 DEF HNext

(* For every set of scenarios, what orchestrator_node publishes on the     *)
(* status topic is a behaviour of TaskStatusStream: no task is left        *)
(* without its one closing status, no index is skipped, and a preemption   *)
(* is reported in the breath in which the next scenario begins.            *)
THEOREM StatusRefinement == HSpec => StatusProtocol
<1>1. HInit => Stream!Init /\ StatusMirrorsExec
  <2>. SUFFICES ASSUME HInit PROVE Stream!Init /\ StatusMirrorsExec
    OBVIOUS
  <2>1. last_status = Status("IDLE", 0, 0, "") /\ task_status = <<>> /\ active = None
    BY DEF HInit, Init, None
  <2>2. Stream!Init
    BY <2>1 DEF Stream!Init, Stream!NoStatus, Stream!Status, Status
  <2>3. last_status.state = "IDLE"
    BY ONLY <2>1 DEF Status
  <2>. QED  BY <2>1, <2>2, <2>3 DEF StatusMirrorsExec
<1>2. IInv /\ StatusMirrorsExec /\ [HNext]_hvars
        => [Stream!Next]_<<last_status, task_status>> /\ StatusMirrorsExec'
  BY StreamStep
<1>. QED  BY <1>1, <1>2, Invariance, PTL DEF HSpec, StatusProtocol, Stream!Spec

------------------------------------------------------------------------------
(* The commands fired at the connectors.                                  *)

Commands == [op : {"dispatch", "skip", "cancel"}, label : Labels \cup STRING,
             payload : {""} \cup STRING]

(* What every callback fires: cancellations, or none, and then commands.   *)
NoCancel(commands) == \A i \in DOMAIN commands : commands[i].op # "cancel"

Tidy(commands) ==
  \A i, j \in DOMAIN commands :
    commands[i].op = "dispatch" /\ commands[j].op = "cancel" => j < i

------------------------------------------------------------------------------
(* The sequences of commands. *)

LEMMA DispatchType ==
  ASSUME NEW hooks \in Hook
  PROVE  Dispatch(hooks) \in Seq(Commands) /\ NoCancel(Dispatch(hooks))
<1>. DEFINE d == Dispatch(hooks)
            Step == [label : STRING, payload : STRING]
<1>1. hooks \in Seq(Step) /\ Len(hooks) \in Nat /\ DOMAIN hooks = 1..Len(hooks)
  BY DEF Hook
<1>2. \A i \in 1..Len(hooks) : hooks[i] \in Step
  <2>. HIDE DEF Step
  <2>. QED  BY <1>1, ElementOfSeq
<1>3. \A i \in 1..Len(hooks) : Command(hooks[i]) \in Commands /\ Command(hooks[i]).op # "cancel"
  BY <1>2 DEF Command, Commands
<1>4. d \in [1..Len(hooks) -> Commands]
  BY <1>3 DEF Dispatch
<1>5. NoCancel(d)
  BY <1>3 DEF NoCancel, Dispatch
<1>. QED  BY <1>1, <1>4, <1>5, SeqDef

LEMMA CancelAllType ==
  /\ CancelAll \in Seq(Commands)
  /\ \A i \in DOMAIN CancelAll : CancelAll[i].op = "cancel"
  /\ \A label \in Labels : Addressed(CancelAll, label)
<1>1. Len(Connectors) = 3 /\ \A i \in 1..3 : Connectors[i] \in Labels
  BY DEF Connectors, Labels
<1>2. \A i \in 1..3 : [op |-> "cancel", label |-> Connectors[i], payload |-> ""] \in Commands
  BY <1>1 DEF Commands
<1>3. CancelAll \in [1..3 -> Commands]
  BY <1>1, <1>2 DEF CancelAll
<1>4. CancelAll \in Seq(Commands)
  BY <1>3, SeqDef
<1>5. \A i \in DOMAIN CancelAll : CancelAll[i].op = "cancel"
  BY <1>1 DEF CancelAll
<1>6. \A i \in 1..3 : i \in DOMAIN CancelAll /\ CancelAll[i].label = Connectors[i]
  BY <1>1 DEF CancelAll
<1>. QED  BY <1>4, <1>5, <1>6 DEF Labels, Addressed

LEMMA NoCancelConcat ==
  ASSUME NEW s \in Seq(Commands), NEW t \in Seq(Commands), NoCancel(s), NoCancel(t)
  PROVE  s \o t \in Seq(Commands) /\ NoCancel(s \o t)
  BY ConcatProperties DEF NoCancel

LEMMA CancelFirst ==
  ASSUME NEW d \in Seq(Commands), NoCancel(d)
  PROVE  /\ Tidy(CancelAll \o d)
         /\ \A label \in Labels : Addressed(CancelAll \o d, label)
<1>. DEFINE c == CancelAll
<1>1. c \in Seq(Commands) /\ \A i \in 1..Len(c) : c[i].op = "cancel"
  BY CancelAllType
<1>2. /\ c \o d \in Seq(Commands)
      /\ Len(c \o d) = Len(c) + Len(d) /\ Len(c) \in Nat /\ Len(d) \in Nat
      /\ \A i \in 1..Len(c) : (c \o d)[i] = c[i]
      /\ \A i \in 1..Len(c \o d) : i > Len(c) => (c \o d)[i] = d[i - Len(c)]
  <2>. HIDE DEF c
  <2>. QED  BY <1>1, ConcatProperties
<1>. HIDE DEF c
<1>3. Tidy(c \o d)
  <2>. SUFFICES ASSUME NEW i \in 1..Len(c \o d), NEW j \in 1..Len(c \o d),
                       (c \o d)[i].op = "dispatch", (c \o d)[j].op = "cancel"
                PROVE  j < i
    BY <1>2 DEF Tidy
  <2>1. i > Len(c)
    BY <1>1, <1>2
  <2>2. j <= Len(c)
    BY <1>2 DEF NoCancel
  <2>. QED  BY <1>2, <2>1, <2>2
<1>4. \A label \in Labels : Addressed(c \o d, label)
  <2>. SUFFICES ASSUME NEW label \in Labels PROVE Addressed(c \o d, label)
    OBVIOUS
  <2>1. PICK i \in 1..Len(c) : c[i].label = label
    BY <1>1, CancelAllType DEF Addressed, c
  <2>2. i \in DOMAIN (c \o d) /\ (c \o d)[i].label = label
    BY <1>2, <2>1
  <2>. QED  BY <2>2 DEF Addressed
<1>. QED  BY <1>3, <1>4 DEF c

------------------------------------------------------------------------------
(* The shape of what each callback fires.                                  *)

Fired == \E d \in Seq(Commands) : NoCancel(d) /\ cmds' = d
FiredAfterCancel == \E d \in Seq(Commands) : NoCancel(d) /\ cmds' = CancelAll \o d

LEMMA Nothing == <<>> \in Seq(Commands) /\ NoCancel(<<>>)
  BY EmptySeq DEF NoCancel

LEMMA HooksType ==
  ASSUME NEW st \in SubTaskDef
  PROVE  /\ st.on_create \in Hook /\ st.on_start \in Hook
         /\ st.on_success \in Hook /\ st.on_fail \in Hook
  BY DEF SubTaskDef

(* A preemption cancels before it begins; a trigger on an idle node fires  *)
(* what the first sub-task announces and reports no end.                   *)
LEMMA TriggerFires ==
  ASSUME IInv, NEW text, Trigger(text)
  PROVE  FiredAfterCancel \/ (Fired /\ ~Ended)
<1>1. PICK k \in DOMAIN Scenarios : Request(k, text)
  BY DEF Trigger
<1>2. Count(k) > 0 => SubTask(k, 0).on_create \in Hook
  BY SubTaskType, HooksType
<1>. DEFINE d == Dispatch(SubTask(k, 0).on_create)
<1>3. Count(k) > 0 => d \in Seq(Commands) /\ NoCancel(d)
  BY <1>2, DispatchType
<1>4. CASE active = None
  <2>1. Begin(k, text, <<>>, <<>>)
    BY <1>1, <1>4 DEF Request
  <2>2. CASE Count(k) > 0 /\ EnterSubtask(k, 0, <<>>, <<>>)
    <3>. DEFINE r == Status("RUNNING", k, 0, SubTask(k, 0).name)
    <3>1. cmds' = <<>> \o d /\ task_status' = <<>> \o <<r>>
      BY <2>2 DEF EnterSubtask
    <3>2. cmds' = d
      <4>. HIDE DEF d
      <4>. QED  BY <1>3, <2>2, <3>1, ConcatEmptySeq
    <3>3. task_status' = <<r>>
      <4>. HIDE DEF r
      <4>. QED  BY <3>1, Alone
    <3>4. ~Ended
      BY <3>3 DEF Ended, Status
    <3>. QED  BY <1>3, <2>2, <3>2, <3>4 DEF Fired
  <2>3. CASE task_status' = <<>> \o <<Status("SUCCEEDED", k, 0, "")>> /\ cmds' = <<>>
    <3>. DEFINE r == Status("SUCCEEDED", k, 0, "")
    <3>1. task_status' = <<r>>
      <4>1. task_status' = <<>> \o <<r>>
        BY <2>3
      <4>. HIDE DEF r
      <4>. QED  BY <4>1, Alone
    <3>2. r.state = "SUCCEEDED"
      BY ONLY DEF Status
    <3>3. ~Ended
      <4>. HIDE DEF r
      <4>. QED  BY <3>1, <3>2 DEF Ended
    <3>. QED  BY <2>3, <3>3, Nothing DEF Fired
  <2>. QED  BY <2>1, <2>2, <2>3 DEF Begin
<1>5. CASE active # None
  <2>1. PICK before : Begin(k, text, before, CancelAll)
    BY <1>1, <1>5 DEF Request
  <2>2. CASE Count(k) > 0 /\ EnterSubtask(k, 0, before, CancelAll)
    BY <1>3, <2>2 DEF EnterSubtask, FiredAfterCancel
  <2>3. CASE cmds' = CancelAll
    <3>1. cmds' = CancelAll \o <<>>
      BY <2>3, CancelAllType, ConcatEmptySeq
    <3>. QED  BY <3>1, Nothing DEF FiredAfterCancel
  <2>. QED  BY <2>1, <2>2, <2>3 DEF Begin
<1>. QED  BY <1>4, <1>5

LEMMA PassFires == ASSUME IInv, TickPass PROVE Fired /\ ~Ended
<1>1. /\ Current \in SubTaskDef /\ active \in DOMAIN Scenarios
      /\ index \in Nat
  BY CurrentType DEF TickPass, HasCurrent, IInv, TypeOK
<1>. DEFINE d == Dispatch(Current.on_success)
<1>2. d \in Seq(Commands) /\ NoCancel(d)
  BY <1>1, HooksType, DispatchType
<1>3. CASE index + 1 < Count(active) /\ EnterSubtask(active, index + 1, <<>>, d)
  <2>. DEFINE st == SubTask(active, index + 1)
              e == Dispatch(st.on_create)
              r == Status("RUNNING", active, index + 1, st.name)
  <2>1. st \in SubTaskDef
    <3>1. index + 1 \in Nat
      BY <1>1
    <3>. QED  BY <1>1, <1>3, <3>1, SubTaskType
  <2>2. e \in Seq(Commands) /\ NoCancel(e)
    BY <2>1, HooksType, DispatchType
  <2>3. cmds' = d \o e /\ task_status' = <<>> \o <<r>>
    BY <1>3 DEF EnterSubtask
  <2>4. Fired
    <3>. HIDE DEF d, e
    <3>. QED  BY <1>2, <2>2, <2>3, NoCancelConcat DEF Fired
  <2>5. task_status' = <<r>>
    <3>. HIDE DEF r
    <3>. QED  BY <2>3, Alone
  <2>6. ~Ended
    BY <2>5 DEF Ended, Status
  <2>. QED  BY <2>4, <2>6
<1>4. CASE task_status' = <<Status("SUCCEEDED", active, index + 1, "")>> /\ cmds' = d
  <2>. DEFINE r == Status("SUCCEEDED", active, index + 1, "")
  <2>1. r.state = "SUCCEEDED"
    BY ONLY DEF Status
  <2>2. ~Ended
    <3>1. task_status' = <<r>>
      BY <1>4
    <3>. HIDE DEF r
    <3>. QED  BY <2>1, <3>1 DEF Ended
  <2>. QED  BY <1>2, <1>4, <2>2 DEF Fired
<1>. QED  BY <1>3, <1>4 DEF TickPass

LEMMA FailFires == ASSUME IInv, TickFail PROVE FiredAfterCancel
<1>1. Current.on_fail \in Hook
  BY CurrentType, HooksType DEF TickFail, TimesOut
<1>2. cmds' = CancelAll \o Dispatch(Current.on_fail)
  BY DEF TickFail
<1>. QED  BY <1>1, <1>2, DispatchType DEF FiredAfterCancel

LEMMA StartFires == ASSUME IInv, TickStart PROVE Fired /\ ~Ended
<1>1. Current.on_start \in Hook
  BY CurrentType, HooksType DEF TickStart
<1>. QED  BY <1>1, DispatchType DEF TickStart, Fired, Ended

LEMMA Fires ==
  ASSUME IInv, HNext
  PROVE  FiredAfterCancel \/ (Fired /\ ~Ended)
<1>1. ASSUME cmds' = <<>>, task_status' = <<>> PROVE Fired /\ ~Ended
  <2>1. Fired
    BY <1>1, Nothing DEF Fired
  <2>2. ~Ended
    BY <1>1 DEF Ended
  <2>. QED  BY <2>1, <2>2
<1>2. ASSUME NEW text \in Utterances, HOnTranscript(text)
      PROVE  FiredAfterCancel \/ (Fired /\ ~Ended)
  BY <1>1, <1>2, TriggerFires DEF HOnTranscript, OnTranscript, Hear
<1>3. ASSUME NEW v \in Verdicts, HOnVerdict(v) PROVE Fired /\ ~Ended
  BY <1>1, <1>3 DEF HOnVerdict, OnVerdict
<1>4. HTickStart => Fired /\ ~Ended
  BY StartFires DEF HTickStart
<1>5. HTickPass => Fired /\ ~Ended
  BY PassFires DEF HTickPass
<1>6. HTickFail => FiredAfterCancel
  BY FailFires DEF HTickFail
<1>7. HElapse => Fired /\ ~Ended
  BY <1>1 DEF HElapse, Elapse
<1>. QED  BY <1>2, <1>3, <1>4, <1>5, <1>6, <1>7 DEF HNext

------------------------------------------------------------------------------
(* For every set of scenarios, no callback of orchestrator_node cancels    *)
(* after it commanded: the announcement that follows a failure or a        *)
(* preemption is published after the stop meant for what came before it.   *)
THEOREM CancellationsFirst == HSpec => []CancelBeforeCommand
<1>1. HInit => CancelBeforeCommand
  <2>1. HInit => cmds = <<>>
    BY DEF HInit, Init
  <2>2. cmds = <<>> => \A i \in DOMAIN cmds : FALSE
    OBVIOUS
  <2>. QED  BY <2>1, <2>2 DEF CancelBeforeCommand
<1>2. IInv /\ CancelBeforeCommand /\ [HNext]_hvars => CancelBeforeCommand'
  <2>. SUFFICES ASSUME IInv, CancelBeforeCommand, [HNext]_hvars PROVE CancelBeforeCommand'
    OBVIOUS
  <2>1. CASE UNCHANGED hvars
    BY <2>1 DEF hvars, vars, published, CancelBeforeCommand
  <2>2. CASE FiredAfterCancel
    BY <2>2, CancelFirst DEF FiredAfterCancel, Tidy, CancelBeforeCommand
  <2>3. CASE Fired
    BY <2>3 DEF Fired, NoCancel, CancelBeforeCommand
  <2>. QED  BY <2>1, <2>2, <2>3, Fires
<1>. QED  BY <1>1, <1>2, Invariance, PTL DEF HSpec

(* For every set of scenarios, a failure or a preemption leaves no command *)
(* of the scenario it ends uncancelled, on any connector.                  *)
THEOREM NothingSurvives == HSpec => NothingSurvivesItsScenario
<1>. DEFINE A == Ended => \A label \in outstanding' :
                            \E i \in DOMAIN cmds' :
                              cmds'[i].op = "dispatch" /\ cmds'[i].label = label
<1>1. ASSUME IInv, HNext, Ended, NEW label \in outstanding'
      PROVE  \E i \in DOMAIN cmds' : cmds'[i].op = "dispatch" /\ cmds'[i].label = label
  <2>1. PICK d \in Seq(Commands) : NoCancel(d) /\ cmds' = CancelAll \o d
    BY <1>1, Fires DEF FiredAfterCancel
  <2>2. label \in Labels /\ StillOutstanding(cmds', label)
    BY <1>1 DEF HNext, HOnTranscript, HOnVerdict, HTickStart, HTickPass, HTickFail, HElapse,
                Observe
  <2>3. Addressed(cmds', label)
    BY <2>1, <2>2, CancelFirst
  <2>. QED  BY <2>2, <2>3 DEF StillOutstanding, IsLast
<1>2. IInv /\ [HNext]_hvars => [A]_hvars
  BY <1>1
<1>. QED  BY <1>2, Invariance, PTL DEF HSpec, NothingSurvivesItsScenario
=============================================================================
