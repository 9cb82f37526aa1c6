---------------------------- MODULE Orchestrator ----------------------------
(***************************************************************************)
(* orchestrator_node: the hook-driven scenario orchestrator.               *)
(*                                                                         *)
(* Its three callbacks (transcript, verdict, tick) share one mutually      *)
(* exclusive callback group, so each of them is one atomic action here.    *)
(* The messages a callback publishes are the values of task_status, cmds   *)
(* and active_subtask after the step: what the last callback put on the    *)
(* status topic, on the connectors' channels and on the active-subtask     *)
(* topic, in the order of its calls.                                       *)
(*                                                                         *)
(* Abstractions of data: a transcript is the set of keywords its text      *)
(* contains (all the code asks of it is "kw in text"); a criterion is the  *)
(* set of its leaves, all of which must pass (a composite is the union of  *)
(* its children); a scenario is identified by its position in the load     *)
(* order, None = 0 standing for "no active scenario"; time is counted in   *)
(* units and age = now - _t0 stops at Horizon, beyond every threshold.     *)
(***************************************************************************)
EXTENDS Integers, Sequences

CONSTANTS
  Scenarios,   \* self.scenarios, in load order (file names sorted)
  Utterances,  \* the transcripts stt_node may publish, as sets of keywords
  Verdicts,    \* the Verdict messages vlm_node may publish
  NoVerdict,   \* latest_verdict before any verdict (Python's None)
  Horizon      \* bound of age, at least every delay and every timeout

Connectors == <<"speak", "navigation", "vla">>
Labels == {Connectors[i] : i \in 1..3}

Hook == Seq([label : STRING, payload : STRING])

Leaf == [type : {"always", "vlm"}]
          \cup [type : {"delay"}, seconds : Nat]
          \cup [type : {"voice_keyword"}, keywords : SUBSET STRING]

SubTaskDef ==
  [name : STRING, on_create : Hook, on_start : Hook, on_success : Hook,
   on_fail : Hook, criterion : SUBSET Leaf, timeout_s : Nat]

Scenario == [triggers : SUBSET STRING, sub_tasks : Seq(SubTaskDef)]

(***************************************************************************)
(* What load_scenarios guarantees of the scenarios, and what the bound     *)
(* of the clock must satisfy.                                              *)
(***************************************************************************)
ASSUME ScenarioAssumption == Scenarios \in Seq(Scenario)
ASSUME InputAssumption ==
  /\ Utterances \subseteq SUBSET STRING
  /\ \A v \in Verdicts : v.subtask_id \in STRING /\ v.passed \in BOOLEAN
  /\ NoVerdict \notin Verdicts
ASSUME HorizonAssumption ==
  /\ Horizon \in Nat
  /\ \A k \in DOMAIN Scenarios : \A i \in DOMAIN Scenarios[k].sub_tasks :
       LET st == Scenarios[k].sub_tasks[i] IN
         /\ st.timeout_s <= Horizon
         /\ \A c \in st.criterion : c.type = "delay" => c.seconds <= Horizon

VARIABLES
  active,          \* _active: the running scenario, None when idle
  index,           \* _index: 0-based position of the current sub-task
  criterion,       \* _criterion: the current sub-task's criterion
  started,         \* _started: on_start fired for the current sub-task?
  age,             \* _now() - _t0, saturating at Horizon
  latest_verdict,  \* latest_verdict: last Verdict received, or NoVerdict
  transcripts,     \* _transcripts, as a set
  task_status,     \* statuses the last callback published
  cmds,            \* connector commands the last callback fired, or skipped
  active_subtask   \* sub-task ids the last callback sent to vlm_node

exec == <<active, index, criterion, started>>
inputs == <<latest_verdict, transcripts>>
published == <<task_status, cmds, active_subtask>>
vars == <<exec, age, inputs, published>>

None == 0
NoCriterion == {}

SubTask(k, i) == Scenarios[k].sub_tasks[i + 1]
Count(k) == Len(Scenarios[k].sub_tasks)

(* _current(): is there a current sub-task, and which one. *)
HasCurrent == active # None /\ index \in 0..Count(active) - 1
Current == SubTask(active, index)

------------------------------------------------------------------------------
(* Connectors: what a hook and a cancellation put on the wire.             *)

HasConnector(step) == step.label \in Labels

(* A label without connector is skipped (with a warning). *)
Command(step) ==
  [op |-> IF HasConnector(step) THEN "dispatch" ELSE "skip",
   label |-> step.label, payload |-> step.payload]

Dispatch(hooks) == [i \in 1..Len(hooks) |-> Command(hooks[i])]

(* Mutation: only speech is cancelled. *)
CancelSpeechOnly == <<[op |-> "cancel", label |-> "speak", payload |-> ""]>>

CancelAll ==
  [i \in 1..Len(Connectors) |-> [op |-> "cancel", label |-> Connectors[i], payload |-> ""]]

(* _publish_status: the message reports the scenario and the index of the  *)
(* moment of the call; name is current_subtask, "" for most calls.         *)
Status(state, k, i, name) ==
  [state |-> state, task |-> k, index |-> i, current_subtask |-> name]

------------------------------------------------------------------------------
(* Criteria.                                                               *)

Passes(leaf, name) ==
  CASE leaf.type = "always" -> TRUE
    [] leaf.type = "delay" -> age >= leaf.seconds
    [] leaf.type = "vlm" ->
         /\ latest_verdict # NoVerdict
         /\ latest_verdict.subtask_id = name
         /\ latest_verdict.passed
    [] leaf.type = "voice_keyword" ->
         \E text \in transcripts : leaf.keywords \cap text # {}

Evaluate(name) == \A leaf \in criterion : Passes(leaf, name)

------------------------------------------------------------------------------
(* Helpers of the callbacks. before and said are what the caller already   *)
(* published on the status topic and fired at the connectors.              *)

(* Mutation: the index goes back to before the first sub-task. *)
ResetBeforeFirst == active' = None /\ index' = -1 /\ criterion' = NoCriterion /\ started' = FALSE

(* Mutation: the index survives the reset. *)
ResetKeepingIndex == active' = None /\ criterion' = NoCriterion /\ started' = FALSE /\ UNCHANGED index

ResetExec ==
  /\ active' = None
  /\ index' = 0
  /\ criterion' = NoCriterion
  /\ started' = FALSE

(* Mutation: the cached verdict survives the entry. *)
EnterKeepingVerdict(k, i, before, said) ==
  LET st == SubTask(k, i) IN
  /\ active' = k /\ index' = i /\ criterion' = st.criterion /\ started' = FALSE
  /\ transcripts' = {}
  /\ cmds' = said \o Dispatch(st.on_create)
  /\ active_subtask' = <<st.name>>
  /\ task_status' = before \o <<Status("RUNNING", k, i, st.name)>>
  /\ UNCHANGED latest_verdict

EnterSubtask(k, i, before, said) ==
  LET st == SubTask(k, i) IN
  /\ active' = k
  /\ index' = i
  /\ latest_verdict' = NoVerdict
  /\ transcripts' = {}
  /\ criterion' = st.criterion
  /\ started' = FALSE
  /\ cmds' = said \o Dispatch(st.on_create)
  /\ active_subtask' = <<st.name>>
  /\ task_status' = before \o <<Status("RUNNING", k, i, st.name)>>

(* _begin of a scenario with sub-tasks, and of a pure "stop" scenario.     *)
Begin(k, text, before, said) ==
  \/ /\ Count(k) > 0
     /\ EnterSubtask(k, 0, before, said)
  \/ /\ Count(k) = 0
     /\ task_status' = before \o <<Status("SUCCEEDED", k, 0, "")>>
     /\ ResetExec
     /\ transcripts' = transcripts \cup {text}
     /\ cmds' = said
     /\ active_subtask' = <<>>
     /\ UNCHANGED latest_verdict

(* Mutation: what runs is cancelled, but not reported as preempted. *)
RequestSilently(k, text) ==
  Begin(k, text, <<>>, IF active = None THEN <<>> ELSE CancelAll)

(* _request: preempt what runs, then begin at once. *)
Request(k, text) ==
  \/ /\ active = None
     /\ Begin(k, text, <<>>, <<>>)
  \/ /\ active # None
     /\ Begin(k, text, <<Status("PREEMPTED", active, index, "")>>, CancelAll)

------------------------------------------------------------------------------
(* The callbacks.                                                          *)

Triggers(k, text) == Scenarios[k].triggers \cap text # {}

FirstMatch(k, text) ==
  /\ Triggers(k, text)
  /\ \A j \in 1..k - 1 : ~Triggers(j, text)

(* A transcript that triggers nothing is only buffered. *)
Hear(text) ==
  /\ \A k \in DOMAIN Scenarios : ~Triggers(k, text)
  /\ transcripts' = transcripts \cup {text}
  /\ task_status' = <<>> /\ cmds' = <<>> /\ active_subtask' = <<>>
  /\ UNCHANGED <<exec, age, latest_verdict>>

Trigger(text) ==
  \E k \in DOMAIN Scenarios :
    /\ FirstMatch(k, text)
    /\ Request(k, text)
    /\ UNCHANGED age

OnTranscript(text) == Hear(text) \/ Trigger(text)

OnVerdict(v) ==
  /\ latest_verdict' = v
  /\ task_status' = <<>> /\ cmds' = <<>> /\ active_subtask' = <<>>
  /\ UNCHANGED <<exec, age, transcripts>>

(* Mutation: the clock is not restarted on on_start. *)
StartWithoutClock ==
  /\ HasCurrent /\ ~started
  /\ started' = TRUE
  /\ cmds' = Dispatch(Current.on_start)
  /\ task_status' = <<>> /\ active_subtask' = <<>>
  /\ UNCHANGED <<active, index, criterion, age, inputs>>

(* _tick before on_start: the clock of the sub-task starts here. *)
TickStart ==
  /\ HasCurrent /\ ~started
  /\ age' = 0
  /\ started' = TRUE
  /\ cmds' = Dispatch(Current.on_start)
  /\ task_status' = <<>> /\ active_subtask' = <<>>
  /\ UNCHANGED <<active, index, criterion, inputs>>

(* _tick on a criterion that passes, with _advance. *)
TickPass ==
  /\ HasCurrent /\ started
  /\ Evaluate(Current.name)
  /\ UNCHANGED age
  /\ \/ /\ index + 1 < Count(active)
        /\ EnterSubtask(active, index + 1, <<>>, Dispatch(Current.on_success))
     \/ /\ index + 1 = Count(active)
        /\ task_status' = <<Status("SUCCEEDED", active, index + 1, "")>>
        /\ cmds' = Dispatch(Current.on_success)
        /\ active_subtask' = <<>>
        /\ ResetExec
        /\ UNCHANGED inputs

(* The clock as read by the timeout check, after the criterion was         *)
(* evaluated on an earlier reading: any time may have passed in between.   *)
LaterReading == age..Horizon

TimesOut ==
  /\ HasCurrent /\ started
  /\ ~Evaluate(Current.name)
  /\ age' \in LaterReading
  /\ age' >= Current.timeout_s
  /\ task_status' = <<Status("FAILED", active, index, "")>>
  /\ active_subtask' = <<>>
  /\ UNCHANGED inputs

(* Mutation: the failure is announced before the commands are cancelled. *)
FailAnnouncingFirst == TimesOut /\ cmds' = Dispatch(Current.on_fail) \o CancelAll /\ ResetExec

(* Mutation: on_fail is looked up after the execution state was cleared.   *)
FailReadingLate == TimesOut /\ cmds' = CancelAll /\ ResetExec

(* Mutation: the execution state survives the failure. *)
FailWithoutReset == TimesOut /\ cmds' = CancelAll \o Dispatch(Current.on_fail) /\ UNCHANGED exec

(* _tick on a criterion that does not pass and a timeout, with _fail. *)
TickFail == TimesOut /\ cmds' = CancelAll \o Dispatch(Current.on_fail) /\ ResetExec

(* A tick that finds no current sub-task, or one that neither passed nor   *)
(* timed out, returns without a change: a stuttering step.                 *)
Tick == TickStart \/ TickPass \/ TickFail

(* time.monotonic() moves on. *)
Elapse ==
  /\ age < Horizon
  /\ age' = age + 1
  /\ task_status' = <<>> /\ cmds' = <<>> /\ active_subtask' = <<>>
  /\ UNCHANGED <<exec, inputs>>

------------------------------------------------------------------------------
Init ==
  /\ active = None /\ index = 0 /\ criterion = NoCriterion /\ started = FALSE
  /\ age = 0
  /\ latest_verdict = NoVerdict /\ transcripts = {}
  /\ task_status = <<>> /\ cmds = <<>> /\ active_subtask = <<>>

Next ==
  \/ \E text \in Utterances : OnTranscript(text)
  \/ \E v \in Verdicts : OnVerdict(v)
  \/ Tick
  \/ Elapse

Spec == Init /\ [][Next]_vars

------------------------------------------------------------------------------
(* Every variable stays in its range. *)
TypeOK ==
  /\ active \in {None} \cup DOMAIN Scenarios
  /\ index \in Nat
  /\ criterion \in SUBSET Leaf
  /\ started \in BOOLEAN
  /\ age \in 0..Horizon
  /\ latest_verdict \in Verdicts \cup {NoVerdict}
  /\ transcripts \in SUBSET Utterances

(* Between two callbacks the node is either idle with its execution state  *)
(* cleared, or it has a current sub-task and holds that sub-task's         *)
(* criterion: there is never an active scenario that no tick can move      *)
(* (_current() returning None with _active set).                           *)
ExecConsistent ==
  IF active = None
    THEN index = 0 /\ criterion = NoCriterion /\ started = FALSE
    ELSE HasCurrent /\ criterion = Current.criterion

------------------------------------------------------------------------------
(* Failures.                                                               *)

(* Can the timeout ever strike this sub-task: has it a leaf that may not   *)
(* pass in time. A delay is one, also a delay shorter than the timeout:    *)
(* the readings of the two comparisons may lie on either side of both.     *)
CanFail(st) == \E leaf \in st.criterion : leaf.type # "always"

SubTasks == UNION {{SubTask(k, i) : i \in 0..Count(k) - 1} : k \in DOMAIN Scenarios}

(* Of the scenarios: whoever can fail has its failure spoken last. *)
FailuresAreSpoken ==
  \A st \in SubTasks :
    CanFail(st) => st.on_fail # <<>> /\ st.on_fail[Len(st.on_fail)].label = "speak"

(* No failure is silent: whoever published FAILED also spoke last, after   *)
(* everything was cancelled (the rule of greet.json5:12-13 and of ci.yml:  *)
(* a sub-task that may fail owns its message, and _fail captures on_fail   *)
(* before _stop_current clears the execution state).                       *)
FailureNeverSilent ==
  [][(\E i \in DOMAIN task_status' : task_status'[i].state = "FAILED")
       => /\ cmds' # <<>>
          /\ cmds'[Len(cmds')].op = "dispatch"
          /\ cmds'[Len(cmds')].label = "speak"]_vars
=============================================================================
