------------------------ MODULE OrchestratorHistory -------------------------
(***************************************************************************)
(* The orchestrator with history variables, and the properties that relate *)
(* what it does now to what was heard, judged and commanded before. The    *)
(* history only watches inputs and published messages: every step is a     *)
(* step of Orchestrator!Next and none is excluded.                         *)
(***************************************************************************)
EXTENDS Orchestrator

VARIABLES
  heard,        \* transcripts received since the current sub-task was entered
  judged,       \* verdicts received since the current sub-task was entered
  since,        \* time since the last on_start, saturating at Horizon
  outstanding,  \* connectors whose last command was a dispatch
  last_status   \* the last status published

history == <<heard, judged, since, outstanding, last_status>>
hvars == <<vars, history>>

Entered == active_subtask' # <<>>

IsLast(commands, label, i) ==
  /\ commands[i].label = label
  /\ \A j \in DOMAIN commands : commands[j].label = label => j <= i

Addressed(commands, label) == \E i \in DOMAIN commands : commands[i].label = label

StillOutstanding(commands, label) ==
  IF Addressed(commands, label)
    THEN \E i \in DOMAIN commands : IsLast(commands, label, i) /\ commands[i].op = "dispatch"
    ELSE label \in outstanding

(* The step receives the given transcripts and verdicts (at most one). *)
Observe(texts, verdicts) ==
  /\ heard' = IF Entered THEN {} ELSE heard \cup texts
  /\ judged' = IF Entered THEN {} ELSE judged \cup verdicts
  /\ outstanding' = {label \in Labels : StillOutstanding(cmds', label)}
  /\ last_status' = IF task_status' = <<>> THEN last_status
                                           ELSE task_status'[Len(task_status')]

(* Time passes: since runs on, whatever becomes of the node's own clock. *)
Advanced(time) == IF since + time < Horizon THEN since + time ELSE Horizon

HOnTranscript(text) == OnTranscript(text) /\ Observe({text}, {}) /\ UNCHANGED since
HOnVerdict(v) == OnVerdict(v) /\ Observe({}, {v}) /\ UNCHANGED since
HTickStart == TickStart /\ Observe({}, {}) /\ since' = 0
HTickPass == TickPass /\ Observe({}, {}) /\ UNCHANGED since
HTickFail ==
  /\ TickFail
  /\ Observe({}, {})
  /\ since' = Advanced(age' - age)
HElapse ==
  /\ Elapse
  /\ Observe({}, {})
  /\ since' = Advanced(1)

HInit ==
  /\ Init
  /\ heard = {} /\ judged = {} /\ since = 0 /\ outstanding = {}
  /\ last_status = Status("IDLE", None, 0, "")

HNext ==
  \/ \E text \in Utterances : HOnTranscript(text)
  \/ \E v \in Verdicts : HOnVerdict(v)
  \/ HTickStart \/ HTickPass \/ HTickFail
  \/ HElapse

HSpec == HInit /\ [][HNext]_hvars

(***************************************************************************)
(* The tick is a ROS timer, which the executor keeps serving, and the      *)
(* monotonic clock advances. Nothing is assumed of the user or of vlm_node.*)
(***************************************************************************)
HFairSpec == HSpec /\ WF_hvars(HTickStart \/ HTickPass \/ HTickFail) /\ WF_hvars(HElapse)

------------------------------------------------------------------------------
(* What ties the node's state to the history, step by step.                *)

(* What the criterion of a running sub-task reads is what was received     *)
(* since the sub-task was entered, nothing older and nothing left out, and *)
(* its clock runs since its own on_start.                                  *)
Evidence ==
  active # None =>
    /\ latest_verdict \in judged \cup {NoVerdict}
    /\ latest_verdict = NoVerdict => judged = {}
    /\ transcripts = heard
    /\ started => since = age

(* The status topic tells where the node is: RUNNING, with the scenario and *)
(* the index, exactly when a scenario is active.                           *)
StatusMirrorsExec ==
  IF active = None
    THEN last_status.state # "RUNNING"
    ELSE last_status.state = "RUNNING" /\ last_status.task = active /\ last_status.index = index

------------------------------------------------------------------------------
(* Properties.                                                             *)

Justified(leaf) ==
  CASE leaf.type = "always" -> TRUE
    [] leaf.type = "delay" -> since >= leaf.seconds
    [] leaf.type = "vlm" ->
         \E v \in judged : v.subtask_id = Current.name /\ v.passed
    [] leaf.type = "voice_keyword" ->
         \E text \in heard : leaf.keywords \cap text # {}

(* A sub-task completes only on evidence of its own: a delay counted from  *)
(* its own on_start, a passing verdict with its name received since it was *)
(* entered, an utterance heard since it was entered. Nothing that an       *)
(* earlier sub-task left in _t0, latest_verdict or _transcripts can pass   *)
(* it (the resets of _enter_subtask and of the first tick).                *)
PassJustified ==
  [][TickPass => \A leaf \in Current.criterion : Justified(leaf)]_hvars

Wanting(leaf) ==
  CASE leaf.type = "always" -> FALSE
    [] leaf.type = "delay" -> since < leaf.seconds
    [] leaf.type = "vlm" ->
         judged = {} \/ \E v \in judged : ~(v.subtask_id = Current.name /\ v.passed)
    [] leaf.type = "voice_keyword" ->
         \A text \in heard : leaf.keywords \cap text = {}

(* A sub-task fails no sooner than timeout_s after its own on_start, and   *)
(* only for want of something: a delay that had not run when the tick read *)
(* the clock, a keyword that was not heard since the sub-task was entered, *)
(* a verdict that was not received or was not in its favour. What arrived  *)
(* in time is never overlooked, and "always" never fails (what the sanity  *)
(* check of ci.yml relies on). The clock is read twice, so a delay may run *)
(* and the timeout strike between the two readings.                        *)
FailJustified ==
  [][TickFail => /\ since' >= Current.timeout_s
                 /\ \E leaf \in Current.criterion : Wanting(leaf)]_hvars

(* No callback fires a command and then a cancellation: the cancellation   *)
(* that a failure or a preemption sends never follows, on any connector,   *)
(* the announcement the same callback makes.                               *)
CancelBeforeCommand ==
  \A i, j \in DOMAIN cmds :
    cmds[i].op = "dispatch" /\ cmds[j].op = "cancel" => j < i

Ended == \E i \in DOMAIN task_status' : task_status'[i].state \in {"FAILED", "PREEMPTED"}

(* When a scenario fails or is preempted, every command it had issued on   *)
(* any connector is cancelled: what is outstanding afterwards was issued   *)
(* by the callback that ended it.                                          *)
NothingSurvivesItsScenario ==
  [][Ended => \A label \in outstanding' :
                \E i \in DOMAIN cmds' : cmds'[i].op = "dispatch" /\ cmds'[i].label = label]_hvars

(* The status topic obeys the protocol of TaskStatusStream, whatever the   *)
(* order of triggers, verdicts and ticks.                                  *)
Plan == [k \in DOMAIN Scenarios |-> [i \in 1..Count(k) |-> Scenarios[k].sub_tasks[i].name]]
Stream == INSTANCE TaskStatusStream WITH Plan <- Plan, last <- last_status, batch <- task_status
StatusProtocol == Stream!Spec

(* No scenario runs forever by itself: the orchestrator is idle again and  *)
(* again, unless the user preempts it again and again.                     *)
Settles ==
  \/ []<>(active = None)
  \/ []<><<active # None /\ \E text \in Utterances : Trigger(text)>>_hvars
=============================================================================
