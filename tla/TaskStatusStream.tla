-------------------------- MODULE TaskStatusStream --------------------------
(***************************************************************************)
(* What a subscriber of /cortex/task_status is promised: the order in      *)
(* which statuses may follow each other. A task opens with RUNNING at its  *)
(* first sub-task, walks through its sub-tasks one by one, and closes with *)
(* exactly one of SUCCEEDED (after the last one), FAILED and PREEMPTED     *)
(* (at the one in flight); a task is preempted only by one that opens in   *)
(* the same breath; a task without sub-tasks is a pure "stop" that opens   *)
(* and succeeds at once.                                                   *)
(***************************************************************************)
EXTENDS Integers, Sequences

CONSTANT Plan   \* the names of each task's sub-tasks, in order

VARIABLES
  last,   \* the last status published
  batch   \* the statuses published together by the last step

Status(state, task, index, name) ==
  [state |-> state, task |-> task, index |-> index, current_subtask |-> name]

NoStatus == Status("IDLE", 0, 0, "")

InFlight == last.state = "RUNNING"

Publish(statuses) ==
  /\ batch' = statuses
  /\ last' = statuses[Len(statuses)]

Opening(task) ==
  IF Len(Plan[task]) = 0 THEN Status("SUCCEEDED", task, 0, "")
                          ELSE Status("RUNNING", task, 0, Plan[task][1])

Open(task) == ~InFlight /\ Publish(<<Opening(task)>>)

Preempt(task) ==
  /\ InFlight
  /\ Publish(<<Status("PREEMPTED", last.task, last.index, ""), Opening(task)>>)

Advance ==
  /\ InFlight
  /\ last.index + 1 < Len(Plan[last.task])
  /\ Publish(<<Status("RUNNING", last.task, last.index + 1, Plan[last.task][last.index + 2])>>)

Succeed ==
  /\ InFlight
  /\ last.index + 1 = Len(Plan[last.task])
  /\ Publish(<<Status("SUCCEEDED", last.task, last.index + 1, "")>>)

Fail ==
  /\ InFlight
  /\ Publish(<<Status("FAILED", last.task, last.index, "")>>)

Quiet == batch' = <<>> /\ UNCHANGED last

Init == last = NoStatus /\ batch = <<>>

Next ==
  \/ \E task \in DOMAIN Plan : Open(task) \/ Preempt(task)
  \/ Advance \/ Succeed \/ Fail
  \/ Quiet

Spec == Init /\ [][Next]_<<last, batch>>
=============================================================================
