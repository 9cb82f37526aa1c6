------------------------------ MODULE VlmNode -------------------------------
(***************************************************************************)
(* vlm_node: the scene critic. It remembers the sub-task it was last told  *)
(* of and, on every period, judges it and publishes a Verdict.             *)
(*                                                                         *)
(* Its callbacks share a reentrant group under a multi-threaded executor:  *)
(* each runs on an executor thread and any two may overlap, including two  *)
(* deliveries or two periods. A callback is split where another can come   *)
(* between its steps: the delivery takes the message and then assigns it   *)
(* under the lock; the period snapshots the sub-task under the lock, and   *)
(* judges and publishes without it.                                        *)
(*                                                                         *)
(* A Subtask is a record with its id (what it says to judge is not told    *)
(* apart from the id); whether it is met in the camera frame is a choice   *)
(* from Evaluations: the stub's is {FALSE}, that of a backend BOOLEAN.     *)
(***************************************************************************)
EXTENDS Integers

CONSTANTS
  Threads,      \* the executor's threads
  Evaluations,  \* the outcomes _evaluate may have (BOOLEAN or a subset)
  NoSubtask     \* _current before the first delivery (Python's None)

VARIABLES
  current,  \* _current: the sub-task under evaluation
  thread    \* what each thread does: its step and the sub-task it holds

Free == [step |-> "free", held |-> NoSubtask]

(* What a verdict says, and about which sub-task it was reached (which the *)
(* message does not hold).                                                 *)
Verdict(id, passed, subject) == [subtask_id |-> id, passed |-> passed, subject |-> subject]

Init ==
  /\ current = NoSubtask
  /\ thread = [t \in Threads |-> Free]

(* _on_active_subtask: the executor thread takes the message ...           *)
TakeSubtask(t, msg) ==
  /\ thread[t] = Free
  /\ thread' = [thread EXCEPT ![t] = [step |-> "assign", held |-> msg]]
  /\ UNCHANGED current

(* ... and the callback assigns it. *)
AssignSubtask(t) ==
  /\ thread[t].step = "assign"
  /\ current' = thread[t].held
  /\ thread' = [thread EXCEPT ![t] = Free]

(* _tick with a sub-task to judge, up to the end of its locked block. *)
TickRead(t) ==
  /\ thread[t] = Free
  /\ current # NoSubtask
  /\ thread' = [thread EXCEPT ![t] = [step |-> "judge", held |-> current]]
  /\ UNCHANGED current

(* Mutation: the id is read again after the judgement. *)
JudgeRereading(t, v) ==
  /\ thread[t].step = "judge"
  /\ \E passed \in Evaluations : v = Verdict(current.id, passed, thread[t].held)
  /\ thread' = [thread EXCEPT ![t] = Free]
  /\ UNCHANGED current

(* _tick from there on: v is the verdict it publishes. *)
TickPublish(t, v) ==
  /\ thread[t].step = "judge"
  /\ \E passed \in Evaluations : v = Verdict(thread[t].held.id, passed, thread[t].held)
  /\ thread' = [thread EXCEPT ![t] = Free]
  /\ UNCHANGED current
=============================================================================
