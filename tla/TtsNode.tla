------------------------------ MODULE TtsNode -------------------------------
(***************************************************************************)
(* tts_node: utterances in, audio chunks out, with barge-in and E-STOP.    *)
(*                                                                         *)
(* Two kinds of threads share its state without a lock: the executor's,    *)
(* which run the callbacks of a reentrant group (any two may overlap,      *)
(* also two of the same topic), and the one thread of the pool, which runs *)
(* one synthesis at a time in an event loop of its own. Every read and     *)
(* write of the shared fields is a step. The main thread spins the         *)
(* executor and, interrupted, destroys the node: it cancels, shuts the     *)
(* pool down and destroys the publisher, while the others finish what they *)
(* took up.                                                                *)
(*                                                                         *)
(* An utterance is told apart by a number; its audio is its chunks. An     *)
(* asyncio task and its loop are told apart by the utterance they belong   *)
(* to. None = 0 is Python's None.                                          *)
(***************************************************************************)
EXTENDS Integers, Sequences

CONSTANTS
  Threads,     \* the executor's threads
  Main,        \* the main thread
  Utterances,  \* the utterances that may be asked for
  Blank,       \* those that are dropped: empty text (all, without credentials)
  ChunkCounts  \* how many chunks a response may have (0: no samples)

ASSUME UtterancesAssumption == Utterances \subseteq Nat \ {0} /\ Blank \subseteq Utterances
ASSUME MainAssumption == Main \notin Threads
ASSUME ChunksAssumption == ChunkCounts \subseteq Nat

None == 0

VARIABLES
  estop_active,   \* _estop_active
  inflight_task,  \* _inflight_task
  inflight_loop,  \* _inflight_loop
  pool,           \* the pool's work queue
  worker,         \* the pool's thread
  thread,         \* what each executor thread and the main thread do
  audio           \* what was published on audio_out

fields == <<estop_active, inflight_task, inflight_loop>>
Actors == Threads \cup {Main}

vars == <<fields, pool, worker, thread, audio>>

Free == [step |-> "free", text |-> None, active |-> FALSE, task |-> None, loop |-> None]

(* doomed: task.cancel was handed to the running loop; sent of chunks.     *)
Idle == [step |-> "idle", text |-> None, doomed |-> FALSE, chunks |-> 0, sent |-> 0]

Init ==
  /\ estop_active = FALSE
  /\ inflight_task = None /\ inflight_loop = None
  /\ pool = <<>>
  /\ worker = Idle
  /\ thread = [t \in Actors |-> Free]
  /\ audio = <<>>

------------------------------------------------------------------------------
(* The callbacks. Each is taken up by a free thread while the executor     *)
(* spins.                                                                  *)

At(t, step) == thread[t].step = step
Goto(t, step) == thread' = [thread EXCEPT ![t].step = step]
Return(t) ==
  thread' = [thread EXCEPT ![t] = IF t = Main THEN [Free EXCEPT !.step = "shutdown"] ELSE Free]

Spinning == At(Main, "free")
PoolIsShut == thread[Main].step \in {"destroy", "closed"}
PublisherIsGone == At(Main, "closed")

CanTake(t) == Spinning /\ t # Main /\ At(t, "free")

TakeSay(t, text) ==
  /\ CanTake(t)
  /\ thread' = [thread EXCEPT ![t] = [Free EXCEPT !.step = "say", !.text = text]]
  /\ UNCHANGED <<fields, pool, worker, audio>>

(* _on_say; a pool that is shut down refuses. *)
Submit(t) ==
  /\ At(t, "say")
  /\ pool' = IF PoolIsShut THEN pool ELSE Append(pool, thread[t].text)
  /\ Return(t)
  /\ UNCHANGED <<fields, worker, audio>>

(* _on_barge_in with data = True (with False it does nothing). *)
TakeBargeIn(t) ==
  /\ CanTake(t)
  /\ thread' = [thread EXCEPT ![t] = [Free EXCEPT !.step = "read_task"]]
  /\ UNCHANGED <<fields, pool, worker, audio>>

TakeEstop(t, active) ==
  /\ CanTake(t)
  /\ thread' = [thread EXCEPT ![t] = [Free EXCEPT !.step = "estop", !.active = active]]
  /\ UNCHANGED <<fields, pool, worker, audio>>

(* _on_estop_msg: the flag is written, then read to decide on the cancel.  *)
SetEstop(t) ==
  /\ At(t, "estop")
  /\ estop_active' = thread[t].active
  /\ Goto(t, "estop_read")
  /\ UNCHANGED <<inflight_task, inflight_loop, pool, worker, audio>>

ReadEstop(t) ==
  /\ At(t, "estop_read")
  /\ IF estop_active THEN Goto(t, "read_task") ELSE Return(t)
  /\ UNCHANGED <<fields, pool, worker, audio>>

(* cancel: the two fields are read one after the other ...                 *)
ReadTask(t) ==
  /\ At(t, "read_task")
  /\ thread' = [thread EXCEPT ![t].step = "read_loop", ![t].task = inflight_task]
  /\ UNCHANGED <<fields, pool, worker, audio>>

ReadLoop(t) ==
  /\ At(t, "read_loop")
  /\ IF thread[t].task = None \/ inflight_loop = None
       THEN Return(t)
       ELSE thread' = [thread EXCEPT ![t].step = "post", ![t].loop = inflight_loop]
  /\ UNCHANGED <<fields, pool, worker, audio>>

(* Mutation: the field is read again when the cancellation is posted. *)
PostCancelRereading(t) ==
  /\ At(t, "post")
  /\ worker' = IF worker.step = "await" THEN [worker EXCEPT !.doomed = TRUE] ELSE worker
  /\ Return(t)
  /\ UNCHANGED <<fields, pool, audio>>

(* ... and task.cancel is handed to the loop: it takes effect if the task  *)
(* is that loop's and still awaits the response; a task past its last      *)
(* await, a finished one and a closed loop ignore it.                      *)
PostCancel(t) ==
  /\ At(t, "post")
  /\ worker' = IF worker.step = "await" /\ worker.text = thread[t].task
                  /\ thread[t].loop = thread[t].task
                 THEN [worker EXCEPT !.doomed = TRUE] ELSE worker
  /\ Return(t)
  /\ UNCHANGED <<fields, pool, audio>>

(* destroy_node: cancel, ...                                               *)
Interrupt ==
  /\ Spinning
  /\ Goto(Main, "read_task")
  /\ UNCHANGED <<fields, pool, worker, audio>>

(* ... then shut the pool down, which keeps its queue; ... *)
ShutPool ==
  /\ At(Main, "shutdown")
  /\ Goto(Main, "destroy")
  /\ UNCHANGED <<fields, pool, worker, audio>>

(* ... and destroy the publisher. *)
Destroy ==
  /\ At(Main, "destroy")
  /\ Goto(Main, "closed")
  /\ UNCHANGED <<fields, pool, worker, audio>>

------------------------------------------------------------------------------
(* The worker: _synth_worker and synthesize.                               *)

WorkerAt(step) == worker.step = step
WorkerGoto(step) == worker' = [worker EXCEPT !.step = step]
OnlyWorker == UNCHANGED <<fields, pool, thread, audio>>

TakeWork ==
  /\ WorkerAt("idle") /\ pool # <<>>
  /\ worker' = [Idle EXCEPT !.step = "gate", !.text = Head(pool)]
  /\ pool' = Tail(pool)
  /\ UNCHANGED <<fields, thread, audio>>

(* The gate: E-STOP, then text and credentials. *)
Gate ==
  /\ WorkerAt("gate")
  /\ IF estop_active \/ worker.text \in Blank THEN worker' = Idle ELSE WorkerGoto("arm_task")
  /\ OnlyWorker

ArmTask ==
  /\ WorkerAt("arm_task")
  /\ inflight_task' = worker.text
  /\ WorkerGoto("arm_loop")
  /\ UNCHANGED <<estop_active, inflight_loop, pool, thread, audio>>

ArmLoop ==
  /\ WorkerAt("arm_loop")
  /\ inflight_loop' = worker.text
  /\ WorkerGoto("await")
  /\ UNCHANGED <<estop_active, inflight_task, pool, thread, audio>>

(* The request is answered with audio of n chunks, ... *)
Respond(n) ==
  /\ WorkerAt("await") /\ ~worker.doomed
  /\ worker' = [worker EXCEPT !.step = "check", !.chunks = n]
  /\ OnlyWorker

(* Mutation: an utterance that failed is queued for another attempt. *)
RequestFailsRetrying ==
  /\ WorkerAt("await") /\ ~worker.doomed
  /\ pool' = Append(pool, worker.text)
  /\ WorkerGoto("clear_task")
  /\ UNCHANGED <<fields, thread, audio>>

(* ... with an error (HTTP status, timeout, undecodable WAV), ... *)
RequestFails ==
  /\ WorkerAt("await") /\ ~worker.doomed
  /\ WorkerGoto("clear_task")
  /\ OnlyWorker

(* Mutation: the cancellation escapes and takes the worker with it. *)
CancelledKillingWorker ==
  /\ WorkerAt("await") /\ worker.doomed
  /\ WorkerGoto("dead")
  /\ OnlyWorker

(* ... or cut short by a cancellation. *)
Cancelled ==
  /\ WorkerAt("await") /\ worker.doomed
  /\ WorkerGoto("clear_task")
  /\ OnlyWorker

(* Mutation: the E-STOP is not looked at again after the round-trip. *)
NoCheck ==
  /\ WorkerAt("check")
  /\ IF worker.chunks = 0 THEN WorkerGoto("clear_task") ELSE WorkerGoto("publish")
  /\ OnlyWorker

(* E-STOP again, after the round-trip; no samples, nothing to publish. *)
Check ==
  /\ WorkerAt("check")
  /\ IF estop_active \/ worker.chunks = 0 THEN WorkerGoto("clear_task") ELSE WorkerGoto("publish")
  /\ OnlyWorker

(* _publish: one chunk of its loop. *)
PublishChunk ==
  /\ WorkerAt("publish") /\ ~PublisherIsGone
  /\ audio' = Append(audio, [text |-> worker.text, chunk |-> worker.sent + 1, chunks |-> worker.chunks])
  /\ worker' = [worker EXCEPT !.sent = @ + 1,
                   !.step = IF worker.sent + 1 = worker.chunks THEN "clear_task" ELSE "publish"]
  /\ UNCHANGED <<fields, pool, thread>>

(* A destroyed publisher raises. *)
PublishFails ==
  /\ WorkerAt("publish") /\ PublisherIsGone
  /\ WorkerGoto("clear_task")
  /\ OnlyWorker

(* The finally block; the loop is closed and the worker free again.        *)
ClearTask ==
  /\ WorkerAt("clear_task")
  /\ inflight_task' = None
  /\ WorkerGoto("clear_loop")
  /\ UNCHANGED <<estop_active, inflight_loop, pool, thread, audio>>

(* Mutation: the loop is left behind. *)
LeaveLoop ==
  /\ WorkerAt("clear_loop")
  /\ worker' = Idle
  /\ OnlyWorker

ClearLoop ==
  /\ WorkerAt("clear_loop")
  /\ inflight_loop' = None
  /\ worker' = Idle
  /\ UNCHANGED <<estop_active, inflight_task, pool, thread, audio>>

(* The pool's thread ends when the pool is shut down and its queue empty.  *)
WorkerEnds ==
  /\ WorkerAt("idle") /\ pool = <<>> /\ PoolIsShut
  /\ WorkerGoto("ended")
  /\ OnlyWorker

------------------------------------------------------------------------------
Callback(t) ==
  \/ Submit(t) \/ SetEstop(t) \/ ReadEstop(t)
  \/ ReadTask(t) \/ ReadLoop(t) \/ PostCancel(t)

Work ==
  \/ TakeWork \/ Gate \/ ArmTask \/ ArmLoop
  \/ (\E n \in ChunkCounts : Respond(n)) \/ RequestFails \/ Cancelled
  \/ Check \/ PublishChunk \/ PublishFails
  \/ ClearTask \/ ClearLoop \/ WorkerEnds
=============================================================================
