------------------------------ MODULE TtsProofs ------------------------------
(***************************************************************************)
(* Proofs about tts_node, for any executor threads, any utterances and any *)
(* numbers of chunks.                                                      *)
(***************************************************************************)
EXTENDS TtsHistory, TLAPS

(* What the worker holds at its steps, and what the pool may be handed.    *)
Busy == worker.step \notin {"idle", "ended"}
BeforeAudio == worker.step \in {"gate", "arm_task", "arm_loop", "await", "check"}

Shape ==
  /\ Busy => worker.text \in Utterances
  /\ worker.step \in {"check", "publish"} => worker.chunks \in ChunkCounts
  /\ BeforeAudio => worker.sent = 0
  /\ WorkerAt("publish") => worker.sent < worker.chunks
  /\ \A t \in Actors : At(t, "say") => t \in Threads /\ thread[t].text \in Utterances

TInv == TypeOK /\ Shape

------------------------------------------------------------------------------
(* The states of the worker and of the threads.                            *)

LEMMA Constants ==
  /\ None \notin Utterances /\ None \in Texts
  /\ Utterances \subseteq Texts /\ ChunkCounts \subseteq Nat /\ Main \in Actors /\ Main \notin Threads
  BY UtterancesAssumption, ChunksAssumption, MainAssumption
     DEF UtterancesAssumption, ChunksAssumption, MainAssumption, None, Texts, Actors

LEMMA WorkerFields ==
  ASSUME NEW w \in WorkerStates
  PROVE  /\ w.step \in WorkerSteps /\ w.text \in Texts /\ w.doomed \in BOOLEAN
         /\ w.chunks \in Nat /\ w.sent \in Nat
<1>1. w.chunks \in ChunkCounts \cup {0}
  BY DEF WorkerStates
<1>2. ChunkCounts \cup {0} \subseteq Nat
  BY Constants
<1>. QED  BY <1>1, <1>2 DEF WorkerStates

LEMMA IdleType ==
  /\ Idle \in WorkerStates /\ Idle.step = "idle" /\ Idle.text = None /\ Idle.sent = 0
  /\ \A text \in Utterances :
       LET w == [Idle EXCEPT !.step = "gate", !.text = text] IN
         /\ w \in WorkerStates /\ w.step = "gate" /\ w.text = text /\ w.sent = 0 /\ w.doomed = FALSE
  BY Constants DEF Idle, WorkerStates, WorkerSteps

LEMMA WorkerMoves ==
  ASSUME NEW w \in WorkerStates, NEW step \in WorkerSteps
  PROVE  LET v == [w EXCEPT !.step = step] IN
           /\ v \in WorkerStates /\ v.step = step /\ v.text = w.text /\ v.doomed = w.doomed
           /\ v.chunks = w.chunks /\ v.sent = w.sent
  BY DEF WorkerStates

LEMMA FreeType ==
  /\ Free \in Activities /\ Free.step = "free"
  /\ \A step \in {"say", "estop", "read_task", "shutdown"}, text \in Texts, active \in BOOLEAN :
       /\ [Free EXCEPT !.step = step] \in Activities
       /\ [Free EXCEPT !.step = step].step = step
       /\ [Free EXCEPT !.step = step, !.text = text] \in Activities
       /\ [Free EXCEPT !.step = step, !.text = text].step = step
       /\ [Free EXCEPT !.step = step, !.text = text].text = text
       /\ [Free EXCEPT !.step = step, !.active = active] \in Activities
       /\ [Free EXCEPT !.step = step, !.active = active].step = step
  BY Constants DEF Free, Activities

(* Who took a step: a thread, of which the others see nothing but the      *)
(* fields, the queue and, when it posts, the worker's doom; or the worker. *)
Others(t) == \A s \in Actors : s # t => thread'[s] = thread[s]

(* The kinds of step a thread takes, with what it becomes.                 *)
LEMMA TakesSay ==
  ASSUME TInv, NEW t \in Threads, Say(t)
  PROVE  /\ UNCHANGED <<fields, pool, worker, audio, history>> /\ Spinning
         /\ thread' \in [Actors -> Activities] /\ Others(t)
         /\ thread'[t].step = "say"
         /\ thread'[t].text \in Utterances \ Asked
<1>1. PICK text \in Utterances \ Asked : TakeSay(t, text) /\ UNCHANGED history
  BY DEF Say
<1>2. [Free EXCEPT !.step = "say", !.text = text] \in Activities
      /\ [Free EXCEPT !.step = "say", !.text = text].step = "say"
      /\ [Free EXCEPT !.step = "say", !.text = text].text = text
  BY <1>1, Constants DEF Free, Activities
<1>. QED  BY <1>1, <1>2 DEF TakeSay, CanTake, TInv, TypeOK, Others, Actors

LEMMA Returning ==
  ASSUME TInv, NEW t \in Actors, Return(t)
  PROVE  /\ thread' \in [Actors -> Activities] /\ Others(t)
         /\ thread'[t].step = IF t = Main THEN "shutdown" ELSE "free"
<1>1. [Free EXCEPT !.step = "shutdown"] \in Activities /\ [Free EXCEPT !.step = "shutdown"].step = "shutdown"
  BY FreeType DEF Free, Activities
<1>. QED  BY <1>1, FreeType DEF Return, TInv, TypeOK, Others

LEMMA Going ==
  ASSUME TInv, NEW t \in Actors,
         NEW step \in {"estop_read", "read_task", "read_loop", "post", "destroy", "closed"},
         Goto(t, step)
  PROVE  /\ thread' \in [Actors -> Activities] /\ Others(t)
         /\ thread'[t].step = step
<1>1. [thread[t] EXCEPT !.step = step] \in Activities /\ [thread[t] EXCEPT !.step = step].step = step
  <2>1. thread[t] \in Activities
    BY DEF TInv, TypeOK
  <2>. QED  BY <2>1 DEF Activities
<1>. QED  BY <1>1 DEF Goto, TInv, TypeOK, Others

Takes(t) == t \in Threads /\ (Say(t) \/ BargeIn(t) \/ Estop(t))
Ends == HInterrupt \/ HClose
ThreadStep(t) == Takes(t) \/ HCallback(t) \/ (t = Main /\ Ends)

LEMMA StepCases ==
  ASSUME HNext
  PROVE  (\E t \in Actors : ThreadStep(t)) \/ HWork
  BY Constants DEF HNext, ThreadStep, Takes, Ends, Actors

(* Only Say makes a thread about to submit.                                *)
LEMMA ThreadType ==
  ASSUME TInv, NEW t \in Actors, ThreadStep(t)
  PROVE  /\ thread' \in [Actors -> Activities] /\ Others(t)
         /\ thread'[t].step = "say" => t \in Threads /\ Say(t)
<1>. USE DEF TInv, TypeOK, Others
<1>1. CASE t \in Threads /\ Say(t)
  BY <1>1, TakesSay
<1>2. CASE t \in Threads /\ (BargeIn(t) \/ Estop(t))
  <2>1. [Free EXCEPT !.step = "read_task"] \in Activities
        /\ [Free EXCEPT !.step = "read_task"].step = "read_task"
    BY FreeType DEF Free, Activities
  <2>2. ASSUME NEW active \in BOOLEAN
        PROVE  [Free EXCEPT !.step = "estop", !.active = active] \in Activities
               /\ [Free EXCEPT !.step = "estop", !.active = active].step = "estop"
    BY Constants DEF Free, Activities
  <2>. QED  BY <1>2, <2>1, <2>2 DEF BargeIn, TakeBargeIn, Estop, TakeEstop
<1>3. CASE HCallback(t)
  <2>1. CASE HSubmit(t)
    BY <2>1, Returning DEF HSubmit, Submit
  <2>2. CASE HSetEstop(t)
    BY <2>2, Going DEF HSetEstop, SetEstop
  <2>3. CASE HReadEstop(t)
    BY <2>3, Going, Returning DEF HReadEstop, ReadEstop
  <2>4. CASE HReadTask(t)
    <3>1. thread[t] \in Activities /\ inflight_task \in Texts
      OBVIOUS
    <3>2. [thread[t] EXCEPT !.step = "read_loop", !.task = inflight_task] \in Activities
          /\ [thread[t] EXCEPT !.step = "read_loop", !.task = inflight_task].step = "read_loop"
      BY <3>1 DEF Activities
    <3>. QED  BY <2>4, <3>2 DEF HReadTask, ReadTask
  <2>5. CASE HReadLoop(t)
    <3>1. thread[t] \in Activities /\ inflight_loop \in Texts
      OBVIOUS
    <3>2. [thread[t] EXCEPT !.step = "post", !.loop = inflight_loop] \in Activities
          /\ [thread[t] EXCEPT !.step = "post", !.loop = inflight_loop].step = "post"
      BY <3>1 DEF Activities
    <3>. QED  BY <2>5, <3>2, Returning DEF HReadLoop, ReadLoop
  <2>6. CASE HPostCancel(t)
    BY <2>6, Returning DEF HPostCancel, PostCancel
  <2>. QED  BY <1>3, <2>1, <2>2, <2>3, <2>4, <2>5, <2>6 DEF HCallback
<1>4. CASE t = Main /\ Ends
  BY <1>4, Going, Constants DEF Ends, HInterrupt, Interrupt, HClose, ShutPool, Destroy
<1>. QED  BY <1>1, <1>2, <1>3, <1>4 DEF ThreadStep, Takes

(* A thread leaves the fields of the synthesis and the audio alone, and at *)
(* most dooms the worker.                                                  *)
LEMMA ThreadFrame ==
  ASSUME TInv, NEW t \in Actors, ThreadStep(t)
  PROVE  /\ UNCHANGED <<inflight_task, inflight_loop, audio>>
         /\ worker' \in WorkerStates
         /\ worker'.step = worker.step /\ worker'.text = worker.text
         /\ worker'.chunks = worker.chunks /\ worker'.sent = worker.sent
         /\ worker' # worker => HPostCancel(t) /\ worker.step = "await" /\ worker.text = thread[t].task
<1>. USE DEF fields
<1>1. worker \in WorkerStates
  BY DEF TInv, TypeOK
<1>2. CASE HPostCancel(t)
  <2>1. LET v == [worker EXCEPT !.doomed = TRUE] IN
          /\ v \in WorkerStates /\ v.step = worker.step /\ v.text = worker.text
          /\ v.chunks = worker.chunks /\ v.sent = worker.sent
    BY <1>1 DEF WorkerStates
  <2>. QED  BY <1>1, <1>2, <2>1 DEF HPostCancel, PostCancel
<1>3. CASE ~HPostCancel(t)
  <2>1. UNCHANGED <<inflight_task, inflight_loop, audio, worker>>
    <3>1. CASE Takes(t)
      BY <3>1 DEF Takes, Say, TakeSay, BargeIn, TakeBargeIn, Estop, TakeEstop
    <3>2. CASE HCallback(t)
      BY <1>3, <3>2 DEF HCallback, HSubmit, Submit, HSetEstop, SetEstop, HReadEstop, ReadEstop,
                        HReadTask, ReadTask, HReadLoop, ReadLoop
    <3>3. CASE t = Main /\ Ends
      BY <3>3 DEF Ends, HInterrupt, Interrupt, HClose, ShutPool, Destroy
    <3>. QED  BY <3>1, <3>2, <3>3 DEF ThreadStep
  <2>. QED  BY <1>1, <2>1
<1>. QED  BY <1>2, <1>3

------------------------------------------------------------------------------
(* The type invariant.                                                     *)

LEMMA TypeInit == HInit => TInv
<1>1. \A t \in Actors : Free.step # "say"
  BY FreeType
<1>2. ASSUME HInit PROVE TypeOK
  <2>1. thread \in [Actors -> Activities]
    BY <1>2, FreeType DEF HInit, Init
  <2>2. worker \in WorkerStates
    BY <1>2, IdleType DEF HInit, Init
  <2>3. pool \in Seq(Utterances) /\ audio \in Seq(Chunks)
    BY <1>2 DEF HInit, Init
  <2>. QED  BY <1>2, <2>1, <2>2, <2>3, Constants DEF HInit, Init, TypeOK
<1>3. HInit => Shape
  BY <1>1, IdleType DEF HInit, Init, Shape, Busy, BeforeAudio, WorkerAt, At
<1>. QED  BY <1>2, <1>3 DEF TInv

LEMMA TypeOfThreads ==
  ASSUME TInv, NEW t \in Actors, ThreadStep(t)
  PROVE  TInv'
<1>1. estop_active' \in BOOLEAN
  <2>1. CASE HSetEstop(t)
    <3>1. thread[t].active \in BOOLEAN
      BY DEF TInv, TypeOK, Activities
    <3>. QED  BY <2>1, <3>1 DEF HSetEstop, SetEstop
  <2>2. CASE ~HSetEstop(t)
    BY <2>2 DEF ThreadStep, Takes, Ends, Say, TakeSay, BargeIn, TakeBargeIn, Estop, TakeEstop,
                HCallback, HSubmit, Submit, HReadEstop, ReadEstop, HReadTask, ReadTask, HReadLoop, ReadLoop,
                HPostCancel, PostCancel, HInterrupt, Interrupt, HClose, ShutPool, Destroy, fields, TInv, TypeOK
  <2>. QED  BY <2>1, <2>2
<1>2. pool' \in Seq(Utterances)
  <2>1. CASE HSubmit(t)
    <3>1. thread[t].text \in Utterances
      BY <2>1 DEF HSubmit, Submit, TInv, Shape
    <3>. QED  BY <2>1, <3>1 DEF HSubmit, Submit, TInv, TypeOK
  <2>2. CASE ~HSubmit(t)
    BY <2>2 DEF ThreadStep, Takes, Ends, Say, TakeSay, BargeIn, TakeBargeIn, Estop, TakeEstop,
                HCallback, HSetEstop, SetEstop, HReadEstop, ReadEstop, HReadTask, ReadTask, HReadLoop, ReadLoop,
                HPostCancel, PostCancel, HInterrupt, Interrupt, HClose, ShutPool, Destroy, TInv, TypeOK
  <2>. QED  BY <2>1, <2>2
<1>3. TypeOK'
  BY <1>1, <1>2, ThreadType, ThreadFrame DEF TInv, TypeOK
<1>4. ASSUME NEW s \in Actors, thread'[s].step = "say"
      PROVE  s \in Threads /\ thread'[s].text \in Utterances
  <2>1. CASE s = t
    BY <1>4, <2>1, ThreadType, TakesSay
  <2>2. CASE s # t
    BY <1>4, <2>2, ThreadType DEF Others, TInv, Shape, At
  <2>. QED  BY <2>1, <2>2
<1>5. Shape'
  BY <1>4, ThreadFrame DEF TInv, Shape, Busy, BeforeAudio, WorkerAt, At
<1>. QED  BY <1>3, <1>5 DEF TInv

LEMMA TypeOfWork ==
  ASSUME TInv, Work
  PROVE  TInv'
<1>. USE DEF TInv, TypeOK, fields, OnlyWorker
<1>1. worker \in WorkerStates /\ UNCHANGED <<estop_active, thread>>
  BY DEF Work, TakeWork, Gate, ArmTask, ArmLoop, Respond, RequestFails, Cancelled, Check,
         PublishChunk, PublishFails, ClearTask, ClearLoop, WorkerEnds
<1>2. \A s \in Actors : At(s, "say")' => s \in Threads /\ thread'[s].text \in Utterances
  BY <1>1 DEF At, Shape
<1>. DEFINE ShapeOfWorker ==
       /\ Busy => worker.text \in Utterances
       /\ worker.step \in {"check", "publish"} => worker.chunks \in ChunkCounts
       /\ BeforeAudio => worker.sent = 0
       /\ WorkerAt("publish") => worker.sent < worker.chunks
<1>. USE DEF Busy, BeforeAudio, WorkerAt
<1>3. SUFFICES TypeOK' /\ ShapeOfWorker'
  BY <1>2 DEF Shape
<1>4. ShapeOfWorker
  BY DEF Shape
<1>5. CASE TakeWork
  <2>1. Head(pool) \in Utterances /\ Tail(pool) \in Seq(Utterances)
    BY <1>5 DEF TakeWork
  <2>. QED  BY <1>5, <2>1, IdleType DEF TakeWork
<1>6. ASSUME NEW step \in WorkerSteps \ {"publish", "check", "gate", "arm_task", "arm_loop", "await"},
             WorkerGoto(step), UNCHANGED <<pool, audio>>,
             Busy \/ step = "ended", inflight_task' \in Texts, inflight_loop' \in Texts
      PROVE  TypeOK' /\ ShapeOfWorker'
  <2>1. worker' \in WorkerStates /\ worker'.step = step /\ worker'.text = worker.text
    BY <1>1, <1>6, WorkerMoves DEF WorkerGoto
  <2>. QED  BY <1>1, <1>4, <1>6, <2>1
<1>7. ASSUME NEW step \in {"arm_task", "arm_loop", "await"},
             WorkerGoto(step), UNCHANGED <<pool, audio>>,
             BeforeAudio, inflight_task' \in Texts, inflight_loop' \in Texts
      PROVE  TypeOK' /\ ShapeOfWorker'
  <2>1. worker' \in WorkerStates /\ worker'.step = step /\ worker'.text = worker.text /\ worker'.sent = worker.sent
    <3>1. step \in WorkerSteps
      BY DEF WorkerSteps
    <3>. QED  BY <1>1, <1>7, <3>1, WorkerMoves DEF WorkerGoto
  <2>. QED  BY <1>1, <1>4, <1>7, <2>1
<1>8. ASSUME worker' = Idle, UNCHANGED <<pool, audio>>, inflight_task' \in Texts, inflight_loop' \in Texts
      PROVE  TypeOK' /\ ShapeOfWorker'
  BY <1>1, <1>8, IdleType
<1>9. CASE Gate
  BY <1>7, <1>8, <1>9 DEF Gate
<1>10. CASE ArmTask \/ ArmLoop
  BY <1>1, <1>7, <1>10, WorkerFields DEF ArmTask, ArmLoop
<1>11. ASSUME NEW n \in ChunkCounts, Respond(n) PROVE TypeOK' /\ ShapeOfWorker'
  <2>1. worker' = [worker EXCEPT !.step = "check", !.chunks = n]
    BY <1>11 DEF Respond
  <2>2. worker' \in WorkerStates /\ worker'.step = "check" /\ worker'.text = worker.text
        /\ worker'.sent = worker.sent /\ worker'.chunks = n
    BY <1>1, <2>1 DEF WorkerStates, WorkerSteps
  <2>. QED  BY <1>1, <1>4, <1>11, <2>2 DEF Respond
<1>12. CASE RequestFails \/ Cancelled \/ PublishFails
  BY <1>6, <1>12 DEF RequestFails, Cancelled, PublishFails, WorkerSteps
<1>13. CASE Check
  <2>1. CASE estop_active \/ worker.chunks = 0
    BY <1>6, <1>13, <2>1 DEF Check, WorkerSteps
  <2>2. CASE ~(estop_active \/ worker.chunks = 0)
    <3>1. worker' \in WorkerStates /\ worker'.step = "publish" /\ worker'.text = worker.text
          /\ worker'.sent = worker.sent /\ worker'.chunks = worker.chunks
      <4>1. worker' = [worker EXCEPT !.step = "publish"] /\ "publish" \in WorkerSteps
        BY <1>13, <2>2 DEF Check, WorkerGoto, WorkerSteps
      <4>. QED  BY <1>1, <4>1, WorkerMoves
    <3>2. worker.chunks \in Nat
      BY <1>1, WorkerFields
    <3>. QED  BY <1>1, <1>4, <1>13, <2>2, <3>1, <3>2 DEF Check
  <2>. QED  BY <2>1, <2>2
<1>14. CASE PublishChunk
  <2>. DEFINE c == [text |-> worker.text, chunk |-> worker.sent + 1, chunks |-> worker.chunks]
              next == IF worker.sent + 1 = worker.chunks THEN "clear_task" ELSE "publish"
  <2>1. /\ audio' = Append(audio, c) /\ worker' = [worker EXCEPT !.sent = @ + 1, !.step = next]
        /\ UNCHANGED <<fields, pool, thread>>
    BY <1>14 DEF PublishChunk
  <2>2. worker.sent \in Nat /\ worker.chunks \in Nat /\ worker.sent < worker.chunks
        /\ worker.text \in Utterances /\ worker.chunks \in ChunkCounts
    BY <1>1, <1>4, <1>14, WorkerFields DEF PublishChunk
  <2>3. c \in Chunks
    BY <2>2 DEF Chunks
  <2>4. worker' \in WorkerStates /\ worker'.step = next /\ worker'.text = worker.text
        /\ worker'.sent = worker.sent + 1 /\ worker'.chunks = worker.chunks
    <3>1. next \in {"clear_task", "publish"} /\ worker.sent + 1 \in Nat
      BY <2>2
    <3>2. worker' = [worker EXCEPT !.sent = worker.sent + 1, !.step = next]
      BY <2>1
    <3>. HIDE DEF next
    <3>. QED  BY <1>1, <3>1, <3>2 DEF WorkerStates, WorkerSteps
  <2>. QED  BY <1>1, <2>1, <2>2, <2>3, <2>4
<1>15. CASE ClearTask
  BY <1>6, <1>15, Constants DEF ClearTask, WorkerSteps
<1>16. CASE ClearLoop
  BY <1>8, <1>16, Constants DEF ClearLoop
<1>17. CASE WorkerEnds
  BY <1>6, <1>17 DEF WorkerEnds, WorkerSteps
<1>. QED  BY <1>5, <1>9, <1>10, <1>11, <1>12, <1>13, <1>14, <1>15, <1>16, <1>17 DEF Work

LEMMA TypeStep == TInv /\ [HNext]_hvars => TInv'
<1>. SUFFICES ASSUME TInv, [HNext]_hvars PROVE TInv'
  OBVIOUS
<1>1. CASE HNext
  BY <1>1, StepCases, TypeOfThreads, TypeOfWork DEF HWork
<1>2. CASE UNCHANGED hvars
  BY <1>2 DEF hvars, vars, fields, TInv, TypeOK, Shape, Busy, BeforeAudio, WorkerAt, At
<1>. QED  BY <1>1, <1>2

(* Every variable of tts_node stays in its range.                          *)
THEOREM TtsTypeCorrect == HSpec => []TypeOK
<1>1. TInv => TypeOK
  BY DEF TInv
<1>. QED  BY <1>1, TypeInit, TypeStep, PTL DEF HSpec

------------------------------------------------------------------------------
(* The fields mirror the worker: each is set in a step of its own and      *)
(* cleared in one.                                                         *)
FieldsMirror ==
  /\ inflight_task = IF worker.step \in {"arm_loop", "await", "check", "publish", "clear_task"}
                       THEN worker.text ELSE None
  /\ inflight_loop = IF worker.step \in {"await", "check", "publish", "clear_task", "clear_loop"}
                       THEN worker.text ELSE None

LEMMA MirrorStep == TInv /\ FieldsMirror /\ [HNext]_hvars => FieldsMirror'
<1>. SUFFICES ASSUME TInv, FieldsMirror, [HNext]_hvars PROVE FieldsMirror'
  OBVIOUS
<1>1. ASSUME NEW t \in Actors, ThreadStep(t) PROVE FieldsMirror'
  BY <1>1, ThreadFrame DEF FieldsMirror
<1>2. CASE Work
  <2>. USE DEF FieldsMirror, WorkerAt, fields, OnlyWorker
  <2>1. worker \in WorkerStates
    BY DEF TInv, TypeOK
  <2>2. ASSUME NEW step \in WorkerSteps, WorkerGoto(step)
        PROVE  worker'.step = step /\ worker'.text = worker.text
    BY <2>1, <2>2, WorkerMoves DEF WorkerGoto
  <2>3. CASE TakeWork
    <3>1. Head(pool) \in Utterances
      BY <2>3 DEF TakeWork, TInv, TypeOK
    <3>. QED  BY <2>3, <3>1, IdleType DEF TakeWork
  <2>4. CASE Gate
    BY <2>2, <2>4, IdleType DEF Gate, WorkerSteps
  <2>5. CASE ArmTask
    BY <2>2, <2>5 DEF ArmTask, WorkerSteps
  <2>6. CASE ArmLoop
    BY <2>2, <2>6 DEF ArmLoop, WorkerSteps
  <2>7. ASSUME NEW n \in ChunkCounts, Respond(n) PROVE FieldsMirror'
    <3>1. worker'.step = "check" /\ worker'.text = worker.text
      BY <2>1, <2>7 DEF Respond, WorkerStates
    <3>. QED  BY <2>7, <3>1 DEF Respond
  <2>8. CASE RequestFails \/ Cancelled \/ PublishFails
    BY <2>2, <2>8 DEF RequestFails, Cancelled, PublishFails, WorkerSteps
  <2>9. CASE Check
    BY <2>2, <2>9 DEF Check, WorkerSteps
  <2>10. CASE PublishChunk
    <3>1. worker'.step \in {"clear_task", "publish"} /\ worker'.text = worker.text
      BY <2>1, <2>10 DEF PublishChunk, WorkerStates
    <3>. QED  BY <2>10, <3>1 DEF PublishChunk
  <2>11. CASE ClearTask
    BY <2>2, <2>11 DEF ClearTask, WorkerSteps
  <2>12. CASE ClearLoop
    BY <2>12, IdleType DEF ClearLoop
  <2>13. CASE WorkerEnds
    BY <2>2, <2>13 DEF WorkerEnds, WorkerSteps
  <2>. QED  BY <1>2, <2>3, <2>4, <2>5, <2>6, <2>7, <2>8, <2>9, <2>10, <2>11, <2>12, <2>13 DEF Work
<1>3. CASE UNCHANGED hvars
  BY <1>3 DEF hvars, vars, fields, FieldsMirror
<1>. QED  BY <1>1, <1>2, <1>3, StepCases DEF HWork

(* Between two utterances nothing is in flight.                            *)
THEOREM NothingBetween == HSpec => []NothingInFlightBetween
<1>1. HInit => FieldsMirror
  BY IdleType DEF HInit, Init, FieldsMirror
<1>2. FieldsMirror => NothingInFlightBetween
  BY DEF FieldsMirror, NothingInFlightBetween
<1>. QED  BY <1>1, <1>2, TypeInit, TypeStep, MirrorStep, PTL DEF HSpec

------------------------------------------------------------------------------
(* What sounds under E-STOP was past the check when it rose.               *)
SoundsWithLeave == WorkerAt("publish") /\ estop_active => sounding

LEMMA LeaveStep == TInv /\ SoundsWithLeave /\ [HNext]_hvars => SoundsWithLeave'
<1>. SUFFICES ASSUME TInv, SoundsWithLeave, [HNext]_hvars PROVE SoundsWithLeave'
  OBVIOUS
<1>. USE DEF SoundsWithLeave, WorkerAt
<1>1. ASSUME NEW t \in Actors, ThreadStep(t) PROVE SoundsWithLeave'
  <2>1. worker'.step = worker.step
    BY <1>1, ThreadFrame
  <2>2. CASE HSetEstop(t)
    BY <2>1, <2>2 DEF HSetEstop, SetEstop, Rises
  <2>3. CASE ~HSetEstop(t)
    <3>1. UNCHANGED <<estop_active, sounding>>
      BY <1>1, <2>3
         DEF ThreadStep, Takes, Ends, Say, TakeSay, BargeIn, TakeBargeIn, Estop, TakeEstop,
             HCallback, HSubmit, Submit, HReadEstop, ReadEstop, HReadTask, ReadTask, HReadLoop, ReadLoop,
             HPostCancel, PostCancel, Returns, HInterrupt, Interrupt, HClose, ShutPool, Destroy, fields, history
    <3>. QED  BY <2>1, <3>1
  <2>. QED  BY <2>2, <2>3
<1>2. CASE HWork
  <2>1. worker \in WorkerStates /\ (worker'.step # "idle" => sounding' = sounding)
    BY <1>2 DEF TInv, TypeOK, HWork
  <2>2. estop_active' = estop_active
    BY <1>2 DEF HWork, Work, TakeWork, Gate, ArmTask, ArmLoop, Respond, RequestFails, Cancelled, Check,
                PublishChunk, PublishFails, ClearTask, ClearLoop, WorkerEnds, OnlyWorker, fields
  <2>3. worker'.step = "publish" => worker.step = "publish" \/ ~estop_active
    <3>1. ASSUME NEW step \in WorkerSteps, WorkerGoto(step) PROVE worker'.step = step
      BY <2>1, <3>1, WorkerMoves DEF WorkerGoto
    <3>2. CASE TakeWork
      <4>1. Head(pool) \in Utterances
        BY <3>2 DEF TakeWork, TInv, TypeOK
      <4>. QED  BY <3>2, <4>1, IdleType DEF TakeWork
    <3>3. CASE Gate \/ ClearLoop
      BY <3>1, <3>3, IdleType DEF Gate, ClearLoop, WorkerSteps
    <3>4. CASE ArmTask \/ ArmLoop \/ RequestFails \/ Cancelled \/ PublishFails \/ ClearTask \/ WorkerEnds
      BY <3>1, <3>4 DEF ArmTask, ArmLoop, RequestFails, Cancelled, PublishFails, ClearTask, WorkerEnds, WorkerSteps
    <3>5. ASSUME NEW n \in ChunkCounts, Respond(n) PROVE worker'.step = "check"
      BY <2>1, <3>5 DEF Respond, WorkerStates
    <3>6. CASE Check
      BY <3>1, <3>6 DEF Check, WorkerSteps
    <3>7. CASE PublishChunk
      BY <3>7 DEF PublishChunk
    <3>. QED  BY <1>2, <3>2, <3>3, <3>4, <3>5, <3>6, <3>7 DEF HWork, Work
  <2>. QED  BY <2>1, <2>2, <2>3
<1>3. CASE UNCHANGED hvars
  BY <1>3 DEF hvars, vars, fields, history
<1>. QED  BY <1>1, <1>2, <1>3, StepCases

(* Under E-STOP no utterance is heard but the one that was being emitted.  *)
THEOREM SilentUnderEstop == HSpec => EstopLetsOutOnlyOne
<1>1. HInit => SoundsWithLeave
  BY DEF HInit, Init, SoundsWithLeave
<1>2. SoundsWithLeave => [PublishChunk /\ estop_active => sounding]_hvars
  BY DEF SoundsWithLeave, PublishChunk
<1>. QED  BY <1>1, <1>2, TypeInit, TypeStep, LeaveStep, PTL DEF HSpec, EstopLetsOutOnlyOne

------------------------------------------------------------------------------
(* The pool holds the end of what was submitted, and the worker the one    *)
(* before that; nothing is submitted twice.                                *)
Served == Len(submitted) - Len(pool)

Backlog ==
  /\ submitted \in Seq(Utterances)
  /\ Len(pool) <= Len(submitted)
  /\ \A j \in DOMAIN pool : pool[j] = submitted[Served + j]
  /\ Busy => Served >= 1 /\ worker.text = submitted[Served]

AskedOnce ==
  /\ \A i, j \in DOMAIN submitted : submitted[i] = submitted[j] => i = j
  /\ \A t \in Threads : At(t, "say") => thread[t].text \notin Submitted
  /\ \A s, t \in Threads : At(s, "say") /\ At(t, "say") /\ thread[s].text = thread[t].text => s = t

LEMMA BacklogInit == HInit => Backlog /\ AskedOnce
<1>. SUFFICES ASSUME HInit PROVE Backlog /\ AskedOnce
  OBVIOUS
<1>1. /\ pool = <<>> /\ submitted = <<>> /\ worker.step = "idle"
      /\ \A t \in Threads : thread[t].step = "free"
  BY IdleType, FreeType DEF HInit, Init, Actors
<1>2. DOMAIN pool = {} /\ DOMAIN submitted = {} /\ Len(pool) = 0 /\ Len(submitted) = 0
      /\ submitted \in Seq(Utterances)
  BY <1>1
<1>. QED  BY <1>1, <1>2 DEF Backlog, AskedOnce, Busy, At

LEMMA SubmitCases ==
  ASSUME TInv, NEW t \in Actors, ThreadStep(t)
  PROVE  \/ UNCHANGED <<pool, submitted>>
         \/ /\ At(t, "say") /\ t \in Threads /\ thread[t].text \in Utterances /\ thread'[t].step # "say"
            /\ pool' = Append(pool, thread[t].text) /\ submitted' = Append(submitted, thread[t].text)
<1>1. CASE HSubmit(t)
  <2>1. At(t, "say") /\ t \in Threads /\ thread[t].text \in Utterances
    BY <1>1 DEF HSubmit, Submit, TInv, Shape
  <2>2. thread'[t].step # "say"
    BY <1>1, Returning DEF HSubmit, Submit
  <2>. QED  BY <1>1, <2>1, <2>2 DEF HSubmit, Submit
<1>2. CASE ~HSubmit(t)
  BY <1>2 DEF ThreadStep, Takes, Ends, Say, TakeSay, BargeIn, TakeBargeIn, Estop, TakeEstop,
              HCallback, HSetEstop, SetEstop, HReadEstop, ReadEstop, HReadTask, ReadTask, HReadLoop, ReadLoop,
              HPostCancel, PostCancel, Returns, HInterrupt, Interrupt, HClose, ShutPool, Destroy, history
<1>. QED  BY <1>1, <1>2

(* A step of the worker that does not take work keeps its utterance or     *)
(* ends with it.                                                           *)
LEMMA WorkCases ==
  ASSUME TInv, Work
  PROVE  \/ TakeWork
         \/ pool' = pool /\ worker'.step \in {"idle", "ended"}
         \/ pool' = pool /\ Busy /\ worker'.text = worker.text
<1>. USE DEF WorkerAt, fields, OnlyWorker, Busy
<1>1. worker \in WorkerStates
  BY DEF TInv, TypeOK
<1>2. ASSUME NEW step \in WorkerSteps, WorkerGoto(step)
      PROVE  worker'.step = step /\ worker'.text = worker.text
  BY <1>1, <1>2, WorkerMoves DEF WorkerGoto
<1>3. CASE Gate \/ Check \/ ClearLoop \/ WorkerEnds
  BY <1>2, <1>3, IdleType DEF Gate, Check, ClearLoop, WorkerEnds, WorkerSteps
<1>4. CASE ArmTask \/ ArmLoop \/ RequestFails \/ Cancelled \/ PublishFails \/ ClearTask
  BY <1>2, <1>4 DEF ArmTask, ArmLoop, RequestFails, Cancelled, PublishFails, ClearTask, WorkerSteps
<1>5. ASSUME NEW n \in ChunkCounts, Respond(n) PROVE pool' = pool /\ Busy /\ worker'.text = worker.text
  BY <1>1, <1>5 DEF Respond, WorkerStates
<1>6. CASE PublishChunk
  BY <1>1, <1>6 DEF PublishChunk, WorkerStates
<1>. QED  BY <1>3, <1>4, <1>5, <1>6 DEF Work

LEMMA BacklogStep == TInv /\ Backlog /\ [HNext]_hvars => Backlog'
<1>. SUFFICES ASSUME TInv, Backlog, [HNext]_hvars PROVE Backlog'
  OBVIOUS
<1>0. /\ submitted \in Seq(Utterances) /\ pool \in Seq(Utterances)
      /\ Len(pool) \in Nat /\ Len(submitted) \in Nat /\ Len(pool) <= Len(submitted)
      /\ Served \in Nat /\ Served <= Len(submitted)
  BY DEF Backlog, TInv, TypeOK, Served
<1>1. ASSUME NEW t \in Actors, ThreadStep(t) PROVE Backlog'
  <2>1. worker'.step = worker.step /\ worker'.text = worker.text
    BY <1>1, ThreadFrame
  <2>2. CASE UNCHANGED <<pool, submitted>>
    BY <2>1, <2>2 DEF Backlog, Busy, Served
  <2>3. ASSUME NEW x \in Utterances, pool' = Append(pool, x), submitted' = Append(submitted, x)
        PROVE  Backlog'
    <3>1. /\ submitted' \in Seq(Utterances) /\ pool' \in Seq(Utterances)
          /\ Len(pool') = Len(pool) + 1 /\ Len(submitted') = Len(submitted) + 1 /\ Served' = Served
      BY <1>0, <2>3 DEF Served
    <3>2. ASSUME NEW j \in DOMAIN pool' PROVE pool'[j] = submitted'[Served' + j]
      <4>1. CASE j = Len(pool) + 1
        <5>1. Served + j = Len(submitted) + 1
          BY <1>0, <4>1 DEF Served
        <5>2. pool'[j] = x /\ submitted'[Len(submitted) + 1] = x
          BY <1>0, <2>3, <4>1
        <5>. QED  BY <3>1, <5>1, <5>2
      <4>2. CASE j # Len(pool) + 1
        <5>1. j \in DOMAIN pool /\ Served + j \in 1..Len(submitted)
          BY <1>0, <2>3, <4>2 DEF Served
        <5>2. pool'[j] = pool[j] /\ submitted'[Served + j] = submitted[Served + j]
          BY <1>0, <2>3, <5>1
        <5>. QED  BY <3>1, <5>1, <5>2 DEF Backlog
      <4>. QED  BY <4>1, <4>2
    <3>3. Busy' => Served' >= 1 /\ worker'.text = submitted'[Served']
      <4>1. Busy => Served \in 1..Len(submitted) /\ worker.text = submitted[Served]
        BY <1>0 DEF Backlog
      <4>2. Busy => submitted'[Served] = submitted[Served]
        BY <1>0, <2>3, <4>1
      <4>. QED  BY <2>1, <3>1, <4>1, <4>2 DEF Busy
    <3>. QED  BY <1>0, <3>1, <3>2, <3>3 DEF Backlog
  <2>. QED  BY <1>1, <2>2, <2>3, SubmitCases
<1>2. CASE HWork
  <2>1. submitted' = submitted /\ Work
    BY <1>2 DEF HWork
  <2>2. CASE TakeWork
    <3>1. /\ Head(pool) = pool[1] /\ pool' = Tail(pool) /\ Len(pool') = Len(pool) - 1
          /\ Head(pool) \in Utterances /\ 1 \in DOMAIN pool /\ pool' \in Seq(Utterances)
          /\ \A j \in DOMAIN pool' : j + 1 \in DOMAIN pool /\ pool'[j] = pool[j + 1]
      BY <1>0, <2>2 DEF TakeWork
    <3>2. worker'.text = Head(pool)
      BY <2>2, <3>1, IdleType DEF TakeWork
    <3>3. Served' = Served + 1
      BY <1>0, <2>1, <3>1 DEF Served
    <3>4. worker'.text = submitted'[Served']
      BY <2>1, <3>1, <3>2, <3>3 DEF Backlog
    <3>5. ASSUME NEW j \in DOMAIN pool' PROVE pool'[j] = submitted'[Served' + j]
      <4>1. Served' + j = Served + (j + 1)
        BY <1>0, <3>1, <3>3
      <4>. QED  BY <2>1, <3>1, <4>1 DEF Backlog
    <3>. QED  BY <1>0, <2>1, <3>1, <3>3, <3>4, <3>5 DEF Backlog
  <2>3. CASE pool' = pool /\ (worker'.step \in {"idle", "ended"} \/ (Busy /\ worker'.text = worker.text))
    BY <2>1, <2>3 DEF Backlog, Busy, Served
  <2>. QED  BY <2>1, <2>2, <2>3, WorkCases
<1>3. CASE UNCHANGED hvars
  BY <1>3 DEF hvars, vars, history, Backlog, Busy, Served
<1>. QED  BY <1>1, <1>2, <1>3, StepCases

LEMMA OnceStep == TInv /\ Backlog /\ AskedOnce /\ [HNext]_hvars => AskedOnce'
<1>. SUFFICES ASSUME TInv, Backlog, AskedOnce, [HNext]_hvars PROVE AskedOnce'
  OBVIOUS
<1>0. submitted \in Seq(Utterances) /\ Threads \subseteq Actors
  BY DEF Backlog, Actors
<1>1. ASSUME NEW t \in Actors, ThreadStep(t) PROVE AskedOnce'
  <2>1. /\ Others(t)
        /\ thread'[t].step = "say" => t \in Threads /\ Say(t)
    BY <1>1, ThreadType
  <2>3. CASE t \in Threads /\ Say(t)
    <3>1. submitted' = submitted /\ thread'[t].text \in Utterances \ Asked
      BY <2>3, TakesSay DEF history
    <3>2. thread'[t].text \notin Submitted
          /\ \A s \in Threads : At(s, "say") => thread'[t].text # thread[s].text
      BY <3>1 DEF Asked
    <3>. QED  BY <1>0, <2>1, <2>3, <3>1, <3>2 DEF AskedOnce, Submitted, Others, At
  <2>4. CASE /\ At(t, "say") /\ t \in Threads /\ thread[t].text \in Utterances /\ thread'[t].step # "say"
             /\ submitted' = Append(submitted, thread[t].text)
    <3>1. /\ DOMAIN submitted' = DOMAIN submitted \cup {Len(submitted) + 1}
          /\ Len(submitted) + 1 \notin DOMAIN submitted
          /\ submitted'[Len(submitted) + 1] = thread[t].text
          /\ \A i \in DOMAIN submitted : submitted'[i] = submitted[i]
      BY <1>0, <2>4
    <3>2. Submitted' = Submitted \cup {thread[t].text}
      BY <3>1 DEF Submitted
    <3>3. \A i, j \in DOMAIN submitted' : submitted'[i] = submitted'[j] => i = j
      BY <2>4, <3>1 DEF AskedOnce, Submitted
    <3>4. ASSUME NEW s \in Threads, At(s, "say")' PROVE thread'[s].text \notin Submitted'
      BY <1>0, <2>1, <2>4, <3>2, <3>4 DEF AskedOnce, Others, At
    <3>. QED  BY <1>0, <2>1, <2>4, <3>3, <3>4 DEF AskedOnce, Others, At
  <2>5. CASE UNCHANGED <<pool, submitted>> /\ ~(t \in Threads /\ Say(t))
    BY <1>0, <2>1, <2>5 DEF AskedOnce, Submitted, Others, At
  <2>. QED  BY <1>1, <2>3, <2>4, <2>5, SubmitCases
<1>2. CASE HWork
  <2>1. UNCHANGED <<submitted, thread>>
    BY <1>2 DEF HWork, Work, TakeWork, Gate, ArmTask, ArmLoop, Respond, RequestFails, Cancelled, Check,
                PublishChunk, PublishFails, ClearTask, ClearLoop, WorkerEnds, OnlyWorker
  <2>. QED  BY <2>1 DEF AskedOnce, Submitted, At
<1>3. CASE UNCHANGED hvars
  BY <1>3 DEF hvars, vars, history, AskedOnce, Submitted, At
<1>. QED  BY <1>1, <1>2, <1>3, StepCases

------------------------------------------------------------------------------
(* A cancellation is for an utterance it could have known.                 *)
KnownTask ==
  /\ known \in [Actors -> SUBSET Utterances]
  /\ \A t \in Actors : thread[t].step \in {"read_loop", "post"} => thread[t].task \in known[t] \cup {None}

LEMMA KnownStep == TInv /\ FieldsMirror /\ Backlog /\ KnownTask /\ [HNext]_hvars => KnownTask'
<1>. SUFFICES ASSUME TInv, FieldsMirror, Backlog, KnownTask, [HNext]_hvars PROVE KnownTask'
  OBVIOUS
<1>1. inflight_task \in Submitted \cup {None} /\ Submitted \subseteq Utterances
  <2>1. Busy => worker.text \in Submitted
    BY DEF Backlog, Served, TInv, TypeOK, Submitted
  <2>. QED  BY <2>1 DEF FieldsMirror, Busy, Backlog, Submitted
<1>2. ASSUME NEW t \in Actors, ThreadStep(t) PROVE KnownTask'
  <2>1. Others(t) /\ thread' \in [Actors -> Activities]
    BY <1>2, ThreadType
  <2>2. CASE HReadTask(t)
    <3>1. thread[t] \in Activities
      BY DEF TInv, TypeOK
    <3>2. thread'[t].task = inflight_task
      BY <2>2, <3>1 DEF HReadTask, ReadTask, TInv, TypeOK, Activities
    <3>3. known' = [known EXCEPT ![t] = Submitted]
      BY <2>2 DEF HReadTask
    <3>. QED  BY <1>1, <2>1, <3>2, <3>3 DEF KnownTask, Others
  <2>3. CASE HReadLoop(t) \/ HPostCancel(t)
    <3>1. \/ thread'[t].step \in {"free", "shutdown"}
          \/ thread'[t].task = thread[t].task /\ thread[t].step = "read_loop" /\ thread'[t].step = "post"
      <4>1. CASE HPostCancel(t)
        BY <4>1, Returning DEF HPostCancel, PostCancel
      <4>2. CASE HReadLoop(t) /\ Return(t)
        BY <4>2, Returning
      <4>3. CASE HReadLoop(t) /\ ~Return(t)
        BY <4>3 DEF HReadLoop, ReadLoop, At, TInv, TypeOK, Activities
      <4>. QED  BY <2>3, <4>1, <4>2, <4>3
    <3>2. known' = IF thread'[t].step \in {"free", "shutdown"} THEN [known EXCEPT ![t] = {}] ELSE known
      BY <2>3 DEF HReadLoop, HPostCancel, Returns
    <3>. QED  BY <2>1, <3>1, <3>2 DEF KnownTask, Others
  <2>4. CASE ~HReadTask(t) /\ ~HReadLoop(t) /\ ~HPostCancel(t)
    <3>1. known' = known
      BY <1>2, <2>4
         DEF ThreadStep, Takes, Ends, Say, BargeIn, Estop, HCallback, HSubmit, HSetEstop, HReadEstop,
             HInterrupt, HClose, history
    <3>2. thread'[t].step \notin {"read_loop", "post"}
      <4>1. CASE t \in Threads /\ Say(t)
        BY <4>1, TakesSay
      <4>2. CASE t \in Threads /\ (BargeIn(t) \/ Estop(t))
        BY <4>2 DEF BargeIn, TakeBargeIn, Estop, TakeEstop, TInv, TypeOK, Free
      <4>3. CASE HSubmit(t) \/ HSetEstop(t) \/ HReadEstop(t)
        <5>1. Return(t) => thread'[t].step \notin {"read_loop", "post"}
          BY Returning
        <5>. QED  BY <4>3, <5>1, Going DEF HSubmit, Submit, HSetEstop, SetEstop, HReadEstop, ReadEstop
      <4>4. CASE t = Main /\ Ends
        BY <4>4, Going DEF Ends, HInterrupt, Interrupt, HClose, ShutPool, Destroy
      <4>. QED  BY <1>2, <2>4, <4>1, <4>2, <4>3, <4>4 DEF ThreadStep, Takes, HCallback
    <3>. QED  BY <2>1, <3>1, <3>2 DEF KnownTask, Others
  <2>. QED  BY <2>2, <2>3, <2>4
<1>3. CASE HWork
  <2>1. UNCHANGED <<known, thread>>
    BY <1>3 DEF HWork, Work, TakeWork, Gate, ArmTask, ArmLoop, Respond, RequestFails, Cancelled, Check,
                PublishChunk, PublishFails, ClearTask, ClearLoop, WorkerEnds, OnlyWorker
  <2>. QED  BY <2>1 DEF KnownTask
<1>4. CASE UNCHANGED hvars
  BY <1>4 DEF hvars, vars, history, KnownTask
<1>. QED  BY <1>2, <1>3, <1>4, StepCases

(* What the pool was handed after a cancellation had read which utterance  *)
(* is in flight is spared by it.                                           *)
THEOREM LaterSpared == HSpec => LaterSpeechSpared
<1>1. HInit => FieldsMirror
  BY IdleType DEF HInit, Init, FieldsMirror
<1>2. HInit => Backlog
  BY BacklogInit
<1>3. HInit => KnownTask
  <2>. SUFFICES ASSUME HInit PROVE KnownTask
    OBVIOUS
  <2>1. \A t \in Actors : thread[t].step = "free"
    BY FreeType DEF HInit, Init
  <2>. QED  BY <2>1 DEF HInit, KnownTask
<1>4. TInv /\ KnownTask /\ [HNext]_hvars =>
        [\A t \in Actors : HPostCancel(t) /\ worker'.doomed /\ ~worker.doomed => worker.text \in known[t]]_hvars
  <2>. SUFFICES ASSUME TInv, KnownTask, NEW t \in Actors, HPostCancel(t), worker'.doomed, ~worker.doomed
                PROVE  worker.text \in known[t]
    OBVIOUS
  <2>1. worker' # worker /\ ThreadStep(t)
    BY DEF ThreadStep, HCallback
  <2>2. worker.step = "await" /\ worker.text = thread[t].task
    BY <2>1, ThreadFrame
  <2>3. thread[t].step = "post" /\ worker.text \in Utterances
    BY <2>2 DEF HPostCancel, PostCancel, At, TInv, Shape, Busy
  <2>. QED  BY <2>2, <2>3, Constants DEF KnownTask
<1>. QED
  BY <1>1, <1>2, <1>3, <1>4, TypeInit, TypeStep, MirrorStep, BacklogStep, KnownStep, PTL
     DEF HSpec, LaterSpeechSpared

------------------------------------------------------------------------------
(* The audio: utterance after utterance, each submitted after the one      *)
(* before it. The chunk loop is not interrupted as long as there is a      *)
(* publisher, so a chunk that is not its utterance's last is followed by   *)
(* the next one of that utterance.                                         *)
Before(x, y) == \E i, j \in DOMAIN submitted : i < j /\ submitted[i] = x /\ submitted[j] = y

Fresh == BeforeAudio \/ (WorkerAt("publish") /\ worker.sent = 0)

Follows(i) ==
  /\ audio[i].chunk <= audio[i].chunks
  /\ audio[i].chunk < audio[i].chunks => audio[i + 1] = [audio[i] EXCEPT !.chunk = @ + 1]
  /\ audio[i].chunk = audio[i].chunks =>
       audio[i + 1].chunk = 1 /\ Before(audio[i].text, audio[i + 1].text)

Latest == audio[Len(audio)]

(* The chunk emitted last is the last of its utterance, or the one the     *)
(* worker is at; what the worker has not begun comes after it.             *)
LatestOK ==
  /\ Latest.chunk <= Latest.chunks
  /\ \E j \in 1..Served : submitted[j] = Latest.text /\ (Fresh => j < Served)
  /\ \/ Latest.chunk = Latest.chunks /\ ~(WorkerAt("publish") /\ worker.sent > 0)
     \/ /\ WorkerAt("publish") /\ worker.sent > 0
        /\ Latest = [text |-> worker.text, chunk |-> worker.sent, chunks |-> worker.chunks]
     \/ PublisherIsGone

Emitted ==
  /\ \A i \in 1..(Len(audio) - 1) : Follows(i)
  /\ audio # <<>> => audio[1].chunk = 1 /\ LatestOK
  /\ WorkerAt("publish") /\ worker.sent > 0 => audio # <<>>

(* Once the publisher is gone it stays gone.                               *)
LEMMA GoneForGood ==
  ASSUME TInv, NEW t \in Actors, ThreadStep(t), PublisherIsGone
  PROVE  PublisherIsGone'
<1>1. Others(t) /\ thread[Main].step = "closed"
  BY ThreadType DEF PublisherIsGone, At
<1>2. CASE t = Main
  BY <1>1, <1>2, Constants
     DEF ThreadStep, Takes, Ends, HCallback, HSubmit, Submit, HSetEstop, SetEstop, HReadEstop, ReadEstop,
         HReadTask, ReadTask, HReadLoop, ReadLoop, HPostCancel, PostCancel,
         HInterrupt, Interrupt, Spinning, HClose, ShutPool, Destroy, At
<1>3. CASE t # Main
  BY <1>1, <1>3, Constants DEF Others, PublisherIsGone, At
<1>. QED  BY <1>2, <1>3

LEMMA BeforeKept ==
  ASSUME Backlog, NEW x, submitted' = Append(submitted, x), NEW y, NEW z, Before(y, z)
  PROVE  Before(y, z)'
<1>1. submitted \in Seq(Utterances)
  BY DEF Backlog
<1>2. PICK i, j \in DOMAIN submitted : i < j /\ submitted[i] = y /\ submitted[j] = z
  BY DEF Before
<1>3. i \in DOMAIN submitted' /\ j \in DOMAIN submitted'
      /\ submitted'[i] = submitted[i] /\ submitted'[j] = submitted[j]
  BY <1>1, <1>2
<1>. QED  BY <1>2, <1>3 DEF Before

LEMMA EmittedByThreads ==
  ASSUME TInv, Backlog, Emitted, NEW t \in Actors, ThreadStep(t)
  PROVE  Emitted'
<1>1. /\ audio' = audio
      /\ worker'.step = worker.step /\ worker'.text = worker.text
      /\ worker'.chunks = worker.chunks /\ worker'.sent = worker.sent
  BY ThreadFrame
<1>2. Fresh' = Fresh /\ WorkerAt("publish")' = WorkerAt("publish")
  BY <1>1 DEF Fresh, BeforeAudio, WorkerAt
<1>3. ASSUME NEW x, NEW y, Before(x, y) PROVE Before(x, y)'
  BY <1>3, SubmitCases, BeforeKept DEF Before
<1>4. \A j \in 1..Served : j \in 1..Served' /\ submitted'[j] = submitted[j]
  <2>1. submitted \in Seq(Utterances) /\ pool \in Seq(Utterances)
    BY DEF Backlog, TInv, TypeOK
  <2>. QED  BY <2>1, SubmitCases DEF Served, Backlog
<1>5. Served' = Served
  <2>1. submitted \in Seq(Utterances) /\ pool \in Seq(Utterances)
    BY DEF Backlog, TInv, TypeOK
  <2>2. CASE UNCHANGED <<pool, submitted>>
    BY <2>2 DEF Served
  <2>3. ASSUME NEW x \in Utterances, pool' = Append(pool, x), submitted' = Append(submitted, x)
        PROVE  Served' = Served
    <3>1. Len(pool') = Len(pool) + 1 /\ Len(submitted') = Len(submitted) + 1
          /\ Len(pool) \in Nat /\ Len(submitted) \in Nat
      BY <2>1, <2>3
    <3>. QED  BY <3>1 DEF Served
  <2>. QED  BY <2>2, <2>3, SubmitCases
<1>6. ASSUME NEW i \in 1..(Len(audio) - 1) PROVE Follows(i)'
  BY <1>1, <1>3 DEF Emitted, Follows
<1>7. audio # <<>> => LatestOK'
  <2>. SUFFICES ASSUME audio # <<>> PROVE LatestOK'
    OBVIOUS
  <2>1. LatestOK /\ Latest' = Latest
    BY <1>1 DEF Emitted, Latest
  <2>2. PICK j \in 1..Served : submitted[j] = Latest.text /\ (Fresh => j < Served)
    BY <2>1 DEF LatestOK
  <2>3. \E k \in 1..Served' : submitted'[k] = Latest'.text /\ (Fresh' => k < Served')
    BY <1>2, <1>4, <1>5, <2>1, <2>2
  <2>. QED  BY <1>1, <1>2, <2>1, <2>3, GoneForGood DEF LatestOK
<1>8. audio' # <<>> => audio'[1].chunk = 1
  BY <1>1 DEF Emitted
<1>. QED  BY <1>1, <1>2, <1>6, <1>7, <1>8 DEF Emitted

LEMMA NoChunk ==
  ASSUME NEW s \in Seq(Chunks)
  PROVE  Len(s) = 0 <=> s = <<>>
  OBVIOUS

(* The worker adds one chunk, or goes where its last chunk is complete.    *)
LEMMA EmittedByWork ==
  ASSUME TInv, TInv', Backlog, Backlog', Emitted, Work, submitted' = submitted
  PROVE  Emitted'
<1>. USE DEF WorkerAt
<1>1. /\ worker \in WorkerStates /\ worker' \in WorkerStates /\ audio \in Seq(Chunks)
      /\ submitted \in Seq(Utterances) /\ pool \in Seq(Utterances)
      /\ Served \in Nat /\ Served <= Len(submitted)
  BY DEF TInv, TypeOK, Backlog, Served
<1>2. thread' = thread
  BY DEF Work, TakeWork, Gate, ArmTask, ArmLoop, Respond, RequestFails, Cancelled, Check,
         PublishChunk, PublishFails, ClearTask, ClearLoop, WorkerEnds, OnlyWorker
<1>3. ASSUME audio' = audio, \A j \in 1..Served : j \in 1..Served' /\ (Fresh' => Fresh \/ j < Served'),
             Served <= Served', Fresh /\ Fresh' => Served' = Served,
             ~(worker'.step = "publish" /\ worker'.sent > 0),
             (worker.step = "publish" /\ worker.sent > 0) => PublisherIsGone
      PROVE  Emitted'
  <2>1. ASSUME NEW i \in 1..(Len(audio) - 1) PROVE Follows(i)'
    BY <1>3 DEF Emitted, Follows, Before
  <2>2. ASSUME audio # <<>> PROVE LatestOK'
    <3>1. LatestOK /\ Latest' = Latest /\ PublisherIsGone' = PublisherIsGone
      BY <1>2, <1>3, <2>2 DEF Emitted, Latest, PublisherIsGone, At
    <3>2. PICK j \in 1..Served : submitted[j] = Latest.text /\ (Fresh => j < Served)
      BY <3>1 DEF LatestOK
    <3>3. j \in 1..Served' /\ submitted'[j] = Latest'.text /\ (Fresh' => j < Served')
      BY <1>1, <1>3, <3>1, <3>2
    <3>. QED  BY <1>3, <3>1, <3>3 DEF LatestOK
  <2>. QED  BY <1>3, <2>1, <2>2 DEF Emitted
<1>4. ASSUME audio' = audio, pool' = pool, Fresh' => Fresh,
             ~(worker'.step = "publish" /\ worker'.sent > 0),
             (worker.step = "publish" /\ worker.sent > 0) => PublisherIsGone
      PROVE  Emitted'
  <2>1. Served' = Served
    BY <1>4 DEF Served
  <2>. QED  BY <1>1, <1>3, <1>4, <2>1
<1>5. ASSUME NEW step \in WorkerSteps, WorkerGoto(step)
      PROVE  worker'.step = step /\ worker'.sent = worker.sent
  BY <1>1, <1>5, WorkerMoves DEF WorkerGoto
<1>6. Idle.step = "idle"
  BY IdleType
<1>. USE DEF fields, OnlyWorker
<1>7. CASE TakeWork
  <2>1. Head(pool) \in Utterances /\ Len(Tail(pool)) = Len(pool) - 1 /\ Len(pool) \in Nat
    BY <1>1, <1>7 DEF TakeWork
  <2>2. worker'.step = "gate"
    BY <1>7, <2>1, IdleType DEF TakeWork
  <2>3. Served' = Served + 1
    BY <1>1, <1>7, <2>1 DEF TakeWork, Served
  <2>4. audio' = audio /\ ~Fresh
    BY <1>7 DEF TakeWork, Fresh, BeforeAudio
  <2>5. worker.step # "publish"
    BY <1>7 DEF TakeWork
  <2>. QED  BY <1>1, <1>3, <2>2, <2>3, <2>4, <2>5
<1>8. CASE Gate \/ ArmTask \/ ArmLoop
  <2>1. audio' = audio /\ pool' = pool /\ Fresh
    BY <1>8 DEF Gate, ArmTask, ArmLoop, Fresh, BeforeAudio
  <2>2. worker'.step # "publish" /\ worker.step # "publish"
    BY <1>5, <1>6, <1>8 DEF Gate, ArmTask, ArmLoop, WorkerSteps
  <2>. QED  BY <1>4, <2>1, <2>2
<1>9. ASSUME NEW n \in ChunkCounts, Respond(n) PROVE Emitted'
  <2>1. audio' = audio /\ pool' = pool /\ Fresh /\ worker.step # "publish"
    BY <1>9 DEF Respond, Fresh, BeforeAudio
  <2>2. worker'.step = "check"
    BY <1>1, <1>9 DEF Respond, WorkerStates
  <2>. QED  BY <1>4, <2>1, <2>2
<1>10. CASE RequestFails \/ Cancelled \/ ClearTask \/ ClearLoop \/ WorkerEnds
  <2>1. audio' = audio /\ pool' = pool /\ worker.step # "publish"
    BY <1>10 DEF RequestFails, Cancelled, ClearTask, ClearLoop, WorkerEnds
  <2>2. worker'.step \in {"idle", "clear_task", "clear_loop", "ended"}
    BY <1>5, <1>6, <1>10 DEF RequestFails, Cancelled, ClearTask, ClearLoop, WorkerEnds, WorkerSteps
  <2>. QED  BY <1>4, <2>1, <2>2 DEF Fresh, BeforeAudio
<1>11. CASE Check
  <2>1. audio' = audio /\ pool' = pool /\ Fresh /\ worker.sent = 0 /\ worker.step # "publish"
    BY <1>11 DEF Check, Fresh, BeforeAudio, TInv, Shape
  <2>2. worker'.sent = 0
    BY <1>5, <1>11, <2>1 DEF Check, WorkerSteps
  <2>. QED  BY <1>4, <2>1, <2>2
<1>12. CASE PublishFails
  <2>1. audio' = audio /\ pool' = pool /\ PublisherIsGone
    BY <1>12 DEF PublishFails
  <2>2. worker'.step = "clear_task"
    BY <1>5, <1>12 DEF PublishFails, WorkerSteps
  <2>. QED  BY <1>4, <2>1, <2>2 DEF Fresh, BeforeAudio
<1>13. CASE PublishChunk
  <2>. DEFINE c == [text |-> worker.text, chunk |-> worker.sent + 1, chunks |-> worker.chunks]
  <2>0. PICK n \in Nat : n = Len(audio)
    BY <1>1
  <2>1. /\ audio' = Append(audio, c) /\ worker.step = "publish" /\ ~PublisherIsGone
        /\ pool' = pool /\ thread' = thread
    BY <1>13 DEF PublishChunk
  <2>2. /\ worker.sent \in Nat /\ worker.chunks \in Nat /\ worker.sent < worker.chunks
        /\ worker.text \in Utterances /\ worker.chunks \in ChunkCounts
    BY <1>1, <2>1, WorkerFields DEF TInv, Shape, Busy
  <2>3. /\ worker'.sent = worker.sent + 1 /\ worker'.text = worker.text /\ worker'.chunks = worker.chunks
        /\ worker'.step = IF worker.sent + 1 = worker.chunks THEN "clear_task" ELSE "publish"
    BY <1>1, <1>13 DEF PublishChunk, WorkerStates
  <2>4. c \in Chunks
    BY <2>2 DEF Chunks
  <2>. HIDE DEF c
  <2>5. /\ n \in Nat /\ Len(audio') = n + 1 /\ audio'[n + 1] = c
        /\ \A i \in 1..n : audio'[i] = audio[i] /\ audio[i] \in Chunks
    BY <1>1, <2>0, <2>1, <2>4
  <2>6. Served' = Served /\ Served \in 1..Len(submitted) /\ worker.text = submitted[Served]
    BY <1>1, <2>1 DEF Served, Backlog, Busy
  <2>7. c.text = worker.text /\ c.chunk = worker.sent + 1 /\ c.chunks = worker.chunks
    BY DEF c
  <2>8. ASSUME NEW i \in 1..n PROVE Follows(i)'
    <3>1. CASE i < n
      <4>1. i + 1 \in 1..n /\ i \in 1..(n - 1)
        BY <2>5, <3>1
      <4>2. Follows(i) /\ audio'[i] = audio[i] /\ audio'[i + 1] = audio[i + 1]
        BY <2>0, <2>5, <4>1 DEF Emitted
      <4>. QED  BY <4>2 DEF Follows, Before
    <3>2. CASE i = n
      <4>1. LatestOK /\ Latest = audio[n] /\ audio'[n] = audio[n] /\ audio'[n + 1] = c
            /\ audio[n] \in Chunks
        BY <2>0, <2>5, <3>2 DEF Emitted, Latest
      <4>2. CASE worker.sent > 0
        <5>1. audio[n] = [text |-> worker.text, chunk |-> worker.sent, chunks |-> worker.chunks]
          BY <2>1, <4>1, <4>2 DEF LatestOK
        <5>2. c = [audio[n] EXCEPT !.chunk = @ + 1]
          BY <5>1 DEF c
        <5>3. audio[n].chunk = worker.sent /\ audio[n].chunks = worker.chunks
          BY <5>1
        <5>. QED  BY <2>2, <3>2, <4>1, <5>2, <5>3 DEF Follows
      <4>3. CASE worker.sent = 0
        <5>1. Latest.chunk = Latest.chunks /\ Latest.chunk \in Nat
          BY <2>1, <4>1, <4>3 DEF LatestOK, Chunks
        <5>2. PICK j \in 1..Served : submitted[j] = Latest.text /\ j < Served
          BY <2>1, <4>1, <4>3 DEF LatestOK, Fresh
        <5>3. /\ j \in DOMAIN submitted' /\ Served \in DOMAIN submitted' /\ j < Served
              /\ submitted'[j] = audio'[n].text /\ submitted'[Served] = audio'[n + 1].text
          BY <1>1, <2>6, <2>7, <4>1, <5>2
        <5>4. Before(audio[n].text, audio[n + 1].text)'
          BY <2>1, <2>5, <5>3 DEF Before
        <5>5. audio'[n].chunk = audio'[n].chunks /\ audio'[n].chunk \in Nat /\ audio'[n + 1].chunk = 1
          BY <2>7, <4>1, <4>3, <5>1
        <5>. QED  BY <3>2, <5>4, <5>5 DEF Follows
      <4>. QED  BY <2>2, <4>2, <4>3
    <3>. QED  BY <2>5, <3>1, <3>2
  <2>9. Latest' = c
    BY <2>5 DEF Latest
  <2>10. LatestOK'
    <3>1. c.chunk <= c.chunks
      BY <2>2, <2>7
    <3>2. Served \in 1..Served' /\ submitted'[Served] = c.text /\ ~Fresh'
      BY <2>2, <2>3, <2>6, <2>7 DEF Fresh, BeforeAudio
    <3>3. CASE worker.sent + 1 = worker.chunks
      BY <2>3, <2>7, <2>9, <3>1, <3>2, <3>3 DEF LatestOK
    <3>4. CASE worker.sent + 1 # worker.chunks
      <4>1. worker'.step = "publish" /\ worker'.sent > 0
            /\ c = [text |-> worker'.text, chunk |-> worker'.sent, chunks |-> worker'.chunks]
        BY <2>2, <2>3, <3>4 DEF c
      <4>. QED  BY <2>9, <3>1, <3>2, <4>1 DEF LatestOK
    <3>. QED  BY <3>3, <3>4
  <2>11. audio'[1].chunk = 1
    <3>1. CASE n = 0
      <4>1. audio = <<>>
        BY <1>1, <2>0, <3>1, NoChunk
      <4>2. worker.sent = 0
        BY <2>1, <2>2, <4>1 DEF Emitted
      <4>. QED  BY <2>5, <2>7, <3>1, <4>2
    <3>2. CASE n # 0
      <4>1. 1 \in 1..n /\ audio # <<>>
        BY <2>0, <3>2
      <4>2. audio[1].chunk = 1
        BY <4>1 DEF Emitted
      <4>. QED  BY <2>5, <4>1, <4>2
    <3>. QED  BY <3>1, <3>2
  <2>. QED  BY <2>5, <2>8, <2>10, <2>11 DEF Emitted
<1>. QED  BY <1>7, <1>8, <1>9, <1>10, <1>11, <1>12, <1>13 DEF Work

LEMMA EmittedStep == TInv /\ TInv' /\ Backlog /\ Backlog' /\ Emitted /\ [HNext]_hvars => Emitted'
<1>. SUFFICES ASSUME TInv, TInv', Backlog, Backlog', Emitted, [HNext]_hvars PROVE Emitted'
  OBVIOUS
<1>1. ASSUME NEW t \in Actors, ThreadStep(t) PROVE Emitted'
  BY <1>1, EmittedByThreads
<1>2. CASE HWork
  BY <1>2, EmittedByWork DEF HWork
<1>3. CASE UNCHANGED hvars
  BY <1>3 DEF hvars, vars, history, Emitted, Follows, Before, LatestOK, Latest, Served, Fresh, BeforeAudio,
              WorkerAt, PublisherIsGone, At
<1>. QED  BY <1>1, <1>2, <1>3, StepCases

LEMMA BeforeMeansPosition ==
  ASSUME AskedOnce, NEW x, NEW y, Before(x, y), submitted \in Seq(Utterances)
  PROVE  Position(x) < Position(y)
<1>1. PICK i, j \in DOMAIN submitted : i < j /\ submitted[i] = x /\ submitted[j] = y
  BY DEF Before
<1>2. \A k \in DOMAIN submitted : (submitted[k] = x => k = i) /\ (submitted[k] = y => k = j)
  BY <1>1 DEF AskedOnce
<1>3. Position(x) = i /\ Position(y) = j
  BY <1>1, <1>2 DEF Position
<1>. QED  BY <1>1, <1>3

LEMMA EmittedIsInOrder == TInv /\ Backlog /\ AskedOnce /\ Emitted => SpokenInOrder
<1>. DEFINE InTurn(i) ==
       \/ audio[i].chunk = 1 /\ (i > 1 => Position(audio[i - 1].text) < Position(audio[i].text))
       \/ i > 1 /\ audio[i] = [audio[i - 1] EXCEPT !.chunk = @ + 1]
<1>. SUFFICES ASSUME TInv, Backlog, AskedOnce, Emitted, NEW i \in DOMAIN audio
              PROVE  audio[i].chunk <= audio[i].chunks /\ InTurn(i)
  BY DEF SpokenInOrder
<1>1. audio \in Seq(Chunks) /\ i \in 1..Len(audio) /\ Len(audio) \in Nat /\ submitted \in Seq(Utterances)
  BY DEF TInv, TypeOK, Backlog
<1>. HIDE DEF InTurn
<1>2. PICK n \in Nat : n = Len(audio) /\ i \in 1..n /\ n > 0
  BY <1>1
<1>3. audio # <<>>
  BY <1>1, <1>2, NoChunk
<1>4. audio[i].chunk <= audio[i].chunks
  <2>1. CASE i = n
    BY <1>2, <1>3, <2>1 DEF Emitted, Latest, LatestOK
  <2>2. CASE i # n
    <3>1. i \in 1..(n - 1)
      BY <1>2, <2>2
    <3>. QED  BY <1>2, <3>1 DEF Emitted, Follows
  <2>. QED  BY <2>1, <2>2
<1>5. CASE i = 1
  <2>1. audio[1].chunk = 1
    BY <1>3 DEF Emitted
  <2>. QED  BY <1>4, <1>5, <2>1 DEF InTurn
<1>6. CASE i # 1
  <2>1. PICK j \in 1..(n - 1) : j = i - 1 /\ j + 1 = i /\ i > 1
    BY <1>2, <1>6
  <2>2. Follows(j) /\ audio[j] \in Chunks
    <3>1. j \in 1..n
      BY <2>1
    <3>. QED  BY <1>1, <1>2, <2>1, <3>1 DEF Emitted
  <2>3. audio[j].chunk \in Nat /\ audio[j].chunks \in Nat
    <3>1. audio[j].chunk \in Nat \ {0} /\ audio[j].chunks \in ChunkCounts
      BY <2>2 DEF Chunks
    <3>. QED  BY <3>1, Constants
  <2>4. CASE audio[j].chunk < audio[j].chunks
    <3>1. audio[i] = [audio[j] EXCEPT !.chunk = @ + 1]
      BY <2>1, <2>2, <2>4 DEF Follows
    <3>2. audio[i] = [audio[i - 1] EXCEPT !.chunk = @ + 1]
      BY <2>1, <3>1
    <3>. QED  BY <1>4, <2>1, <3>2 DEF InTurn
  <2>5. CASE audio[j].chunk = audio[j].chunks
    <3>1. audio[i].chunk = 1 /\ Before(audio[j].text, audio[i].text)
      BY <2>1, <2>2, <2>5 DEF Follows
    <3>2. Position(audio[j].text) < Position(audio[i].text)
      BY <1>1, <3>1, BeforeMeansPosition
    <3>3. Position(audio[i - 1].text) < Position(audio[i].text)
      BY <2>1, <3>2
    <3>. QED  BY <1>4, <3>1, <3>3 DEF InTurn
  <2>6. audio[j].chunk <= audio[j].chunks
    BY <2>2 DEF Follows
  <2>. QED  BY <2>3, <2>4, <2>5, <2>6
<1>. QED  BY <1>5, <1>6

(* Utterances are heard one by one in the order of the pool, each from its *)
(* beginning and none twice.                                               *)
THEOREM HeardInOrder == HSpec => []SpokenInOrder
<1>1. HInit => Emitted
  <2>. SUFFICES ASSUME HInit PROVE Emitted
    OBVIOUS
  <2>1. audio = <<>> /\ Len(audio) = 0 /\ worker.step = "idle"
    BY IdleType DEF HInit, Init
  <2>. QED  BY <2>1 DEF Emitted, WorkerAt
<1>2. HSpec => [](TInv /\ Backlog /\ AskedOnce)
  BY TypeInit, TypeStep, BacklogInit, BacklogStep, OnceStep, PTL DEF HSpec
<1>. QED  BY <1>1, <1>2, EmittedStep, EmittedIsInOrder, PTL DEF HSpec
=============================================================================
