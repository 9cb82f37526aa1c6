# A TLA+ model of kist-drl-g1-cortex

The cortex is the deliberative layer of a humanoid robot: it hears an
utterance, starts the scenario the utterance asks for, walks it through its
sub-tasks, speaks, and has the outcome judged by a camera critic. The nodes are
ROS 2 Python processes joined by topics. This directory models their control,
checks it with TLC and proves the central part with TLAPS.

Paths below are relative to the repository root; `orchestrator_node.py` and the
like are the files of that name under `src/`.

## 1. Inventory of the system

| Component | State it keeps | Operations | Talks to |
|---|---|---|---|
| `orchestrator_node` | `_active`, `_index`, `_criterion`, `_started`, `_t0`, `latest_verdict`, `_transcripts` | `_on_transcript`, `_on_verdict`, `_tick` (timer, 10 Hz); all in one mutually exclusive callback group | in: transcript, verdict; out: task_status, active_subtask, tts/say, tts/stop; navigation and vla are stubs |
| scenario loader | none (runs once) | `load_scenarios`, `build_criterion` | the JSON5 files |
| `vlm_node` | `_current` (under `_lock`), `_latest_frame` | `_on_active_subtask`, `_tick` (timer, 1 Hz); reentrant group, multi-threaded executor | in: active_subtask; out: verdict |
| `tts_node` | `_estop_active`, `_inflight_task`, `_inflight_loop` (no lock), a pool with one thread | `_on_say`, `_on_barge_in`, `_on_estop_msg`, `cancel`, `_synth_worker`, `synthesize`, `destroy_node`; reentrant group | in: say, stop, estop; out: audio chunks; Clova over HTTP |
| `stt_node` | echo-mute deadlines, `_speaker_playing`, `_estop_active`, filter state, bounded audio queue, connection state | audio, speaker-state and E-STOP callbacks; recognition worker with reconnects; `destroy_node` | in: audio, speaker state, estop; out: transcript; Google over gRPC |
| `gui_bridge_node` | latest status, latest frame and its number, set of clients | `_on_status`, camera callbacks; asyncio pump and client handlers on another thread | in: task_status, camera; out: WebSocket |
| shipped scenarios | six JSON5 files | (data) | read by the loader |
| `cortex_bringup`, `cortex_msgs`, CI | launch files, parameters, message definitions, a static check of the scenarios | (configuration) | |

What is hard here:

- *Interleaving.* The orchestrator is safe by its callback group; `vlm_node`,
  `tts_node` and `stt_node` are not: their callbacks are reentrant under a
  multi-threaded executor, so two callbacks of the same topic may overlap, and
  the executor thread that took the older message may finish last.
- *Stale state.* One `latest_verdict`, one transcript buffer and one clock
  serve all sub-tasks; verdicts are matched by name; `vlm_node` publishes a
  verdict after it dropped its lock.
- *Cancellation.* `tts_node.cancel` reads two unlocked fields that the pool's
  thread writes, and posts to an event loop that may meanwhile belong to the
  next utterance, or be closed.
- *Ordering between topics.* A stop and the announcement after it travel on two
  topics.
- *Time.* Timeouts and delays are compared on two readings of the clock.
- *Failure.* HTTP errors, cancelled requests and absent judgements must not
  wedge the pool or a scenario; a client that breaks must not cost the others
  a status; a scenario file that is wrong must stop the node, not fail later by
  timeout.
- *Two schedulers.* `gui_bridge_node` shares a cell without a lock between its
  ROS callbacks and an asyncio loop on another thread, and the pump's own
  bookkeeping is interleaved with connections at every `await`.

What makes each component correct, in a sentence: the orchestrator reports a
well-formed life of every task and completes or fails a sub-task only on
evidence of that sub-task; the judgement loop credits a judgement to the
sub-task it was reached about; `tts_node` speaks utterances in order, each once,
cancels nothing it was handed after the cancellation looked, falls silent under E-STOP
but for the utterance being emitted, and is never wedged; `stt_node` mutes what it
knows to be the robot's own voice, carries no audio over to a later stream, retries as
often as it says and ends when told to; `gui_bridge_node` leaves no client behind the status and the frame it
takes as sent; the loader lets no scenario run that cannot be evaluated.

## 2. Modules

| Module | What it is |
|---|---|
| `Orchestrator` | `orchestrator_node`: one action per callback outcome |
| `OrchestratorHistory` | the same steps with history variables, and its properties |
| `TaskStatusStream` | abstract specification: the order in which statuses may follow each other on `/cortex/task_status` |
| `MCOrchestrator` | four small scenarios that use every criterion and hook |
| `OrchestratorInvariant`, `OrchestratorProofs` | the TLAPS proofs: the invariant of its own state with what it says of failures, and what the history shows |
| `ScenarioLoader` | `load_scenarios` and `build_criterion`: parsed documents in, scenarios or an error out |
| `Startup` | `orchestrator_node` from its constructor on, on whatever files it finds |
| `ScenarioSanity` | what the scenario check of `ci.yml` asks of a file |
| `ShippedScenarios`, `MCStartup` | the six shipped files as documents and as the loader makes them; the same altered |
| `LoaderProofs` | the proofs about loader, start and check |
| `VlmNode` | `vlm_node` with its executor's threads |
| `Cognition`, `MCCognition` | orchestrator and critic over the two topics between them |
| `CognitionProofs` | the proofs about the loop |
| `TtsNode` | `tts_node`: callbacks on executor threads against the pool's thread |
| `TtsHistory`, `MCTts` | an environment, history variables, properties; an instance |
| `TtsStops` | the same with a note of the stops that met the utterance in flight |
| `TtsProofs` | the proofs about it |
| `SttAudio`, `SttAudioHistory` | `stt_node` from the microphone to its queue; history and properties |
| `SttAudioTail` | the audio path with a note of when the speaker's flag cleared |
| `SttProofs` | the proofs about `SttAudioHistory` |
| `SttWorker`, `SttWorkerHistory` | `stt_node` from the queue to the transcripts: either worker, request threads, shutdown; history and properties |
| `SttWorkerProofs` | the proofs about it |
| `GuiBridge` | `gui_bridge_node`: ROS callbacks, pump and connections |
| `GuiFeed`, `MCGui` | the bridge fed by what `TaskStatusStream` allows, its properties; an instance |
| `GuiProofs` | the proofs about it |
| `SpeechPath`, `MCSpeechPath` | orchestrator and `tts_node` over the say and stop topics |

### Orchestrator

The three callbacks exclude each other, so each is one atomic action:
`OnTranscript` (`Hear` or `Trigger`), `OnVerdict`, and the tick, which is
`TickStart` (on_start, and the clock starts), `TickPass` (on_success and
`_advance`), `TickFail` (`_fail`) or nothing. `Elapse` lets the monotonic clock
move. The helpers keep their names: `Request`, `Begin`, `EnterSubtask`,
`ResetExec`, `Dispatch`, `CancelAll`. What a callback publishes is the value of
`task_status`, `cmds` and `active_subtask` after the step, in the order of its
calls. `TickFail` reads the clock twice, as the code does: the criterion is
evaluated on the first reading and the timeout on the second (`LaterReading`), which may be
any later time: nothing bounds the gap between two calls of `time.monotonic()`. So a
delay may run out and the timeout strike in one tick, and a delay that is shorter than
its timeout can fail, as `greet.json5:12-13` and `ci.yml:191-195` take for granted.

Abstractions of data: a transcript is the set of keywords its text contains
(the code only asks `kw in text`); a composite criterion is the union of its
children's leaves; the age of a sub-task stops at `Horizon`, which no delay and
no timeout exceeds (`HorizonAssumption`), so no comparison is changed. A hook
step whose label has no connector is a command with `op = "skip"`.

### Loader and start

A parsed JSON object is a record any key of which may be missing. A step of the
loader raises nothing, an error that `load_scenarios` reports with the file's name
("named": `KeyError`, `ValueError`, which `_req` and `build_criterion` raise), or one
that passes its handler ("escapes"). `FirstError` is Python's order of evaluation: of
several things wrong in a file the first one met decides which error is seen.

What may stand where a criterion belongs is a constant, `Specs`, closed under `Children`, with
`Nesting`, how deep each of them nests: a parsed file is a finite tree, and that is what
makes `CriterionError`, `BuildCriterion` and `Nested`, recursive functions on `Specs`, well
defined. `SpecsAssumption` and `Document` ask of a file only the types of values that the
loader takes for granted (a name is a string, keywords are strings); any key may be missing, any
type unknown, and a scalar may stand wherever an object belongs.

`Startup` loads the files of its `disk`, one of `Disks`, one per step and then is
`Orchestrator` on what it loaded. `Scenarios` being a constant, `Run` has `Scenarios = Loaded`
as its guard: one instance follows the run for one set of scenarios, and the
loading for all disks. What a file must be is said without the loader by `WellFormed`.

`MCStartup` gives it the shipped files, and the same with up to two of them altered in one
of the ways of `Altered`. `ShippedScenarios!Shipped` is the loader's result on the shipped
documents, so TLC evaluates `ScenarioAssumption`, which the orchestrator's proofs start from, on it;
`NoBadScenarioRuns` says it of whatever else gets through. `ShippedAreSane` evaluates the check of
`ci.yml` on the shipped files, and the hypotheses of the theorems about failures.

### Judgement loop

`VlmNode` splits a delivery into taking the message and assigning it, and a
period into the locked snapshot and the judgement with its publication. The
judgement is any member of `Evaluations`. `Cognition` joins it to the
orchestrator over two FIFO topics that keep the last `Depth` messages. A verdict
carries the sub-task it was reached about (`subject`), which the real one has not and
no action reads.

### tts_node

Every read and write of an unlocked field is a step of its own. An executor
thread takes a message and then runs its callback; `cancel` reads
`_inflight_task`, reads `_inflight_loop` and posts the cancellation, which takes
effect only if it is posted to the loop the worker is running, for its task,
while that awaits the response. The worker goes gate, arm (two writes), await,
check, one step per audio chunk, clear (two writes). `CancelledError` is not an
`Exception`, so it passes `_synth_worker`'s handler; the pool stores it in the
future and its thread goes on, hence `Cancelled` leads to the finally block and
back to idle.

The main thread spins the executor and, interrupted, runs `destroy_node`: the same
`cancel`, then `ShutPool` (the queue is kept; a later submit is refused) and `Destroy` of the
publisher, while the pool's thread goes on with what is queued. Publishing then
raises, which the worker's handler swallows.

The two say messages may overtake each other (`_on_say` is reentrant), so the
order the properties speak of is the order in which the pool got them.

### stt_node

The node is two halves that meet in the audio queue, and a module each.

`SttAudio`: an executor thread takes up a message (an audio chunk gets its time
stamp then) and passes the E-STOP gate, the speaker flag, and the deadline, which
it writes or reads, one step each. Clock and deadlines are absolute, the clock
stops at `MaxTime`. What the speech filter computes is left out, and with it the
filter's state, which overlapping callbacks share.

`SttWorker`: chunks are alike. The worker's steps are its control points: boot,
loop, open, responses, error, drain (one entry per step), back-off, exit. A
stream's request generator runs in a thread of the gRPC library and is checked
and fed in turn; when the stream is over that thread is *stale*: it still waits
on the queue and takes one entry for nobody. `MaxStale` bounds how many the
model keeps. The node's thread starts the worker and then writes STREAMING,
later sets the stop, puts the pill (dropped when the queue is full), joins and
closes. `backoff` is a function of `reconnect_count` and left out. The dummy backend
(`DummyCheck`, `DummyTake`, `DummyEmpty`) reads the queue itself; which worker there is, is
a choice of `Init`.

### gui_bridge_node

The ROS callbacks run on the main thread and overwrite the cell; the camera's
two writes (frame, number) are two steps. The pump reads status, number and frame in
three, and then sends to the clients of its snapshot one at a time. Everything
else on the asyncio loop, a handler that adds or removes its connection, runs only
where the pump awaits (`Awaits`). A connection may break at any time (`Break`); the pump
learns it from a send that fails, the handler on its own. `Serve` either binds the port
or does not, which the constructor does not notice. `Shutdown` stops the loop where it is.

`GuiFeed` feeds it with the abstract `TaskStatusStream`, not with the orchestrator: that
the orchestrator's statuses are such a stream is `StatusRefinement`, for every set of
scenarios. Its `Publish` waits for the topic to be empty, which loses nothing: the
cell keeps only the latest value anyway, so the bridge cannot tell a status that waits from
one that is published later, nor one dropped by a full history from one overwritten.

## 3. Runs

| Run | Bounds | Shows |
|---|---|---|
| `orchestrator` | 4 scenarios, 6 utterances, 4 verdicts, clock 0..2 | type and consistency of the execution state; `CancelBeforeCommand`; `PassJustified`, `FailJustified`; `NothingSurvivesItsScenario`; the status stream implements `TaskStatusStream` (`StatusProtocol`); `Settles` |
| `shipped_scenarios` | the shipped files, clock 0..40 s, 9 utterances, 8 verdicts; loading also with up to two of four files altered, each in one of 23 ways | `NoBadScenarioRuns`, `OffenderIsNamed`; `FailureNeverSilent` |
| `judgement_loop` | 1 scenario of two judged sub-tasks, 2 executor threads, topics of depth 2 | no topic exceeds its depth; `PassIsForThisCheck` |
| `tts` | 2 utterances, responses of 0 or 2 chunks, 2 executor threads and the main thread | `SpokenInOrder`, `NothingInFlightBetween`, `LaterSpeechSpared`, `EstopLetsOutOnlyOne`, `NoneIsStuck` |
| `stt_audio` | 2 executor threads, clock 0..4, tail 2 | `TailAfterLastEcho` |
| `stt_worker` | queue of 3, 3 reconnections, 2 stale request threads | `NoCarryOver`, `GivesUpAfterAllAttempts`, `StopIsHeard` |
| `gui` | 2 connections, 2 frames, a task of one sub-task | `StatusInStep`, `FrameInStep`, `RendererContract`, `ShowsTheEnd` |

Why the bounds are enough. Two sub-tasks in a scenario show advance, re-entry
and what one leaves to the next; a second scenario, a greeting and a pure stop
show preemption by each kind of scenario. The clock has a value below, at and
above every threshold. One utterance in `MCOrchestrator` is an answer and a
trigger, one holds two triggers. Two executor threads are the least at which
callbacks overlap, two utterances the least at which a cancellation can reach
the wrong one, two chunks the least at which something can come between chunks.
Depth 2 makes topics overflow (in the code it is 10). A tail of 2 on a clock to 4 has a
chunk in the tail, one at its end and one after it, with a second announcement
between. A queue of 3 is full with the pill outside, and holds chunks from before
and after the end of a stream; the counter of reconnections passes its limit.
Two clients are the least of which one can cost the other something; the second frame is
the one that comes between the pump's reads or during its sends; one task of one
sub-task already publishes all five states, over and over. Two altered files are the least
of which the first must be the one reported; of the three navigation scenarios, which differ
in their words, only the first is altered.

Fairness. `orchestrator`: weak fairness of the tick (a ROS timer the executor
keeps serving) and of the clock. Nothing is assumed of the user or of
`vlm_node`, so `Settles` allows a user who preempts for ever. `tts`:
weak fairness of each thread's callback once taken up, of the
worker, and of the rest of `destroy_node` once it began; that a request ends is
`request_timeout_s` (5 s). Nobody has to speak or to end the node.
`gui`: what was published is delivered and a camera callback ends (rclpy spins), and the pump
goes on; that a send ends or fails is the keepalive of the websockets library. Nobody has to
publish, connect or show a picture.
`stt_worker`: weak fairness of the request threads (they poll every 20 ms), of
either worker's own steps, and of the server closing a stream whose requests ended; only
finitely many callbacks that were under way put something after the stop, since
the executor has stopped spinning. No stream has to end or fail by itself. Deadlock is
not checked (`CHECK_DEADLOCK FALSE`) where the system may stop: in `stt_worker`,
`flushed_before_reconnect`, `tts`, `stop_cuts_speech`, `gui` and `late_client_sees_status`
because the node was closed, in `shipped_scenarios` because a bad file stopped it.

### What the documentation says and the code does not do

Each of these runs checks one sentence of the documentation or of a comment, and
TLC finds a behaviour that contradicts it. `PROJECT.json` quotes the sentence.

| Run | Sentence | What the counterexample shows |
|---|---|---|
| `late_client_sees_status` | gui_bridge_node.py:3-7 | a client that connects while nothing changes is sent nothing: the status was already sent, to others or to nobody |
| `stop_cuts_speech` | tts_node.py:143, 8-9 and the comment at 189 | a barge-in reads the fields of the utterance in flight, posts its cancellation and returns; the synthesis was past its last await, so its chunks go out all the same |
| `tail_after_speaking` | stt_node.py:11-12 and 126 | the flag clears between two chunks; the tail runs from the last chunk that found it on, so a chunk that arrives less than a tail after the clearing is queued as speech |
| `flushed_before_reconnect` | stt_node.py:319, stale audio is discarded before a reconnection | the drain comes before the back-off, audio that comes during it is recognised up to 30 s late |
| `barge_in_spares_later` | orchestrator_node.py:379-381 | the stop of a failure is delivered late and cuts the very on_fail message it was sent before |

`CancelBeforeCommand` and `BargeInSparesLaterMessages` belong together: the
order the comment asks for is kept by the callback, for every scenario (proved),
and lost between the topics. So do `LaterSpeechSpared` and that run: what is spared is what the pool
was handed after the callback had *read* the task in flight, not what was asked for after the stop was sent.

`EstopLetsOutOnlyOne` states what the code guarantees under E-STOP, and `StopCutsSpeech` what it
does not: the utterance in its chunk loop when E-STOP rises goes out to its end, which is in
tension with tts_node.py:149-152 ("a G1 staying audible during E-STOP would confuse the operator").
`TailAfterLastEcho` and `TailAfterSpeaking` are related in the same way.

## 4. Proofs

Those about the orchestrator hold for every set of scenarios, utterances and verdicts that
satisfies `ScenarioAssumption`, `InputAssumption` and `HorizonAssumption`.

| Theorem | Statement | Argument |
|---|---|---|
| `TypeCorrect`, `Consistency` | `HSpec => []TypeOK`, `HSpec => []ExecConsistent` | `IInv == TypeOK /\ ExecConsistent` is inductive. Neither half is alone: `index` stays a position only because an active scenario has a current sub-task, and `criterion` has a type only because it is that sub-task's |
| `PassOnOwnEvidence` | `HSpec => PassJustified` | `Evidence`, inductive relative to `IInv`: while a scenario is active the cached verdict and the buffer hold only what the history heard since the sub-task was entered, and once started the clock agrees with the time since its on_start. Entering resets both sides at once |
| `FailureNeverPremature` | `HSpec => FailJustified` | the same `Evidence`, in both directions: a criterion that does not pass has a leaf that does not (`always` is none), and what the node lacks for it the history lacks, too. The timeout is compared with the later reading, by which the time since on_start has advanced as well, however far |
| `StatusRefinement` | `HSpec => StatusProtocol` | `StatusMirrorsExec`, inductive relative to `IInv`: the last status published tells whether a scenario is active, which one and where. Every callback is then one step of `TaskStatusStream` or a stutter |
| `CancellationsFirst` | `HSpec => []CancelBeforeCommand` | every callback fires either commands alone or all cancellations and then commands (`Fires`) |
| `NothingSurvives` | `HSpec => NothingSurvivesItsScenario` | a callback that reports an end is of the second kind, so every connector is addressed and what is outstanding afterwards was dispatched by it |

| `FailuresHeard` | if `FailuresAreSpoken`, `Spec => FailureNeverSilent` | only the timeout publishes FAILED (`OnlyTimeoutFails`), only on a sub-task with a leaf other than `always` (`Overdue`), and the last command of that callback is the last step of its on_fail (`FailureCommands`) |

The hypothesis of the last one is about the data alone: it speaks of no step, and it exempts no
delay. TLC evaluates it on the shipped files (`ShippedAreSane`), so the theorem holds there, and of any
scenarios that meet it. `IInv` and `FailuresHeard` are in `OrchestratorInvariant`, over
`Orchestrator` alone, so that the compositions below can use them; the others are in `OrchestratorProofs`.

Those about the loader and the start (`LoaderProofs`) hold for any files whose values have the
types of `SpecsAssumption` and `DisksAssumption`, in any number, with criteria nested to any depth.

| Theorem | Statement | Argument |
|---|---|---|
| `NothingBadRuns` | `BSpec => []NoBadScenarioRuns` | `LInv`: the files passed so far raised nothing, and the one that stopped the node raised what it stopped with. `FileVerdict` says what that means: nothing is raised exactly by the files that are `WellFormed`, and those become members of `Scenario` |
| `NamesOffender` | `BSpec => []OffenderIsNamed` | `LInv`, and the rest of `FileVerdict`: what escapes comes from a value that is no object |
| `SaneFailuresAct` | `BSpec => FailureActs` | the sub-task that fails is one a file on the disk describes; it can fail, so its criterion is not of type always (`MayFailIsEnough`), so by the check it has an on_fail, whose last step has a connector and is the last command (`FailureCommands`). `IInv` is carried over by `BSpec => Spec` (`StartRunsOrchestrator`) |

`FileVerdict` rests on `CriterionVerdict`, which is about a tree: the verdict on a
criterion is "" exactly if it and whatever is nested in it can be evaluated. Induction over the tree
is done by hand: of the criteria for which it fails, if there were any, one would
nest least (`LeastRank`, from the well-foundedness of `<` on `Nat`), and `JudgedByChildren` shows that it
would hold there. That `CriterionError`, `BuildCriterion` and `Nested` equal their recursive
definitions is itself a lemma: `RecursiveFunction` shows that a step which looks only at values
of less rank has a fixed point.

Of these theorems `SaneFailuresAct` is what `ci.yml:191-193` asserts: looking at
the type on top of a criterion is enough to know which sub-tasks need an on_fail.

Those about the judgement loop (`CognitionProofs`) hold moreover for any threads of `vlm_node`
and, by `DepthAssumption`, any depth of the topics; `OrchestratorAssumption` is the
orchestrator's three, of the verdicts that `vlm_node` can send.

| Theorem | Statement | Argument |
|---|---|---|
| `LoopTypeCorrect` | `Spec => []TypeOK` | `CInv`, which is inductive: the orchestrator's `IInv`, carried over from `OrchestratorInvariant` through an instance of it (`OrchestratorStep`); the types of threads and topics, for which `OrchestratorSends` shows that only names of sub-tasks are announced; `PublishType` for the depth |
| `PassOnOwnJudgement` | `Spec => PassIsForThisCheck` | the other half of `CInv`: every verdict on the topic and in the cache names the sub-task it was reached about (`OwnVerdicts`), since the critic names the one of its snapshot. The criterion evaluated is the current sub-task's by `ExecConsistent`, and the comparison of names does the rest |
| `LoopRunsOrchestrator` | `Spec => Orc!Spec` | every step of the loop is a step of the orchestrator alone, for the verdicts `vlm_node` can send, or leaves its variables alone (`OrchestratorStep`). So what is proved of `Orchestrator` from its `Spec` holds in the loop |

Those about `tts_node` (`TtsProofs`) hold for any threads, utterances and numbers of chunks
(`UtterancesAssumption`, `ChunksAssumption`, `MainAssumption`).

| Theorem | Statement | Argument |
|---|---|---|
| `TtsTypeCorrect` | `HSpec => []TypeOK` | inductive with `Shape`, what worker and callbacks hold at each of their steps |
| `NothingBetween` | `HSpec => []NothingInFlightBetween` | `FieldsMirror`: what the two fields hold at each step of the worker, who alone writes them |
| `SilentUnderEstop` | `HSpec => EstopLetsOutOnlyOne` | `SoundsWithLeave`: while chunks go out and the E-STOP is up, it rose when the utterance was already past its check |
| `LaterSpared` | `HSpec => LaterSpeechSpared` | `Backlog`: the pool holds the end of what was submitted, and the worker the one before that. `KnownTask`: the task a cancellation has read is one that was submitted before it read it, for the field then mirrored a worker that had taken it from the pool. What a post kills is the worker's utterance only if it is that task |
| `HeardInOrder` | `HSpec => []SpokenInOrder` | `Emitted`: the first chunk heard begins an utterance, every other continues the one before it or begins one submitted later, and the last chunk is an utterance's last, or the worker's, or the publisher is gone. With `Backlog` and `AskedOnce` (nothing is submitted twice) an utterance's place in the order is unique |

Those about `gui_bridge_node` (`GuiProofs`) hold for any connections, by `FramesAssumption` any
natural number of frames, and by `PlanAssumption` and `NamesAssumption` any tasks whose
sub-tasks have a name.

| Theorem | Statement | Argument |
|---|---|---|
| `GuiTypeCorrect`, `StatusesInStep`, `FramesInStep`, `ContractKept` | `FSpec => []TypeOK`, and the same of `StatusInStep`, `FrameInStep`, `RendererContract` | one inductive invariant, `FInv`: the stream is where `TaskStatusStream` can be (`FeedOK`); a frame is never behind its number, in the cell or in the pump's hands (`FrameFirst`); every display in the cell, in the pump and on a screen is one the renderer accepts (`AllRenderable`); every open connection is a client, nobody else was sent anything, no client is due twice in a pass and the ones given up are broken (`Recipients`); and in the middle of a pass whoever is no longer due shows what it sends, whoever is due what the last one sent (`Progress`) |

Those about `stt_node` (`SttProofs`) hold for any set of threads and, by
`TimeAssumption`, any natural tail and clock bound, so for every finite time.

| Theorem | Statement | Argument |
|---|---|---|
| `AudioTypeCorrect` | `HSpec => []TypeOK` | inductive |
| `TailKept` | `HSpec => []TailAfterLastEcho` | `EchoInv`, inductive relative to `TypeOK`. `echo` is the start of the oldest callback that ran when a chunk was last found to be echo. No running callback started before it, so whichever of them writes the deadline next leaves it at `echo + EchoTail` or later. That an earliest start exists is `Earliest`, from the well-foundedness of `<` on `Nat` |

`TailAfterLastEcho` says of the tail what the code keeps: with callbacks one at a time `echo`
is the time of the last chunk that found the speaker playing; when a slow callback
overwrites the deadline of a newer one, the tail is shorter by their distance. It does not
say that nothing recorded while the robot spoke is queued (a chunk taken up before the flag
clears and read after it is), nor that the tail runs from the clearing: it does not.

Those about its recognition worker (`SttWorkerProofs`) hold for any size of the queue, any limit of
reconnections and any number of stale request threads (`BoundsAssumption`).

| Theorem | Statement | Argument |
|---|---|---|
| `WorkerTypeCorrect` | `HSpec => []TypeOK` | inductive with `Shape`: a request generator is there only while the worker listens, and a worker in an attempt is within the limit |
| `NothingCarriedOver` | `HSpec => NoCarryOver` | `Leftovers`: what a stream left behind is in the queue only before the drain is over, or when the stop is set and no stream will be opened again. The drain is over when the queue is empty, and what was put meanwhile went with it |
| `GivesUpInTime` | `HSpec => GivesUpAfterAllAttempts` | `Counted`: from the end of a failed stream to the next attempt the counter is one ahead of the attempts, otherwise they agree |

Model-checked only: `Settles`, `NoneIsStuck`, `StopIsHeard` and `ShowsTheEnd` (liveness under
fairness is out of the prover's reach); that the shipped files are sane and meet the hypothesis of
`FailuresHeard`, which is about data; the five counterexamples of the documentation.

## 5. What is not modelled

- In `stt_node` the speech filter and the lead mute, which nothing arms.
  Transcripts come from an environment that may utter any member of `Utterances`
  at any time, which includes everything `stt_node` may publish.
- JSON5 parsing itself; hooks, triggers or names of another type than they should
  have, which the loader takes as they are (see below); the encoding of camera images.
- WAV decoding and resampling but for the number of
  chunks that results; the contents of requests.
- The navigation and vla connectors are stubs in the code: their commands are
  recorded, nothing acts on them.
- The camera frame of `vlm_node`: nothing subscribes to it yet.
- Loss of messages other than by a full history, crashes of a node, DDS
  discovery. No node persists anything or recovers after a crash.
- The length of the transcript buffer, which grows while idle: the model keeps
  a set.
- Launch files, parameters, packaging; of the CI workflow all but the check of the scenarios,
  and of that the part on criteria (the loader is stricter) and on triggers that contain one another.

Seen while reading and not the subject of a run: a preemption starts the new
scenario in the callback that cancels the old one, where README.md:58-59 has it
wait for the module's confirmation; a timeout of 0 fails at the first poll,
where Subtask.msg:9 says there is none; two overlapping E-STOP callbacks may
leave the flag at the older message, in `tts_node` and in `stt_node`; a judgement that `vlm_node`
began before a scenario was restarted completes the restarted sub-task, whose name is the
same (`Verdict.msg:1` has a verdict be about the sub-task in flight, and `Subtask.msg:7-8` has the id
match it); a cancel between the E-STOP gate and the arming of the in-flight fields finds nothing, and if
the E-STOP is cleared before the check after the round-trip the utterance it meant to kill is
heard (tts_node.py:151-153); `STTState` is "published for GUI
display" (stt_node.py:89) nowhere; an exception before the worker's loop ends it
in the state STREAMING; a fail verdict cancels nothing
(`vlm_node.py:5-6` and `Verdict.msg:2` say it does); an utterance that matches a
trigger is buffered and cleared in the same callback
(`orchestrator_node.py:304-305`); a pure stop that preempts is followed by
SUCCEEDED, not RUNNING (`gui_bridge_node.py:34-36`); a barge-in leaves the pool's
backlog to be spoken (`tts_node.py:143`); `vlm_node` is never told that nothing is
in flight any more; two overlapping deliveries may leave the older sub-task in
`vlm_node._current` for good (vlm_node.py:3); a file that does not parse, or has a scalar where an
object belongs, stops the node without being named (orchestrator_node.py:77-78);
`keywords: "yes"`, a string for a list, becomes the keywords y, e and s; `gui_bridge_node` reports its
WebSocket as up when the port was taken (gui_bridge_node.py:98-101); one client that does not
read holds up the others for as long as its keepalive lasts; several shipped announcements contain a trigger
(`go_fridge.json5` says its own), so the robot may hear itself once the echo
tail is over.

## 6. Plan

Done: `Orchestrator`, `TaskStatusStream`, `VlmNode`, `Cognition`, `TtsNode` with its shutdown,
`ScenarioLoader`, `ShippedScenarios`, `Startup`, `ScenarioSanity`, `SttAudio`, `SttWorker` with both backends,
`GuiBridge` and `GuiFeed`, a first `SpeechPath`; the proofs of every safety property that the runs
of `Orchestrator`, `Startup`, `Cognition`, `TtsNode`, `SttAudio`, `SttWorker` and `GuiBridge` check.

Next, in this order:

1. `SpeechPath` with E-STOP and `SttAudio`: the loop through the loudspeaker, in
   which the robot may trigger itself, on the shipped announcements.
2. The state of the speech filter, which overlapping callbacks of `SttAudio` share.
3. The restarted sub-task and the E-STOP that is cleared too soon, named in section 5, as counterexamples.
4. `LoopRunsOrchestrator` with the history: that `Cognition` implements `OrchestratorHistory`, for
   some history, so that `PassJustified` and the others are theorems of the loop, too.
5. The same of `SpeechPath`, once its E-STOP is in.
