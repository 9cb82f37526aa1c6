------------------------------ MODULE SttWorker ------------------------------
(***************************************************************************)
(* stt_node, from the audio queue to the transcripts: the Google worker    *)
(* with its reconnect loop, the requests that feed a stream from the       *)
(* queue, the dummy worker that stands in for both, and the node's start   *)
(* and shutdown. Which worker there is, is decided before the start.       *)
(*                                                                         *)
(* Every stream has its own request generator, which the gRPC library      *)
(* consumes in a thread of its own. When a stream is over, that thread     *)
(* finds out only with the next request it gets from the generator: until  *)
(* then it is stale, and takes one more entry off the queue, for nobody.   *)
(*                                                                         *)
(* Chunks are alike here (what makes one speech or silence is SttAudio's). *)
(* backoff is 2^reconnect_count and is left out. A queue that was set to   *)
(* None is empty.                                                          *)
(***************************************************************************)
EXTENDS Integers, Sequences

CONSTANTS
  MaxQueue,      \* maxsize of the audio queue
  MaxReconnect,  \* _MAX_RECONNECT
  MaxStale       \* bound of the model: stale request threads at a time

ASSUME BoundsAssumption ==
  MaxQueue \in Nat \ {0} /\ MaxReconnect \in Nat /\ MaxStale \in Nat

VARIABLES
  audio_queue,      \* _audio_queue
  stop_event,       \* _stop_event
  state,            \* _state
  main,             \* the thread that starts and destroys the node
  worker,           \* the Google worker
  reconnect_count,  \* its local variable
  requests,         \* the request generator of the stream that is open
  stale,            \* how many threads wait for a request of an old stream
  unanswered        \* audio went to the open stream and was not answered

node == <<main, stop_event>>
stream == <<requests, stale, unanswered>>
vars == <<node, audio_queue, state, worker, reconnect_count, stream>>

Chunk == "chunk"
Pill == "pill"  \* None

Init ==
  /\ audio_queue = <<>>
  /\ stop_event = FALSE
  /\ state = "connecting"
  /\ main = "start" /\ worker \in {"boot", "dummy_check"}
  /\ reconnect_count = 0
  /\ requests = "none" /\ stale = 0 /\ unanswered = FALSE

Take == audio_queue # <<>> /\ audio_queue' = Tail(audio_queue)
Full == Len(audio_queue) = MaxQueue

------------------------------------------------------------------------------
(* Start, callbacks and destroy_node.                                      *)

(* The end of _start_backend, which does not wait for the worker. *)
Started ==
  /\ main = "start" /\ main' = "spin"
  /\ state' = "streaming"
  /\ UNCHANGED <<stop_event, audio_queue, worker, reconnect_count, stream>>

(* How that could go wrong: a queue without maxsize. *)
PutUnbounded ==
  /\ main \in {"spin", "pill", "join"}
  /\ audio_queue' = Append(audio_queue, Chunk)
  /\ UNCHANGED <<node, state, worker, reconnect_count, stream>>

(* put_nowait of an audio callback; a chunk that finds the queue full is   *)
(* dropped. Callbacks under way when the executor stops spinning may still *)
(* come to it.                                                             *)
Put ==
  /\ main \in {"spin", "pill", "join"} /\ ~Full
  /\ audio_queue' = Append(audio_queue, Chunk)
  /\ UNCHANGED <<node, state, worker, reconnect_count, stream>>

SetStop ==
  /\ main = "spin" /\ main' = "pill"
  /\ stop_event' = TRUE
  /\ UNCHANGED <<audio_queue, state, worker, reconnect_count, stream>>

PutPill ==
  /\ main = "pill" /\ main' = "join"
  /\ audio_queue' = IF Full THEN audio_queue ELSE Append(audio_queue, Pill)
  /\ UNCHANGED <<stop_event, state, worker, reconnect_count, stream>>

(* The join, which ends with the worker or after 5 s. *)
Close ==
  /\ main = "join" /\ main' = "closed"
  /\ audio_queue' = <<>>
  /\ state' = "idle"
  /\ UNCHANGED <<stop_event, worker, reconnect_count, stream>>

------------------------------------------------------------------------------
(* _google_request_gen.                                                    *)

(* How that could go wrong: only the pill ends it. *)
GenTrustPill ==
  /\ requests = "check"
  /\ requests' = "get"
  /\ UNCHANGED <<node, audio_queue, state, worker, reconnect_count, stale, unanswered>>

GenCheck ==
  /\ requests = "check"
  /\ requests' = IF stop_event THEN "done" ELSE "get"
  /\ UNCHANGED <<node, audio_queue, state, worker, reconnect_count, stale, unanswered>>

GenTake ==
  /\ requests = "get" /\ Take
  /\ IF Head(audio_queue) = Pill
       THEN requests' = "done" /\ UNCHANGED unanswered
       ELSE requests' = "check" /\ unanswered' = TRUE
  /\ UNCHANGED <<node, state, worker, reconnect_count, stale>>

(* get times out. *)
GenEmpty ==
  /\ requests = "get" /\ audio_queue = <<>>
  /\ requests' = "check"
  /\ UNCHANGED <<node, audio_queue, state, worker, reconnect_count, stale, unanswered>>

(* The same for an old stream: the next entry is the last it takes. *)
StaleTake ==
  /\ stale > 0 /\ Take
  /\ stale' = stale - 1
  /\ UNCHANGED <<node, state, worker, reconnect_count, requests, unanswered>>

StaleStop ==
  /\ stale > 0 /\ stop_event
  /\ stale' = stale - 1
  /\ UNCHANGED <<node, audio_queue, state, worker, reconnect_count, requests, unanswered>>

(* The stream is over for the worker. *)
Abandon ==
  /\ requests' = "none"
  /\ stale' = IF requests \in {"check", "get"} /\ stale < MaxStale THEN stale + 1 ELSE stale
  /\ unanswered' = FALSE

------------------------------------------------------------------------------
(* _google_worker.                                                         *)

Goto(from, to) == worker = from /\ worker' = to

(* Import, credentials and client come before the handler: without the     *)
(* library the state is FAILED, on an exception it stays.                  *)
Boot ==
  /\ worker = "boot"
  /\ \/ worker' = "loop" /\ UNCHANGED state
     \/ worker' = "ended" /\ state' = "failed"
     \/ worker' = "ended" /\ UNCHANGED state
  /\ UNCHANGED <<node, audio_queue, reconnect_count, stream>>

Stop ==
  /\ Goto("loop", "exit") /\ stop_event
  /\ UNCHANGED <<node, audio_queue, state, reconnect_count, stream>>

(* How the next could go wrong: one attempt too few. *)
ExhaustedEarly == reconnect_count >= MaxReconnect

Exhausted == reconnect_count > MaxReconnect

GiveUp ==
  /\ Goto("loop", "ended") /\ ~stop_event /\ Exhausted
  /\ state' = "failed"
  /\ UNCHANGED <<node, audio_queue, reconnect_count, stream>>

Connect ==
  /\ Goto("loop", "open") /\ ~stop_event /\ ~Exhausted
  /\ state' = IF reconnect_count = 0 THEN state ELSE "reconnecting"
  /\ UNCHANGED <<node, audio_queue, reconnect_count, stream>>

Open ==
  /\ Goto("open", "responses")
  /\ state' = "streaming"
  /\ requests' = "check"
  /\ UNCHANGED <<node, audio_queue, reconnect_count, stale, unanswered>>

OpenFails ==
  /\ Goto("open", "error")
  /\ UNCHANGED <<node, audio_queue, state, reconnect_count, stream>>

(* A response: its final results are published, or the worker returns. *)
Respond ==
  /\ worker = "responses" /\ unanswered
  /\ IF stop_event
       THEN worker' = "ended" /\ Abandon
       ELSE unanswered' = FALSE /\ UNCHANGED <<worker, requests, stale>>
  /\ UNCHANGED <<node, audio_queue, state, reconnect_count>>

(* The server ends the stream, by itself or because the requests ended. *)
StreamEnds ==
  /\ Goto("responses", IF stop_event THEN "loop" ELSE "drain")
  /\ Abandon
  /\ UNCHANGED <<node, audio_queue, state, reconnect_count>>

StreamFails ==
  /\ Goto("responses", "error")
  /\ Abandon
  /\ UNCHANGED <<node, audio_queue, state, reconnect_count>>

(* How that could go wrong: back off first and keep what waits. *)
HandleWithoutDrain ==
  /\ Goto("error", IF stop_event THEN "exit" ELSE "backoff")
  /\ reconnect_count' = IF stop_event THEN reconnect_count ELSE reconnect_count + 1
  /\ UNCHANGED <<node, audio_queue, state, stream>>

Handle ==
  /\ Goto("error", IF stop_event THEN "exit" ELSE "drain_error")
  /\ UNCHANGED <<node, audio_queue, state, reconnect_count, stream>>

(* _drain_audio_queue *)
Drain ==
  /\ worker \in {"drain", "drain_error"} /\ Take
  /\ UNCHANGED <<node, state, worker, reconnect_count, stream>>

Drained ==
  /\ audio_queue = <<>>
  /\ \/ Goto("drain", "loop") /\ reconnect_count' = 0
     \/ Goto("drain_error", "backoff") /\ reconnect_count' = reconnect_count + 1
  /\ UNCHANGED <<node, audio_queue, state, stream>>

(* The wait, which the stop event cuts short, and a new client. *)
Backoff ==
  /\ Goto("backoff", "loop")
  /\ UNCHANGED <<node, audio_queue, state, reconnect_count, stream>>

Exit ==
  /\ Goto("exit", "ended")
  /\ state' = IF state = "failed" THEN state ELSE "idle"
  /\ UNCHANGED <<node, audio_queue, reconnect_count, stream>>

------------------------------------------------------------------------------
(* _dummy_worker, which reads the queue itself. What it does not publish   *)
(* (silence, no text) it drops: for the queue that is the same.            *)

DummyCheck ==
  /\ Goto("dummy_check", IF stop_event THEN "ended" ELSE "dummy_get")
  /\ UNCHANGED <<node, audio_queue, state, reconnect_count, stream>>

DummyTake ==
  /\ Take
  /\ Goto("dummy_get", IF Head(audio_queue) = Pill THEN "ended" ELSE "dummy_check")
  /\ UNCHANGED <<node, state, reconnect_count, stream>>

DummyEmpty ==
  /\ Goto("dummy_get", "dummy_check") /\ audio_queue = <<>>
  /\ UNCHANGED <<node, audio_queue, state, reconnect_count, stream>>

------------------------------------------------------------------------------
Main == Started \/ SetStop \/ PutPill \/ Close

Generate == GenCheck \/ GenTake \/ GenEmpty

Server == OpenFails \/ Respond \/ StreamEnds \/ StreamFails

(* What the worker does without the server. *)
Work ==
  \/ Boot \/ Stop \/ GiveUp \/ Connect \/ Open
  \/ Handle \/ Drain \/ Backoff \/ Exit

Dummy == DummyCheck \/ DummyTake \/ DummyEmpty

Next ==
  \/ Main \/ Put
  \/ Generate \/ StaleTake \/ StaleStop
  \/ Work \/ Drained \/ Server
  \/ Dummy

Spec == Init /\ [][Next]_vars

(***************************************************************************)
(* The request threads poll every 20 ms and either worker runs; the server *)
(* closes a stream whose requests ended. Only the callbacks under way when *)
(* the executor stopped put anything after that. Nobody has to speak or to *)
(* stop the node, and no stream has to end or to fail.                     *)
(***************************************************************************)
Fairness ==
  /\ WF_vars(Generate) /\ WF_vars(StaleStop)
  /\ WF_vars(Work) /\ WF_vars(Drained) /\ WF_vars(Dummy)
  /\ WF_vars(requests = "done" /\ StreamEnds)
  /\ <>[][stop_event => ~Put]_vars
=============================================================================
