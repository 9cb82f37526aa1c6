-------------------------- MODULE SttWorkerHistory --------------------------
(***************************************************************************)
(* The recognition worker of stt_node with the history that its properties *)
(* speak of: how much of the queue is how old, and the attempts.           *)
(***************************************************************************)
EXTENDS SttWorker

VARIABLES
  old,       \* how many entries were queued before a stream ended
  waiting,   \* how many entries were queued before the last back-off was over
  attempts   \* reconnections since the last stream that ended normally

history == <<old, waiting, attempts>>
hvars == <<vars, history>>

HInit == Init /\ old = 0 /\ waiting = 0 /\ attempts = 0

(* Entries leave at the head, so the oldest are counted off first. *)
Remaining(count) ==
  IF Len(audio_queue') < Len(audio_queue) /\ count > 0 THEN count - 1 ELSE count

Over == StreamEnds \/ StreamFails \/ OpenFails

HNext ==
  /\ Next
  /\ old' = IF main' = "closed" THEN 0
            ELSE IF Over THEN Len(audio_queue) ELSE Remaining(old)
  /\ waiting' = IF main' = "closed" THEN 0
                ELSE IF Backoff THEN Len(audio_queue) ELSE Remaining(waiting)
  /\ attempts' = IF Connect /\ reconnect_count > 0 THEN attempts + 1
                 ELSE IF worker = "drain" /\ Drained THEN 0 ELSE attempts

HSpec == HInit /\ [][HNext]_hvars

HFairSpec == HSpec /\ Fairness

------------------------------------------------------------------------------
(* Properties.                                                             *)

WorkerSteps == {"boot", "loop", "open", "responses", "error", "drain", "drain_error",
                "backoff", "exit", "ended", "dummy_check", "dummy_get"}

(* Every variable stays in its range. *)
TypeOK ==
  /\ audio_queue \in Seq({Chunk, Pill}) /\ Len(audio_queue) <= MaxQueue
  /\ stop_event \in BOOLEAN
  /\ state \in {"idle", "connecting", "streaming", "reconnecting", "failed"}
  /\ main \in {"start", "spin", "pill", "join", "closed"}
  /\ worker \in WorkerSteps
  /\ reconnect_count \in 0..(MaxReconnect + 1)
  /\ requests \in {"none", "check", "get", "done"}
  /\ stale \in 0..MaxStale
  /\ unanswered \in BOOLEAN

(* _drain_audio_queue: audio that was queued before a stream ended or      *)
(* failed is not recognised by a later one, although callbacks go on       *)
(* queueing and the request thread of the old stream goes on taking.       *)
NoCarryOver ==
  [][GenTake /\ Head(audio_queue) = Chunk => old = 0]_hvars

(* The worker reports FAILED only after all _MAX_RECONNECT reconnections   *)
(* it was allowed, with no stream between them that ended normally.        *)
GivesUpAfterAllAttempts ==
  [][Goto("loop", "ended") => attempts = MaxReconnect]_hvars

(* destroy_node: after the stop either worker and every request thread end *)
(* also when the pill found the queue full, was taken by the request       *)
(* thread of an old stream or was drained.                                 *)
AllStopped == worker = "ended" /\ requests \in {"none", "done"} /\ stale = 0
StopIsHeard == stop_event ~> AllStopped

------------------------------------------------------------------------------
(* What the documentation says of the program and the code does not do.    *)

(* stt_node.py:319: all stale audio that piled up before a reconnection is *)
(* discarded: none that was queued during the back-off is recognised.      *)
FlushedBeforeReconnect ==
  [][GenTake /\ Head(audio_queue) = Chunk /\ reconnect_count > 0 => waiting = 0]_hvars
=============================================================================
