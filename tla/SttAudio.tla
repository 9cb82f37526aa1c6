------------------------------ MODULE SttAudio ------------------------------
(***************************************************************************)
(* stt_node, from the microphone to the audio queue: chunks are dropped    *)
(* under E-STOP, replaced by silence while the robot speaks and for        *)
(* EchoTail afterwards, and else filtered and queued.                      *)
(*                                                                         *)
(* The callbacks belong to a reentrant group and run on several threads    *)
(* without a lock; every read and write of a shared field is a step. Time  *)
(* is the monotonic clock in units of which EchoTail is a multiple. The    *)
(* deadline None, which mutes nothing, is the deadline 0. The lead mute is *)
(* never armed (nothing calls notify_tts_onset) and is left out, as is the *)
(* content of a chunk and with it the filter.                              *)
(***************************************************************************)
EXTENDS Integers

CONSTANTS
  Threads,  \* the executor's threads
  EchoTail, \* echo_cancel_tail_ms
  MaxTime   \* bound of the model: the clock stops here

ASSUME TimeAssumption == EchoTail \in Nat /\ MaxTime \in Nat

VARIABLES
  now,              \* time.monotonic()
  estop_active,     \* _estop_active
  speaker_playing,  \* _speaker_playing
  echo_tail_end,    \* _echo_tail_end
  thread,           \* what each executor thread does
  last_queued       \* what was last put into the audio queue

vars == <<now, estop_active, speaker_playing, echo_tail_end, thread, last_queued>>

Free == [step |-> "free", ts |-> 0, flag |-> FALSE]

Init ==
  /\ now = 0
  /\ estop_active = FALSE
  /\ speaker_playing = FALSE
  /\ echo_tail_end = 0
  /\ thread = [t \in Threads |-> Free]
  /\ last_queued = "nothing"

At(t, step) == thread[t].step = step
Goto(t, step) == thread' = [thread EXCEPT ![t].step = step]
Return(t) == thread' = [thread EXCEPT ![t] = Free]

------------------------------------------------------------------------------
(* _on_speaker_state and _on_estop_msg: taken up, then assigned. *)

TakeFlag(t, step) ==
  /\ At(t, "free")
  /\ \E flag \in BOOLEAN :
       thread' = [thread EXCEPT ![t] = [Free EXCEPT !.step = step, !.flag = flag]]
  /\ UNCHANGED <<now, estop_active, speaker_playing, echo_tail_end, last_queued>>

TakeSpeakerState(t) == TakeFlag(t, "set_speaker")
TakeEstop(t) == TakeFlag(t, "set_estop")

SetSpeaker(t) ==
  /\ At(t, "set_speaker")
  /\ speaker_playing' = thread[t].flag
  /\ Return(t)
  /\ UNCHANGED <<now, estop_active, echo_tail_end, last_queued>>

SetEstop(t) ==
  /\ At(t, "set_estop")
  /\ estop_active' = thread[t].flag
  /\ Return(t)
  /\ UNCHANGED <<now, speaker_playing, echo_tail_end, last_queued>>

------------------------------------------------------------------------------
(* _on_audio_msg, which reads the clock, and _on_audio_chunk. *)

TakeAudio(t) ==
  /\ At(t, "free")
  /\ thread' = [thread EXCEPT ![t] = [Free EXCEPT !.step = "gate", !.ts = now]]
  /\ UNCHANGED <<now, estop_active, speaker_playing, echo_tail_end, last_queued>>

EstopGate(t) ==
  /\ At(t, "gate")
  /\ IF estop_active THEN Return(t) ELSE Goto(t, "speaker")
  /\ UNCHANGED <<now, estop_active, speaker_playing, echo_tail_end, last_queued>>

(* _check_echo_mute, in three steps: the flag, and the deadline it extends *)
(* or that decides without it.                                             *)
ReadSpeaker(t) ==
  /\ At(t, "speaker")
  /\ Goto(t, IF speaker_playing THEN "extend" ELSE "tail")
  /\ UNCHANGED <<now, estop_active, speaker_playing, echo_tail_end, last_queued>>

(* How that could go wrong: milliseconds are added to seconds; the         *)
(* deadline is set when none is pending, and not extended.                 *)
ExtendInMilliseconds(t) ==
  /\ At(t, "extend")
  /\ echo_tail_end' = thread[t].ts + 1000 * EchoTail
  /\ Goto(t, "silence")
  /\ UNCHANGED <<now, estop_active, speaker_playing, last_queued>>

ExtendOnce(t) ==
  /\ At(t, "extend")
  /\ echo_tail_end' = IF thread[t].ts < echo_tail_end THEN echo_tail_end
                      ELSE thread[t].ts + EchoTail
  /\ Goto(t, "silence")
  /\ UNCHANGED <<now, estop_active, speaker_playing, last_queued>>

ExtendTail(t) ==
  /\ At(t, "extend")
  /\ echo_tail_end' = thread[t].ts + EchoTail
  /\ Goto(t, "silence")
  /\ UNCHANGED <<now, estop_active, speaker_playing, last_queued>>

ReadTail(t) ==
  /\ At(t, "tail")
  /\ Goto(t, IF thread[t].ts < echo_tail_end THEN "silence" ELSE "filter")
  /\ UNCHANGED <<now, estop_active, speaker_playing, echo_tail_end, last_queued>>

(* put_nowait; a full queue is the matter of SttWorker. *)
Queue(t, step, what) ==
  /\ At(t, step)
  /\ last_queued' = what
  /\ Return(t)
  /\ UNCHANGED <<now, estop_active, speaker_playing, echo_tail_end>>

QueueSilence(t) == Queue(t, "silence", "silence")
QueueSpeech(t) == Queue(t, "filter", "speech")

Elapse ==
  /\ now < MaxTime
  /\ now' = now + 1
  /\ UNCHANGED <<estop_active, speaker_playing, echo_tail_end, thread, last_queued>>

Step(t) ==
  \/ TakeSpeakerState(t) \/ SetSpeaker(t)
  \/ TakeEstop(t) \/ SetEstop(t)
  \/ EstopGate(t) \/ ReadSpeaker(t) \/ ReadTail(t)
  \/ QueueSilence(t) \/ QueueSpeech(t)

Next ==
  \/ \E t \in Threads : TakeAudio(t) \/ ExtendTail(t) \/ Step(t)
  \/ Elapse

Spec == Init /\ [][Next]_vars
=============================================================================
