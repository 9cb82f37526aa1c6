----------------------------- MODULE SpeechPath -----------------------------
(***************************************************************************)
(* orchestrator_node and tts_node, joined by the topics say and stop: what *)
(* the orchestrator's speak connector does becomes audio. The two topics   *)
(* are ordered each for itself; nothing orders a message of one against a  *)
(* message of the other.                                                   *)
(*                                                                         *)
(* Say messages are numbered in the order of publication, up to MaxSaid    *)
(* (bound of the model). A stop message carries the number of the last say *)
(* message published before it, which the real one has not.                *)
(***************************************************************************)
EXTENDS Integers, Sequences

CONSTANTS
  Scenarios, Utterances, Verdicts, NoVerdict, Horizon,   \* of the orchestrator
  Threads, Main, ChunkCounts,                            \* of tts_node
  MaxSaid

VARIABLES
  active, index, criterion, started, age,
  latest_verdict, transcripts,
  task_status, cmds, active_subtask,
  estop_active, inflight_task, inflight_loop, pool, worker, thread, audio,
  said,        \* how many say messages were published
  say_topic,   \* /cortex/tts/say: undelivered messages
  stop_topic,  \* /cortex/tts/stop: undelivered messages
  meant        \* per thread: the last say message its stop was meant for

Messages == 1..MaxSaid

Orc == INSTANCE Orchestrator
Tts == INSTANCE TtsNode WITH Utterances <- Messages, Blank <- {}

orc == <<active, index, criterion, started, age, latest_verdict, transcripts,
         task_status, cmds, active_subtask>>
tts == <<estop_active, inflight_task, inflight_loop, pool, worker, thread, audio>>
topics == <<said, say_topic, stop_topic>>
vars == <<orc, tts, topics, meant>>

IsSay(cmd) == cmd.op = "dispatch" /\ cmd.label = "speak"
IsStop(cmd) == cmd.op = "cancel" /\ cmd.label = "speak"

Says(commands) == Len(SelectSeq(commands, IsSay))
Stops(commands) == Len(SelectSeq(commands, IsStop))

(* SpeakConnector: dispatch publishes on say, cancel on stop. A callback   *)
(* cancels before it announces (CancelBeforeCommand), so its stop is meant *)
(* for what was said before.                                               *)
Connect ==
  /\ said' = said + Says(cmds')
  /\ said' <= MaxSaid
  /\ say_topic' = say_topic \o [i \in 1..Says(cmds') |-> said + i]
  /\ stop_topic' = stop_topic \o [i \in 1..Stops(cmds') |-> said]

OrcStep == Orc!Next /\ Connect /\ UNCHANGED <<tts, meant>>

DeliverSay(t) ==
  /\ say_topic # <<>>
  /\ Tts!TakeSay(t, Head(say_topic))
  /\ say_topic' = Tail(say_topic)
  /\ UNCHANGED <<orc, said, stop_topic, meant>>

DeliverStop(t) ==
  /\ stop_topic # <<>>
  /\ Tts!TakeBargeIn(t)
  /\ meant' = [meant EXCEPT ![t] = Head(stop_topic)]
  /\ stop_topic' = Tail(stop_topic)
  /\ UNCHANGED <<orc, said, say_topic>>

Callback(t) == Tts!Callback(t) /\ UNCHANGED <<orc, topics, meant>>

Work == Tts!Work /\ UNCHANGED <<orc, topics, meant>>

Init ==
  /\ Orc!Init /\ Tts!Init
  /\ said = 0 /\ say_topic = <<>> /\ stop_topic = <<>>
  /\ meant = [t \in Threads |-> 0]

Next ==
  \/ OrcStep
  \/ \E t \in Threads : DeliverSay(t) \/ DeliverStop(t) \/ Callback(t)
  \/ Work

Spec == Init /\ [][Next]_vars

------------------------------------------------------------------------------
(* What the documentation says of the program and the code does not do.    *)

(* orchestrator_node.py:379-381: the cancellation is sent before the       *)
(* announcement so that barge-in does not cut the on_fail message: a stop  *)
(* cuts nothing that was said after it.                                    *)
BargeInSparesLaterMessages ==
  [][\A t \in Threads : Tts!PostCancel(t) /\ worker'.doomed /\ ~worker.doomed
       => worker.text <= meant[t]]_vars
=============================================================================
