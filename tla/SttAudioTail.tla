---------------------------- MODULE SttAudioTail ----------------------------
(***************************************************************************)
(* stt_node's audio path with a note of when the robot stopped speaking,   *)
(* for the tail that its documentation promises.                           *)
(***************************************************************************)
EXTENDS SttAudio

VARIABLES
  muted,    \* a chunk was muted since speaker_playing last rose
  cleared,  \* when speaker_playing last cleared after that
  in_tail   \* per thread: its chunk was taken up within EchoTail of then

tvars == <<vars, muted, cleared, in_tail>>

TInit ==
  /\ Init
  /\ muted = FALSE
  /\ cleared = -EchoTail
  /\ in_tail = [t \in Threads |-> FALSE]

TTakeAudio(t) ==
  /\ TakeAudio(t)
  /\ in_tail' = [in_tail EXCEPT ![t] = ~speaker_playing /\ now < cleared + EchoTail]
  /\ UNCHANGED <<muted, cleared>>

TExtendTail(t) ==
  /\ ExtendTail(t)
  /\ muted' = TRUE
  /\ UNCHANGED <<cleared, in_tail>>

Rises == ~speaker_playing /\ speaker_playing'
Clears == speaker_playing /\ ~speaker_playing'

TStep(t) ==
  /\ Step(t)
  /\ muted' = (muted /\ ~Rises)
  /\ cleared' = IF Clears /\ muted THEN now ELSE cleared
  /\ UNCHANGED in_tail

TElapse == Elapse /\ UNCHANGED <<muted, cleared, in_tail>>

TNext ==
  \/ \E t \in Threads : TTakeAudio(t) \/ TExtendTail(t) \/ TStep(t)
  \/ TElapse

TSpec == TInit /\ [][TNext]_tvars

------------------------------------------------------------------------------
(* What the documentation says of the program and the code does not do.    *)

(* stt_node.py:11-12, 126: microphone input is dropped for EchoTail after  *)
(* SpeakerState.playing clears; a chunk that arrives in that time is not   *)
(* queued as speech. (Only announcements of which a chunk was muted count: *)
(* one between two chunks is another matter.)                              *)
TailAfterSpeaking ==
  \A t \in Threads : At(t, "filter") => ~in_tail[t]
=============================================================================
