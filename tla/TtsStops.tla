------------------------------ MODULE TtsStops ------------------------------
(***************************************************************************)
(* tts_node with a note of the stops that met the utterance in flight: a   *)
(* barge-in or an E-STOP whose callback read both fields of that utterance *)
(* and handed task.cancel to its loop.                                     *)
(***************************************************************************)
EXTENDS TtsHistory

VARIABLE stopped  \* such a callback is over, and the utterance still the worker's

svars == <<hvars, stopped>>

MeetsUtterance(t) ==
  /\ HPostCancel(t)
  /\ thread[t].task = worker.text /\ thread[t].loop = worker.text

SInit == HInit /\ stopped = FALSE

SNext ==
  /\ HNext
  /\ stopped' = (worker'.step # "idle" /\ (stopped \/ \E t \in Threads : MeetsUtterance(t)))

SSpec == SInit /\ [][SNext]_svars

------------------------------------------------------------------------------
(* What the documentation says of the program and the code does not do.    *)

(* tts_node.py:143, 8-9: a barge-in cuts the speech that is in flight      *)
(* immediately; once its callback has found the utterance and returned, no *)
(* more of it is heard. The same is said of E-STOP at 149-152.             *)
StopCutsSpeech == [][PublishChunk => ~stopped]_svars
=============================================================================
