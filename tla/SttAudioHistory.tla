--------------------------- MODULE SttAudioHistory ---------------------------
(***************************************************************************)
(* stt_node's audio path with the history that its properties speak of.    *)
(***************************************************************************)
EXTENDS SttAudio

VARIABLES
  echo,   \* when a chunk was last known to be echo: see Oldest
  known,  \* per thread: echo when it took up its chunk
  quiet   \* per thread: the speaker was off at some time since then

history == <<echo, known, quiet>>
hvars == <<vars, history>>

AudioSteps == {"gate", "speaker", "extend", "tail", "silence", "filter"}
Running == {t \in Threads : thread[t].step \in AudioSteps}

(* The time at which the oldest audio callback that now runs was taken up. *)
(* With one callback at a time, that of the chunk itself; a callback that  *)
(* overlaps an older one may have its deadline overwritten by the older    *)
(* one's.                                                                  *)
Oldest == CHOOSE time \in 0..now :
  /\ \E t \in Running : thread[t].ts = time
  /\ \A t \in Running : time <= thread[t].ts

HInit ==
  /\ Init
  /\ echo = -EchoTail
  /\ known = [t \in Threads |-> -EchoTail]
  /\ quiet = [t \in Threads |-> FALSE]

Quieten == quiet' = [t \in Threads |-> quiet[t] \/ ~speaker_playing']

HTakeAudio(t) ==
  /\ TakeAudio(t)
  /\ known' = [known EXCEPT ![t] = echo]
  /\ quiet' = [quiet EXCEPT ![t] = ~speaker_playing]
  /\ UNCHANGED echo

HExtendTail(t) ==
  /\ ExtendTail(t)
  /\ echo' = Oldest
  /\ UNCHANGED <<known, quiet>>

HStep(t) == Step(t) /\ Quieten /\ UNCHANGED <<echo, known>>

HElapse == Elapse /\ UNCHANGED history

HNext ==
  \/ \E t \in Threads : HTakeAudio(t) \/ HExtendTail(t) \/ HStep(t)
  \/ HElapse

HSpec == HInit /\ [][HNext]_hvars

------------------------------------------------------------------------------
(* Properties.                                                             *)

Times == 0..MaxTime
Steps == {"free", "set_speaker", "set_estop"} \cup AudioSteps
Activity == [step : Steps, ts : Times, flag : BOOLEAN]

(* Every variable stays in its range. *)
TypeOK ==
  /\ now \in Times
  /\ estop_active \in BOOLEAN
  /\ speaker_playing \in BOOLEAN
  /\ echo_tail_end \in 0..(MaxTime + EchoTail)
  /\ thread \in [Threads -> Activity]
  /\ last_queued \in {"nothing", "silence", "speech"}

(* A chunk is queued as speech only if the speaker's flag was off at some  *)
(* moment of its callback, and if EchoTail had passed since the last chunk *)
(* that was found to be echo before it was taken up. Callbacks overlap and *)
(* overwrite each other's deadline; that costs no more of the tail than    *)
(* the overlap lasts (see Oldest). So much and no more: the tail is not    *)
(* counted from when the flag clears, and a chunk taken up while the robot *)
(* still speaks passes if the flag clears before it is read. What the      *)
(* documentation promises is TailAfterSpeaking in SttAudioTail.            *)
TailAfterLastEcho ==
  \A t \in Threads :
    At(t, "filter") => quiet[t] /\ thread[t].ts >= known[t] + EchoTail
=============================================================================
