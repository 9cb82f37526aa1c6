----------------------------- MODULE TtsHistory -----------------------------
(***************************************************************************)
(* tts_node in an environment that asks for each utterance once, in        *)
(* ascending order, barges in, toggles the E-STOP and ends the node at any *)
(* time; with the history its properties speak of.                         *)
(***************************************************************************)
EXTENDS TtsNode, FiniteSets

VARIABLES
  submitted,  \* the utterances handed to the pool so far, in that order
  known,      \* per thread: those of them when its cancel read the task
  sounding    \* the worker's utterance was past its check when E-STOP last rose

history == <<submitted, known, sounding>>
hvars == <<vars, history>>

Submitted == {submitted[i] : i \in DOMAIN submitted}
Asked == Submitted \cup {thread[t].text : t \in {s \in Threads : At(s, "say")}}

HInit ==
  /\ Init
  /\ submitted = <<>>
  /\ known = [t \in Actors |-> {}]
  /\ sounding = FALSE

Say(t) ==
  \E text \in Utterances \ Asked :
    /\ \A other \in Utterances \ Asked : text <= other
    /\ TakeSay(t, text)
    /\ UNCHANGED history

BargeIn(t) == TakeBargeIn(t) /\ UNCHANGED history

Estop(t) ==
  \E active \in BOOLEAN :
    /\ TakeEstop(t, active)
    /\ UNCHANGED history

HSubmit(t) ==
  /\ Submit(t)
  /\ submitted' = IF PoolIsShut THEN submitted ELSE Append(submitted, thread[t].text)
  /\ UNCHANGED <<known, sounding>>

Rises(t) == thread[t].active /\ ~estop_active

HSetEstop(t) ==
  /\ SetEstop(t)
  /\ sounding' = IF Rises(t) THEN WorkerAt("publish") ELSE sounding
  /\ UNCHANGED <<submitted, known>>

HReadEstop(t) == ReadEstop(t) /\ UNCHANGED history

HReadTask(t) ==
  /\ ReadTask(t)
  /\ known' = [known EXCEPT ![t] = Submitted]
  /\ UNCHANGED <<submitted, sounding>>

Returns(t) ==
  /\ known' = IF thread'[t].step \in {"free", "shutdown"} THEN [known EXCEPT ![t] = {}] ELSE known
  /\ UNCHANGED <<submitted, sounding>>

HReadLoop(t) == ReadLoop(t) /\ Returns(t)
HPostCancel(t) == PostCancel(t) /\ Returns(t)

(* A callback that was taken up and is not finished. *)
HCallback(t) ==
  \/ HSubmit(t) \/ HSetEstop(t) \/ HReadEstop(t)
  \/ HReadTask(t) \/ HReadLoop(t) \/ HPostCancel(t)

HWork ==
  /\ Work
  /\ sounding' = IF worker'.step = "idle" THEN FALSE ELSE sounding
  /\ UNCHANGED <<submitted, known>>

HInterrupt == Interrupt /\ UNCHANGED history

HClose == (ShutPool \/ Destroy) /\ UNCHANGED history

HNext ==
  \/ \E t \in Threads : Say(t) \/ BargeIn(t) \/ Estop(t)
  \/ \E t \in Actors : HCallback(t)
  \/ HInterrupt \/ HClose
  \/ HWork

HSpec == HInit /\ [][HNext]_hvars

(***************************************************************************)
(* The executor and the pool run the code they took up; a request ends     *)
(* within request_timeout_s. Nobody has to speak, barge in, press the      *)
(* E-STOP or end the node.                                                 *)
(***************************************************************************)
HFairSpec ==
  /\ HSpec
  /\ \A t \in Actors : WF_hvars(HCallback(t))
  /\ WF_hvars(HClose)
  /\ WF_hvars(HWork)

------------------------------------------------------------------------------
(* Properties.                                                             *)

WorkerSteps == {"idle", "gate", "arm_task", "arm_loop", "await", "check", "publish",
                "clear_task", "clear_loop", "ended"}
Texts == Utterances \cup {None}
WorkerStates ==
  [step : WorkerSteps, text : Texts, doomed : BOOLEAN, chunks : ChunkCounts \cup {0}, sent : Nat]
Activities ==
  [step : {"free", "say", "estop", "estop_read", "read_task", "read_loop", "post",
           "shutdown", "destroy", "closed"},
   text : Texts, active : BOOLEAN, task : Texts, loop : Texts]
Chunks == [text : Utterances, chunk : Nat \ {0}, chunks : ChunkCounts]

(* Every variable stays in its range. *)
TypeOK ==
  /\ estop_active \in BOOLEAN
  /\ inflight_task \in Texts /\ inflight_loop \in Texts
  /\ pool \in Seq(Utterances)
  /\ worker \in WorkerStates
  /\ thread \in [Actors -> Activities]
  /\ audio \in Seq(Chunks)

Position(text) == CHOOSE i \in DOMAIN submitted : submitted[i] = text

(* A chunk that goes out is the next one of the utterance heard last, or   *)
(* the first of one that the pool was handed later: no utterance is heard  *)
(* twice, out of turn or mixed with another, and none is taken up in its   *)
(* middle, however requests fail and barge-ins, E-STOPs and the shutdown   *)
(* come (a pool of one thread, and one attempt per utterance).             *)
SpokenInOrder ==
  \A i \in DOMAIN audio :
    /\ audio[i].chunk <= audio[i].chunks
    /\ \/ audio[i].chunk = 1 /\ (i > 1 => Position(audio[i - 1].text) < Position(audio[i].text))
       \/ i > 1 /\ audio[i] = [audio[i - 1] EXCEPT !.chunk = @ + 1]

(* A cancellation kills only an utterance that had been handed to the pool *)
(* when its callback read which one is in flight: what is handed over      *)
(* after that read is spared, however late the cancellation takes effect.  *)
(* (What was asked for after the stop was sent, but before the callback    *)
(* read, is not: see SpeechPath.)                                          *)
LaterSpeechSpared ==
  [][\A t \in Actors : HPostCancel(t) /\ worker'.doomed /\ ~worker.doomed
       => worker.text \in known[t]]_hvars

(* While the worker is between two utterances nothing is in flight, so a   *)
(* cancellation then is void and is_synthesizing is false.                 *)
NothingInFlightBetween ==
  worker.step \in {"idle", "gate", "arm_task"} => inflight_task = None /\ inflight_loop = None

(* Under E-STOP the only audio that still goes out is the rest of the one  *)
(* utterance that was past the check after its round-trip when it rose.    *)
EstopLetsOutOnlyOne ==
  [][PublishChunk /\ estop_active => sounding]_hvars

(* When nobody asks for more, every utterance that was asked for has been  *)
(* disposed of: spoken, dropped, cut short, or refused by a pool that was  *)
(* shut down. A failed or cancelled one does not block those behind it,    *)
(* however often barge-ins and E-STOPs come; and when the node was         *)
(* destroyed the pool's thread, which the interpreter waits for, has ended.*)
Disposed ==
  /\ pool = <<>> /\ \A t \in Threads : ~At(t, "say")
  /\ WorkerAt("ended") \/ (WorkerAt("idle") /\ ~PublisherIsGone)

NoneIsStuck == []<>Disposed
=============================================================================
