------------------------------ MODULE SttProofs ------------------------------
(***************************************************************************)
(* Proofs about stt_node's audio path, for any number of executor threads, *)
(* any tail and any bound of the clock.                                    *)
(***************************************************************************)
EXTENDS SttAudioHistory, WellFoundedInduction, TLAPS

(* A set of times has an earliest one. *)
LEMMA Earliest ==
  ASSUME NEW T \in SUBSET Nat, T # {}
  PROVE  \E x \in T : \A y \in T : x <= y
<1>1. PICK x \in T : \A y \in T : ~ (<<y, x>> \in OpToRel(<, Nat))
  BY NatLessThanWellFounded, WFMin
<1>2. ASSUME NEW y \in T PROVE x <= y
  <2>1. ~(y < x)
    BY <1>1 DEF OpToRel
  <2>. QED  BY <2>1
<1>. QED  BY <1>2

(* What a thread may do next is again an activity.                         *)
LEMMA FreeType == Free \in Activity
  BY TimeAssumption DEF TimeAssumption, Free, Activity, Steps, Times

LEMMA NewActivity ==
  ASSUME NEW step \in Steps, NEW ts \in Times, NEW flag \in BOOLEAN
  PROVE  /\ [Free EXCEPT !.step = step, !.ts = ts] \in Activity
         /\ [Free EXCEPT !.step = step, !.flag = flag] \in Activity
         /\ [Free EXCEPT !.step = step, !.ts = ts].ts = ts
         /\ [Free EXCEPT !.step = step, !.ts = ts].step = step
         /\ [Free EXCEPT !.step = step, !.flag = flag].step = step
  BY FreeType DEF Free, Activity

LEMMA NextStep ==
  ASSUME NEW a \in Activity, NEW step \in Steps
  PROVE  /\ [a EXCEPT !.step = step] \in Activity
         /\ [a EXCEPT !.step = step].step = step
         /\ [a EXCEPT !.step = step].ts = a.ts
  BY DEF Activity

LEMMA Fields ==
  ASSUME NEW a \in Activity
  PROVE  a.step \in Steps /\ a.ts \in Times /\ a.flag \in BOOLEAN
  BY DEF Activity

(* The type invariant is inductive. *)
LEMMA TypeInit == HInit => TypeOK
<1>1. 0 \in Times /\ 0 \in 0..(MaxTime + EchoTail)
  BY TimeAssumption DEF TimeAssumption, Times
<1>. QED  BY <1>1, FreeType DEF HInit, Init, TypeOK

LEMMA TypeStep == TypeOK /\ [HNext]_hvars => TypeOK'
<1>. SUFFICES ASSUME TypeOK, [HNext]_hvars PROVE TypeOK'
  OBVIOUS
<1>. USE TimeAssumption, FreeType DEF TimeAssumption, TypeOK
<1>1. ASSUME NEW t \in Threads, HTakeAudio(t) PROVE TypeOK'
  <2>1. [Free EXCEPT !.step = "gate", !.ts = now] \in Activity
    BY NewActivity DEF Steps, AudioSteps
  <2>. QED  BY <1>1, <2>1 DEF HTakeAudio, TakeAudio
<1>2. ASSUME NEW t \in Threads, HExtendTail(t) PROVE TypeOK'
  <2>1. [thread[t] EXCEPT !.step = "silence"] \in Activity
    BY NextStep DEF Steps, AudioSteps
  <2>2. thread[t].ts + EchoTail \in 0..(MaxTime + EchoTail)
    BY Fields DEF Times
  <2>. QED  BY <1>2, <2>1, <2>2 DEF HExtendTail, ExtendTail, Goto
<1>3. ASSUME NEW t \in Threads, HStep(t) PROVE TypeOK'
  <2>1. CASE TakeSpeakerState(t) \/ TakeEstop(t)
    <3>1. ASSUME NEW step \in {"set_speaker", "set_estop"}, TakeFlag(t, step) PROVE TypeOK'
      <4>1. ASSUME NEW flag \in BOOLEAN
            PROVE  [Free EXCEPT !.step = step, !.flag = flag] \in Activity
        BY 0 \in Times, NewActivity DEF Steps, Times
      <4>. QED  BY <3>1, <4>1 DEF TakeFlag
    <3>. QED  BY <2>1, <3>1 DEF TakeSpeakerState, TakeEstop
  <2>2. CASE SetSpeaker(t)
    BY <2>2, Fields DEF SetSpeaker, Return
  <2>3. CASE SetEstop(t)
    BY <2>3, Fields DEF SetEstop, Return
  <2>4. CASE EstopGate(t)
    <3>1. [thread[t] EXCEPT !.step = "speaker"] \in Activity
      BY NextStep DEF Steps, AudioSteps
    <3>. QED  BY <2>4, <3>1 DEF EstopGate, Return, Goto
  <2>5. CASE ReadSpeaker(t)
    <3>1. \A step \in {"extend", "tail"} : [thread[t] EXCEPT !.step = step] \in Activity
      BY NextStep DEF Steps, AudioSteps
    <3>. QED  BY <2>5, <3>1 DEF ReadSpeaker, Goto
  <2>6. CASE ReadTail(t)
    <3>1. \A step \in {"silence", "filter"} : [thread[t] EXCEPT !.step = step] \in Activity
      BY NextStep DEF Steps, AudioSteps
    <3>. QED  BY <2>6, <3>1 DEF ReadTail, Goto
  <2>7. CASE QueueSilence(t) \/ QueueSpeech(t)
    BY <2>7 DEF QueueSilence, QueueSpeech, Queue, Return
  <2>. QED  BY <1>3, <2>1, <2>2, <2>3, <2>4, <2>5, <2>6, <2>7 DEF HStep, Step
<1>4. CASE HElapse
  BY <1>4 DEF HElapse, Elapse, Times
<1>5. CASE UNCHANGED hvars
  BY <1>5 DEF hvars, vars
<1>. QED  BY <1>1, <1>2, <1>3, <1>4, <1>5 DEF HNext

(* Every variable of the audio path stays in its range. *)
THEOREM AudioTypeCorrect == HSpec => []TypeOK
<1>. QED  BY TypeInit, TypeStep, PTL DEF HSpec

------------------------------------------------------------------------------
(* The deadline always covers echo, although any running callback may      *)
(* overwrite it with its own: none that runs was taken up before echo.     *)

DeadlineCovers == echo \in Int /\ echo <= now /\ echo + EchoTail <= echo_tail_end
RunningSince == \A t \in Running : echo <= thread[t].ts
KnownBefore == known \in [Threads -> Int] /\ \A t \in Threads : known[t] <= echo
QuietTail ==
  /\ quiet \in [Threads -> BOOLEAN]
  /\ \A t \in Threads : thread[t].step \in {"tail", "filter"} => quiet[t]

(* The clock only moves on. *)
StartsInPast == \A t \in Running : thread[t].ts <= now

EchoInv == StartsInPast /\ DeadlineCovers /\ RunningSince /\ KnownBefore /\ QuietTail /\ TailAfterLastEcho

LEMMA OldestType ==
  ASSUME TypeOK, StartsInPast, Running # {}
  PROVE  /\ Oldest \in 0..now
         /\ \E t \in Running : thread[t].ts = Oldest
         /\ \A t \in Running : Oldest <= thread[t].ts
<1>. DEFINE Starts == {thread[t].ts : t \in Running}
<1>1. Starts \in SUBSET Nat /\ Starts # {}
  BY Fields, TimeAssumption DEF TypeOK, Running, Times, TimeAssumption
<1>2. PICK x \in Starts : \A y \in Starts : x <= y
  BY <1>1, Earliest
<1>3. x \in 0..now /\ (\E t \in Running : thread[t].ts = x)
      /\ (\A t \in Running : x <= thread[t].ts)
  BY <1>1, <1>2 DEF StartsInPast, TypeOK, Times
<1>. HIDE DEF Starts
<1>. QED  BY <1>3 DEF Oldest

LEMMA EchoInit == HInit => EchoInv
<1>. SUFFICES ASSUME HInit PROVE EchoInv
  OBVIOUS
<1>1. Running = {}
  BY DEF HInit, Init, Running, AudioSteps, Free
<1>2. \A t \in Threads : thread[t].step = "free"
  BY DEF HInit, Init, Free
<1>. QED
  BY <1>1, <1>2, TimeAssumption
  DEF HInit, Init, EchoInv, StartsInPast, DeadlineCovers, RunningSince, KnownBefore, QuietTail,
      TailAfterLastEcho, At, TimeAssumption

LEMMA EchoStep == TypeOK /\ EchoInv /\ [HNext]_hvars => EchoInv'
<1>. SUFFICES ASSUME TypeOK, EchoInv, [HNext]_hvars PROVE EchoInv'
  OBVIOUS
<1>. USE TimeAssumption DEF TimeAssumption
<1>0. /\ now \in Int /\ echo \in Int /\ echo_tail_end \in Int
      /\ \A u \in Threads : thread[u] \in Activity /\ thread[u].ts \in Int /\ known[u] \in Int
  BY Fields DEF TypeOK, EchoInv, DeadlineCovers, KnownBefore, Times
(* A callback is taken up: its chunk is no older than any other. *)
<1>1. ASSUME NEW t \in Threads, HTakeAudio(t) PROVE EchoInv'
  <2>. DEFINE a == [Free EXCEPT !.step = "gate", !.ts = now]
  <2>1. a.ts = now /\ a.step = "gate"
    BY NewActivity DEF TypeOK, Steps, AudioSteps
  <2>2. /\ thread' = [thread EXCEPT ![t] = a]
        /\ known' = [known EXCEPT ![t] = echo]
        /\ quiet' = [quiet EXCEPT ![t] = ~speaker_playing]
        /\ UNCHANGED <<now, speaker_playing, echo_tail_end, echo>>
    BY <1>1 DEF HTakeAudio, TakeAudio
  <2>. HIDE DEF a
  <2>3. /\ thread'[t] = a
        /\ \A u \in Threads \ {t} : thread'[u] = thread[u] /\ known'[u] = known[u]
                                   /\ quiet'[u] = quiet[u]
        /\ known'[t] = echo
    BY <2>2 DEF TypeOK, EchoInv, KnownBefore, QuietTail
  <2>4. StartsInPast' /\ RunningSince'
    BY <1>0, <2>1, <2>2, <2>3 DEF EchoInv, StartsInPast, RunningSince, DeadlineCovers, Running
  <2>5. DeadlineCovers' /\ KnownBefore'
    BY <1>0, <2>2, <2>3 DEF EchoInv, DeadlineCovers, KnownBefore
  <2>6. QuietTail'
    BY <2>1, <2>2, <2>3 DEF EchoInv, QuietTail, TypeOK
  <2>7. TailAfterLastEcho'
    BY <2>1, <2>3 DEF EchoInv, TailAfterLastEcho, At
  <2>. QED  BY <2>4, <2>5, <2>6, <2>7 DEF EchoInv
(* The deadline is written: it covers what the oldest callback would write. *)
<1>2. ASSUME NEW t \in Threads, HExtendTail(t) PROVE EchoInv'
  <2>1. t \in Running
    BY <1>2 DEF HExtendTail, ExtendTail, At, Running, AudioSteps
  <2>2. /\ Oldest \in 0..now
        /\ \E u \in Running : thread[u].ts = Oldest
        /\ \A u \in Running : Oldest <= thread[u].ts
    BY <2>1, OldestType DEF EchoInv
  <2>3. echo <= Oldest
    BY <1>0, <2>2 DEF EchoInv, RunningSince
  <2>4. /\ echo_tail_end' = thread[t].ts + EchoTail
        /\ thread' = [thread EXCEPT ![t].step = "silence"]
        /\ echo' = Oldest
        /\ UNCHANGED <<now, known, quiet>>
    BY <1>2 DEF HExtendTail, ExtendTail, Goto
  <2>5. /\ thread'[t].step = "silence" /\ thread'[t].ts = thread[t].ts
        /\ \A u \in Threads \ {t} : thread'[u] = thread[u]
    BY <1>0, <2>4, NextStep DEF TypeOK, Steps, AudioSteps
  <2>6. \A u \in Threads : thread'[u].ts = thread[u].ts
    BY <2>5
  <2>7. Running' = Running
    BY <2>1, <2>5 DEF Running, AudioSteps
  <2>8. StartsInPast' /\ RunningSince'
    BY <2>2, <2>4, <2>6, <2>7 DEF EchoInv, StartsInPast, RunningSince, Running
  <2>9. DeadlineCovers' /\ KnownBefore'
    BY <1>0, <2>1, <2>2, <2>3, <2>4 DEF EchoInv, DeadlineCovers, KnownBefore
  <2>10. QuietTail' /\ TailAfterLastEcho'
    BY <2>4, <2>5 DEF EchoInv, QuietTail, TailAfterLastEcho, At
  <2>. QED  BY <2>8, <2>9, <2>10 DEF EchoInv
<1>3. ASSUME NEW t \in Threads, HStep(t) PROVE EchoInv'
  <2>1. /\ quiet' = [u \in Threads |-> quiet[u] \/ ~speaker_playing']
        /\ UNCHANGED <<now, echo_tail_end, echo, known>>
    BY <1>3
    DEF HStep, Quieten, Step, TakeSpeakerState, TakeEstop, TakeFlag, SetSpeaker, SetEstop,
        EstopGate, ReadSpeaker, ReadTail, QueueSilence, QueueSpeech, Queue
  <2>2. /\ \A u \in Threads \ {t} : thread'[u] = thread[u]
        /\ \/ thread'[t].step \notin AudioSteps
           \/ /\ thread[t].step \in AudioSteps /\ thread'[t].ts = thread[t].ts
              /\ \/ thread'[t].step \notin {"tail", "filter"}
                 \/ thread'[t].step = "tail" /\ ~speaker_playing'
                 \/ /\ thread'[t].step = "filter" /\ thread[t].step = "tail"
                    /\ ~(thread[t].ts < echo_tail_end)
    <3>1. CASE TakeSpeakerState(t) \/ TakeEstop(t)
      <4>1. PICK step \in {"set_speaker", "set_estop"}, flag \in BOOLEAN :
              thread' = [thread EXCEPT ![t] = [Free EXCEPT !.step = step, !.flag = flag]]
        BY <3>1 DEF TakeSpeakerState, TakeEstop, TakeFlag
      <4>2. [Free EXCEPT !.step = step, !.flag = flag].step = step
        BY FreeType, NewActivity DEF TypeOK, Steps
      <4>. QED  BY <4>1, <4>2 DEF TypeOK, AudioSteps
    <3>2. CASE Return(t)
      BY <3>2 DEF Return, Free, TypeOK, AudioSteps
    <3>3. CASE EstopGate(t)
      <4>1. CASE Goto(t, "speaker")
        BY <1>0, <3>3, <4>1, NextStep DEF EstopGate, At, Goto, TypeOK, Steps, AudioSteps
      <4>. QED  BY <3>2, <3>3, <4>1 DEF EstopGate
    <3>4. CASE ReadSpeaker(t)
      BY <1>0, <3>4, NextStep DEF ReadSpeaker, At, Goto, TypeOK, Steps, AudioSteps
    <3>5. CASE ReadTail(t)
      BY <1>0, <3>5, NextStep DEF ReadTail, At, Goto, TypeOK, Steps, AudioSteps
    <3>. QED
      BY <1>3, <3>1, <3>2, <3>3, <3>4, <3>5
      DEF HStep, Step, SetSpeaker, SetEstop, QueueSilence, QueueSpeech, Queue
  <2>3. \A u \in Running' : u \in Running /\ thread'[u].ts = thread[u].ts
    BY <2>2 DEF Running
  <2>4. StartsInPast' /\ RunningSince'
    BY <2>1, <2>3 DEF EchoInv, StartsInPast, RunningSince
  <2>5. DeadlineCovers' /\ KnownBefore'
    BY <2>1 DEF EchoInv, DeadlineCovers, KnownBefore
  <2>6. QuietTail'
    BY <2>1, <2>2 DEF EchoInv, QuietTail, AudioSteps
  <2>7. TailAfterLastEcho'
    <3>1. ASSUME NEW u \in Threads, thread'[u].step = "filter"
          PROVE  thread'[u].ts >= known'[u] + EchoTail
      <4>1. CASE u = t /\ thread[t].step = "tail"
        BY <1>0, <2>1, <2>2, <3>1, <4>1 DEF EchoInv, DeadlineCovers, KnownBefore, AudioSteps
      <4>2. CASE u # t
        BY <2>1, <2>2, <3>1, <4>2 DEF EchoInv, TailAfterLastEcho, At
      <4>. QED  BY <2>2, <3>1, <4>1, <4>2 DEF AudioSteps
    <3>. QED  BY <2>6, <3>1 DEF QuietTail, TailAfterLastEcho, At
  <2>. QED  BY <2>4, <2>5, <2>6, <2>7 DEF EchoInv
<1>4. CASE HElapse
  <2>1. now' = now + 1 /\ UNCHANGED <<speaker_playing, echo_tail_end, thread, echo, known, quiet>>
    BY <1>4 DEF HElapse, Elapse, history
  <2>2. Running' = Running
    BY <2>1 DEF Running
  <2>. QED
    BY <1>0, <2>1, <2>2
    DEF EchoInv, StartsInPast, DeadlineCovers, RunningSince, KnownBefore, QuietTail, TailAfterLastEcho,
        At, Running
<1>5. CASE UNCHANGED hvars
  BY <1>5
  DEF hvars, vars, history, EchoInv, StartsInPast, DeadlineCovers, RunningSince, KnownBefore,
      QuietTail, TailAfterLastEcho, At, Running
<1>. QED  BY <1>1, <1>2, <1>3, <1>4, <1>5 DEF HNext

(* Speech is queued only past the tail of the echo found before it was     *)
(* taken up, however many callbacks overlap.                               *)
THEOREM TailKept == HSpec => []TailAfterLastEcho
<1>1. EchoInv => TailAfterLastEcho
  BY DEF EchoInv
<1>. QED  BY TypeInit, TypeStep, EchoInit, EchoStep, <1>1, PTL DEF HSpec
=============================================================================
