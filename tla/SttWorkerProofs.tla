--------------------------- MODULE SttWorkerProofs ---------------------------
(***************************************************************************)
(* Proofs about the recognition worker of stt_node, for any size of the    *)
(* queue, any number of reconnections and any number of stale request      *)
(* threads.                                                                *)
(***************************************************************************)
EXTENDS SttWorkerHistory, TLAPS

(* A request generator belongs to the stream the worker is listening to,   *)
(* and a worker in an attempt is not past the limit.                       *)
Attempt == {"open", "responses", "error", "drain", "drain_error"}

Shape ==
  /\ requests # "none" => worker = "responses"
  /\ worker \in Attempt => reconnect_count <= MaxReconnect

WInv == TypeOK /\ Shape

(* The worker is about to drain, or will open no further stream. *)
BeforeDrain ==
  \/ worker \in {"error", "drain", "drain_error"}
  \/ stop_event /\ worker \notin {"open", "responses"}

(* What a stream left behind in the queue is only there before the drain.  *)
Leftovers ==
  /\ old \in Nat /\ old <= Len(audio_queue)
  /\ old > 0 => BeforeDrain

(* The counter of reconnections is one ahead of the attempts from the end  *)
(* of a failed stream to the next attempt.                                 *)
Counted ==
  /\ attempts \in Nat
  /\ worker = "boot" => attempts = 0 /\ reconnect_count = 0
  /\ worker \in Attempt => attempts = reconnect_count
  /\ worker = "backoff" => reconnect_count > 0 /\ attempts = reconnect_count - 1
  /\ worker = "loop" /\ ~stop_event =>
       attempts = IF reconnect_count = 0 THEN 0 ELSE reconnect_count - 1

------------------------------------------------------------------------------
(* Types.                                                                  *)

LEMMA Constants == MaxQueue \in Nat /\ MaxReconnect \in Nat /\ MaxStale \in Nat
  BY BoundsAssumption

LEMMA TypeInit == HInit => WInv
<1> SUFFICES ASSUME Init PROVE TypeOK /\ Shape
  BY DEF HInit, WInv
<1>1. audio_queue \in Seq({Chunk, Pill}) /\ Len(audio_queue) = 0
  BY DEF Init
<1>2. reconnect_count \in 0..(MaxReconnect + 1) /\ reconnect_count <= MaxReconnect /\ stale \in 0..MaxStale
  BY Constants DEF Init
<1>3. stop_event \in BOOLEAN /\ unanswered \in BOOLEAN
  BY DEF Init
<1>4. Len(audio_queue) <= MaxQueue
  BY <1>1, Constants
<1>5. Shape
  BY <1>2 DEF Init, Shape
<1> QED  BY <1>1, <1>2, <1>3, <1>4, <1>5 DEF Init, TypeOK, WorkerSteps

LEMMA AbandonType ==
  ASSUME TypeOK, Abandon
  PROVE  requests' = "none" /\ stale' \in 0..MaxStale /\ unanswered' = FALSE
  BY Constants DEF TypeOK, Abandon

(* Queueing keeps the bound that Put asks for, taking keeps it anyway. *)
LEMMA QueueTypes ==
  ASSUME TypeOK
  PROVE  /\ Take => /\ audio_queue' \in Seq({Chunk, Pill})
                    /\ Len(audio_queue') = Len(audio_queue) - 1
         /\ ~Full => \A entry \in {Chunk, Pill} :
                       /\ Append(audio_queue, entry) \in Seq({Chunk, Pill})
                       /\ Len(Append(audio_queue, entry)) = Len(audio_queue) + 1
                       /\ Len(audio_queue) + 1 <= MaxQueue
  BY Constants DEF TypeOK, Take, Full

LEMMA TypeStep == WInv /\ [HNext]_hvars => WInv'
<1> SUFFICES ASSUME WInv, [HNext]_hvars PROVE WInv'
  OBVIOUS
<1> USE DEF WInv
<1> USE Constants
<1>q. Len(audio_queue) \in Nat /\ Len(audio_queue) <= MaxQueue
  BY DEF TypeOK
<1>1. CASE Main
  <2>1. CASE Started
    BY <2>1 DEF Started, TypeOK, Shape, stream
  <2>2. CASE SetStop
    BY <2>2 DEF SetStop, TypeOK, Shape, stream
  <2>3. CASE PutPill
    BY <2>3, <1>q, QueueTypes DEF PutPill, TypeOK, Shape, stream
  <2>4. CASE Close
    BY <2>4 DEF Close, TypeOK, Shape, stream
  <2> QED BY <1>1, <2>1, <2>2, <2>3, <2>4 DEF Main
<1>2. CASE Put
  BY <1>2, <1>q, QueueTypes DEF Put, TypeOK, Shape, stream, node
<1>3. CASE Generate
  <2>1. CASE GenCheck
    BY <2>1 DEF GenCheck, TypeOK, Shape, node
  <2>2. CASE GenTake
    <3>1. audio_queue' \in Seq({Chunk, Pill}) /\ Len(audio_queue') <= MaxQueue
      BY <2>2, <1>q, QueueTypes DEF GenTake
    <3>2. requests' \in {"check", "done"} /\ worker' = "responses"
      BY <2>2 DEF GenTake, Shape
    <3>3. unanswered' \in BOOLEAN
      BY <2>2 DEF GenTake, TypeOK
    <3> QED  BY <2>2, <3>1, <3>2, <3>3 DEF GenTake, TypeOK, Shape, node
  <2>3. CASE GenEmpty
    BY <2>3 DEF GenEmpty, TypeOK, Shape, node
  <2> QED BY <1>3, <2>1, <2>2, <2>3 DEF Generate
<1>4. CASE StaleTake
  BY <1>4, <1>q, QueueTypes DEF StaleTake, TypeOK, Shape, node
<1>5. CASE StaleStop
  BY <1>5 DEF StaleStop, TypeOK, Shape, node
<1>6. CASE Work
  <2> USE DEF Goto, WorkerSteps, Attempt, node, stream
  <2>1. CASE Boot
    BY <2>1 DEF Boot, TypeOK, Shape
  <2>2. CASE Stop
    BY <2>2 DEF Stop, TypeOK, Shape
  <2>3. CASE GiveUp
    BY <2>3 DEF GiveUp, TypeOK, Shape
  <2>4. CASE Connect
    BY <2>4 DEF Connect, Exhausted, TypeOK, Shape
  <2>5. CASE Open
    BY <2>5 DEF Open, TypeOK, Shape
  <2>6. CASE Handle
    BY <2>6 DEF Handle, TypeOK, Shape
  <2>7. CASE Drain
    BY <2>7, <1>q, QueueTypes DEF Drain, TypeOK, Shape
  <2>8. CASE Backoff
    BY <2>8 DEF Backoff, TypeOK, Shape
  <2>9. CASE Exit
    BY <2>9 DEF Exit, TypeOK, Shape
  <2> QED BY <1>6, <2>1, <2>2, <2>3, <2>4, <2>5, <2>6, <2>7, <2>8, <2>9 DEF Work
<1>7. CASE Drained
  BY <1>7 DEF Drained, Goto, WorkerSteps, Attempt, node, stream, TypeOK, Shape
<1>8. CASE Server
  <2> USE DEF Goto, WorkerSteps, Attempt, node, stream
  <2>1. CASE OpenFails
    BY <2>1 DEF OpenFails, TypeOK, Shape
  <2>2. CASE Respond
    BY <2>2, AbandonType DEF Respond, TypeOK, Shape
  <2>3. CASE StreamEnds
    BY <2>3, AbandonType DEF StreamEnds, TypeOK, Shape
  <2>4. CASE StreamFails
    BY <2>4, AbandonType DEF StreamFails, TypeOK, Shape
  <2> QED BY <1>8, <2>1, <2>2, <2>3, <2>4 DEF Server
<1>9. CASE Dummy
  <2>1. audio_queue' \in Seq({Chunk, Pill}) /\ Len(audio_queue') <= MaxQueue
    BY <1>9, <1>q, QueueTypes DEF Dummy, DummyCheck, DummyTake, DummyEmpty, TypeOK
  <2> QED
    BY <1>9, <2>1 DEF Dummy, DummyCheck, DummyTake, DummyEmpty, Goto, WorkerSteps, Attempt, node, stream,
                      TypeOK, Shape
<1>10. CASE UNCHANGED hvars
  BY <1>10 DEF hvars, vars, node, stream, TypeOK, Shape
<1> QED
  BY <1>1, <1>2, <1>3, <1>4, <1>5, <1>6, <1>7, <1>8, <1>9, <1>10 DEF HNext, Next

(* The variables of the worker stay in their ranges; the worker, its       *)
(* request threads and the node's own thread share the queue and the state.*)
THEOREM WorkerTypeCorrect == HSpec => []TypeOK
<1>1. HSpec => []WInv
  BY TypeInit, TypeStep, PTL DEF HSpec
<1> QED BY <1>1, PTL DEF WInv

------------------------------------------------------------------------------
(* Audio of one stream and the next.                                       *)

(* One entry at most leaves in a step, but for the close, and none where a *)
(* stream ends.                                                            *)
LEMMA QueueStep ==
  ASSUME TypeOK, Next
  PROVE  /\ main' = "closed" \/ Len(audio_queue') >= Len(audio_queue) - 1
         /\ Over => audio_queue' = audio_queue
<1>q. Len(audio_queue) \in Nat
  BY DEF TypeOK
<1>t. Take => Len(audio_queue') = Len(audio_queue) - 1
  BY QueueTypes
<1>p. ~Full => Len(Append(audio_queue, Chunk)) = Len(audio_queue) + 1 /\ Len(Append(audio_queue, Pill)) = Len(audio_queue) + 1
  BY QueueTypes
<1>o. Over => audio_queue' = audio_queue
  BY DEF Over, StreamEnds, StreamFails, OpenFails, node, stream
<1>1. CASE Main
  BY <1>1, <1>q, <1>p, <1>o DEF Main, Started, SetStop, PutPill, Close
<1>2. CASE Put
  BY <1>2, <1>q, <1>p, <1>o DEF Put
<1>3. CASE Generate \/ StaleTake \/ StaleStop
  BY <1>3, <1>q, <1>t, <1>o DEF Generate, GenCheck, GenTake, GenEmpty, StaleTake, StaleStop
<1>4. CASE Work \/ Drained
  BY <1>4, <1>q, <1>t, <1>o
     DEF Work, Boot, Stop, GiveUp, Connect, Open, Handle, Drain, Backoff, Exit, Drained
<1>5. CASE Server
  BY <1>5, <1>q, <1>o DEF Server, OpenFails, Respond, StreamEnds, StreamFails
<1>6. CASE Dummy
  BY <1>6, <1>q, <1>t, <1>o DEF Dummy, DummyCheck, DummyTake, DummyEmpty
<1> QED  BY <1>1, <1>2, <1>3, <1>4, <1>5, <1>6 DEF Next

(* The drain ends only with an empty queue, and no stream is opened once   *)
(* the stop is set and seen.                                               *)
LEMMA StaysBeforeDrain ==
  ASSUME WInv, Next, ~Over, BeforeDrain, audio_queue # <<>>
  PROVE  BeforeDrain'
<1> USE DEF BeforeDrain, node, stream, Goto
<1>1. CASE Main
  BY <1>1 DEF Main, Started, SetStop, PutPill, Close
<1>2. CASE Put
  BY <1>2 DEF Put
<1>3. CASE Generate \/ StaleTake \/ StaleStop
  BY <1>3 DEF Generate, GenCheck, GenTake, GenEmpty, StaleTake, StaleStop
<1>4. CASE Work
  BY <1>4 DEF Work, Boot, Stop, GiveUp, Connect, Open, Handle, Drain, Backoff, Exit
<1>5. CASE Drained
  BY <1>5 DEF Drained
<1>6. CASE Server
  BY <1>6 DEF Server, Over, Respond
<1>7. CASE Dummy
  BY <1>7 DEF Dummy, DummyCheck, DummyTake, DummyEmpty
<1> QED  BY <1>1, <1>2, <1>3, <1>4, <1>5, <1>6, <1>7 DEF Next

LEMMA EndsBeforeDrain ==
  ASSUME Over
  PROVE  BeforeDrain'
  BY DEF Over, StreamEnds, StreamFails, OpenFails, Goto, BeforeDrain, node

LEMMA LeftoversStep == WInv /\ Leftovers /\ [HNext]_hvars => Leftovers'
<1> SUFFICES ASSUME WInv, Leftovers, [HNext]_hvars PROVE Leftovers'
  OBVIOUS
<1>1. CASE UNCHANGED hvars
  BY <1>1 DEF hvars, history, vars, node, Leftovers, BeforeDrain
<1>2. CASE HNext
  <2>1. /\ Len(audio_queue) \in Nat /\ Len(audio_queue') \in Nat
        /\ main' = "closed" \/ Len(audio_queue') >= Len(audio_queue) - 1
        /\ Over => audio_queue' = audio_queue
    BY <1>2, QueueStep, TypeStep DEF HNext, WInv, TypeOK
  <2>2. CASE main' = "closed"
    BY <1>2, <2>1, <2>2 DEF HNext, Leftovers
  <2>3. CASE main' # "closed" /\ Over
    BY <1>2, <2>1, <2>3, EndsBeforeDrain DEF HNext, Leftovers
  <2>4. CASE main' # "closed" /\ ~Over
    <3>1. old' = Remaining(old)
      BY <1>2, <2>4 DEF HNext
    <3>2. old' \in Nat /\ old' <= old /\ old' <= Len(audio_queue')
      BY <3>1, <2>1, <2>4 DEF Remaining, Leftovers
    <3>3. ASSUME old' > 0 PROVE BeforeDrain'
      <4>1. old > 0 /\ BeforeDrain /\ audio_queue # <<>>
        BY <3>2, <3>3, <2>1 DEF Leftovers
      <4> QED  BY <4>1, <1>2, <2>4, StaysBeforeDrain DEF HNext
    <3> QED  BY <3>2, <3>3 DEF Leftovers
  <2> QED  BY <2>2, <2>3, <2>4
<1> QED  BY <1>1, <1>2

(* No chunk that was queued before a stream ended is given to a later one: *)
(* _google_request_gen takes while its stream is open, and then nothing is *)
(* left (Leftovers).                                                       *)
THEOREM NothingCarriedOver == HSpec => NoCarryOver
<1>1. HInit => WInv /\ Leftovers
  BY TypeInit DEF HInit, Init, Leftovers
<1>2. WInv /\ Leftovers /\ GenTake => old = 0
  BY DEF WInv, TypeOK, Shape, Leftovers, BeforeDrain, GenTake
<1>3. WInv /\ Leftovers /\ [HNext]_hvars
        => /\ WInv' /\ Leftovers'
           /\ [GenTake /\ Head(audio_queue) = Chunk => old = 0]_hvars
  BY <1>2, TypeStep, LeftoversStep
<1> QED  BY <1>1, <1>3, PTL DEF HSpec, NoCarryOver

------------------------------------------------------------------------------
(* Attempts.                                                               *)

LEMMA CountedStep == WInv /\ Counted /\ [HNext]_hvars => Counted'
<1> SUFFICES ASSUME WInv, Counted, [HNext]_hvars PROVE Counted'
  OBVIOUS
<1> USE DEF Counted, Goto, Attempt, node, stream
<1>t. /\ reconnect_count \in Nat /\ attempts \in Nat
      /\ worker \in WorkerSteps
  BY Constants DEF WInv, TypeOK
<1>1. CASE UNCHANGED hvars
  BY <1>1 DEF hvars, history, vars
<1>2. ASSUME HNext PROVE attempts' = IF Connect /\ reconnect_count > 0 THEN attempts + 1
                                    ELSE IF worker = "drain" /\ Drained THEN 0 ELSE attempts
  BY <1>2 DEF HNext
<1>3. CASE HNext /\ (Main \/ Put \/ Generate \/ StaleTake \/ StaleStop)
  <2>1. UNCHANGED <<worker, reconnect_count>> /\ (stop_event => stop_event')
    BY <1>3 DEF Main, Started, SetStop, PutPill, Close, Put, Generate, GenCheck, GenTake, GenEmpty,
                StaleTake, StaleStop
  <2>2. UNCHANGED attempts
    BY <1>2, <1>3, <2>1, <1>t DEF Connect, Drained
  <2> QED  BY <2>1, <2>2
<1>4. CASE HNext /\ Connect
  BY <1>2, <1>4, <1>t DEF Connect, Drained
<1>5. CASE HNext /\ Work /\ ~Connect
  <2>1. UNCHANGED <<attempts, reconnect_count, stop_event>>
    BY <1>2, <1>5 DEF Work, Boot, Stop, GiveUp, Connect, Open, Handle, Drain, Backoff, Exit, Drained
  <2> QED  BY <1>5, <2>1, <1>t DEF Work, Boot, Stop, GiveUp, Connect, Open, Handle, Drain, Backoff, Exit
<1>6. CASE HNext /\ Drained
  BY <1>2, <1>6, <1>t DEF Drained, Connect
<1>7. CASE HNext /\ Server
  <2>1. UNCHANGED <<attempts, reconnect_count, stop_event>>
    BY <1>2, <1>7 DEF Server, OpenFails, Respond, StreamEnds, StreamFails, Connect, Drained
  <2> QED  BY <1>7, <2>1, <1>t DEF Server, OpenFails, Respond, StreamEnds, StreamFails
<1>8. CASE HNext /\ Dummy
  <2>1. UNCHANGED <<attempts, reconnect_count, stop_event>>
    BY <1>2, <1>8 DEF Dummy, DummyCheck, DummyTake, DummyEmpty, Connect, Drained
  <2> QED  BY <1>8, <2>1, <1>t DEF Dummy, DummyCheck, DummyTake, DummyEmpty
<1> QED  BY <1>1, <1>3, <1>4, <1>5, <1>6, <1>7, <1>8 DEF HNext, Next

(* FAILED is reported after exactly the reconnections the limit allows,    *)
(* counted from the last stream that ended normally.                       *)
THEOREM GivesUpInTime == HSpec => GivesUpAfterAllAttempts
<1>1. HInit => WInv /\ Counted
  BY TypeInit DEF HInit, Init, Counted, Attempt
<1>2. ASSUME WInv, Counted, HNext, Goto("loop", "ended")
      PROVE  attempts = MaxReconnect
  <2>1. GiveUp
    BY <1>2 DEF HNext, Next, Goto, Main, Started, SetStop, PutPill, Close, Put, Generate, GenCheck,
                GenTake, GenEmpty, StaleTake, StaleStop, Work, Boot, Stop, GiveUp, Connect, Open, Handle,
                Drain, Backoff, Exit, Drained, Server, OpenFails, Respond, StreamEnds, StreamFails,
                Dummy, DummyCheck, DummyTake, DummyEmpty, node, stream
  <2>2. reconnect_count = MaxReconnect + 1
    BY <1>2, <2>1, Constants DEF GiveUp, Exhausted, WInv, TypeOK
  <2> QED  BY <1>2, <2>1, <2>2, Constants DEF GiveUp, Goto, Counted
<1>3. WInv /\ Counted /\ [HNext]_hvars
        => /\ WInv' /\ Counted'
           /\ [Goto("loop", "ended") => attempts = MaxReconnect]_hvars
  BY <1>2, TypeStep, CountedStep
<1> QED  BY <1>1, <1>3, PTL DEF HSpec, GivesUpAfterAllAttempts
=============================================================================
