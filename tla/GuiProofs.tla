------------------------------ MODULE GuiProofs ------------------------------
(***************************************************************************)
(* Proofs about gui_bridge_node, for any connections, any number of frames *)
(* and any tasks.                                                          *)
(***************************************************************************)
EXTENDS GuiFeed, TLAPS

Ends == {"SUCCEEDED", "FAILED", "PREEMPTED"}

(* What the orchestrator may have published. *)
Running(task) ==
  {Stream!Status("RUNNING", task, i - 1, Plan[task][i]) : i \in DOMAIN Plan[task]}
Ended == [state : Ends, task : DOMAIN Plan, index : Nat, current_subtask : {""}]
Published == (UNION {Running(task) : task \in DOMAIN Plan}) \cup Ended

FeedOK ==
  /\ last \in Published \cup {Stream!NoStatus}
  /\ topic \in Seq(Published)

------------------------------------------------------------------------------
(* The feed.                                                               *)

LEMMA PlanType ==
  ASSUME NEW task \in DOMAIN Plan
  PROVE  /\ task \in 1..Len(Plan)
         /\ Len(Plan[task]) \in Nat /\ DOMAIN Plan[task] = 1..Len(Plan[task])
<1>1. Plan \in Seq(Seq(STRING))
  BY PlanAssumption DEF PlanAssumption
<1>2. task \in 1..Len(Plan) /\ Plan[task] \in Seq(STRING)
  BY <1>1
<1>. QED  BY <1>2

LEMMA RunningType ==
  ASSUME NEW task \in DOMAIN Plan, NEW i \in DOMAIN Plan[task]
  PROVE  Stream!Status("RUNNING", task, i - 1, Plan[task][i]) \in Published
  BY DEF Running, Published

LEMMA EndedType ==
  ASSUME NEW state \in Ends, NEW task \in DOMAIN Plan, NEW index \in Nat
  PROVE  Stream!Status(state, task, index, "") \in Published
  BY DEF Ended, Published, Stream!Status

(* A published status is one of the two. *)
LEMMA PublishedCases ==
  ASSUME NEW s \in Published
  PROVE  \/ \E task \in DOMAIN Plan : \E i \in DOMAIN Plan[task] :
              s = Stream!Status("RUNNING", task, i - 1, Plan[task][i])
         \/ s \in Ended
  BY DEF Published, Running

LEMMA OpeningType ==
  ASSUME NEW task \in DOMAIN Plan
  PROVE  Stream!Opening(task) \in Published
<1>1. CASE Len(Plan[task]) = 0
  <2>1. "SUCCEEDED" \in Ends /\ 0 \in Nat
    BY DEF Ends
  <2>. QED  BY <1>1, <2>1, EndedType DEF Stream!Opening
<1>2. CASE Len(Plan[task]) # 0
  <2>1. 1 \in DOMAIN Plan[task] /\ 1 - 1 = 0
    BY <1>2, PlanType
  <2>2. Stream!Status("RUNNING", task, 1 - 1, Plan[task][1]) \in Published
    BY <2>1, RunningType
  <2>. QED  BY <1>2, <2>1, <2>2 DEF Stream!Opening
<1>. QED  BY <1>1, <1>2

(* While a task is in flight the last status says where it is. *)
LEMMA InFlightType ==
  ASSUME FeedOK, Stream!InFlight
  PROVE  last.task \in DOMAIN Plan /\ last.index \in Nat
<1>1. last \in Published
  <2>1. Stream!NoStatus = [state |-> "IDLE", task |-> 0, index |-> 0, current_subtask |-> ""]
    BY DEF Stream!NoStatus, Stream!Status
  <2>2. Stream!NoStatus.state = "IDLE"
    BY <2>1
  <2>3. last.state = "RUNNING"
    BY DEF Stream!InFlight
  <2>4. last # Stream!NoStatus
    BY <2>2, <2>3
  <2>. QED  BY <2>4 DEF FeedOK
<1>2. PICK task \in DOMAIN Plan : \E i \in DOMAIN Plan[task] :
        last = Stream!Status("RUNNING", task, i - 1, Plan[task][i])
  <2>1. ~(last \in Ended)
    BY DEF Stream!InFlight, Ended, Ends
  <2>. QED  BY <1>1, <2>1, PublishedCases
<1>3. PICK i \in DOMAIN Plan[task] : last = Stream!Status("RUNNING", task, i - 1, Plan[task][i])
  BY <1>2
<1>4. i - 1 \in Nat
  BY <1>3, PlanType
<1>. QED  BY <1>3, <1>4 DEF Stream!Status

(* A step of the stream publishes such statuses. *)
LEMMA StreamStep ==
  ASSUME FeedOK, Stream!Next
  PROVE  FeedOK'
<1>2. ASSUME NEW s \in Published, Stream!Publish(<<s>>) PROVE FeedOK'
  BY <1>2 DEF Stream!Publish, FeedOK
<1>3. ASSUME NEW s \in Published, NEW t \in Published, Stream!Publish(<<s, t>>) PROVE FeedOK'
  BY <1>3 DEF Stream!Publish, FeedOK
<1>4. ASSUME Stream!InFlight, NEW state \in Ends, NEW index \in Nat
      PROVE  Stream!Status(state, last.task, index, "") \in Published
  BY <1>4, InFlightType, EndedType
<1>5. ASSUME NEW task \in DOMAIN Plan, Stream!Open(task) PROVE FeedOK'
  BY <1>2, <1>5, OpeningType DEF Stream!Open
<1>6. ASSUME NEW task \in DOMAIN Plan, Stream!Preempt(task) PROVE FeedOK'
  <2>1. Stream!InFlight /\ last.index \in Nat /\ "PREEMPTED" \in Ends
    BY <1>6, InFlightType DEF Stream!Preempt, Ends
  <2>2. Stream!Status("PREEMPTED", last.task, last.index, "") \in Published
    BY <1>4, <2>1
  <2>. QED  BY <1>3, <1>6, <2>2, OpeningType DEF Stream!Preempt
<1>7. ASSUME Stream!Advance PROVE FeedOK'
  <2>1. /\ Stream!InFlight /\ last.index + 1 < Len(Plan[last.task])
        /\ Stream!Publish(<<Stream!Status("RUNNING", last.task, last.index + 1, Plan[last.task][last.index + 2])>>)
    BY <1>7 DEF Stream!Advance
  <2>2. last.index + 2 \in DOMAIN Plan[last.task] /\ (last.index + 2) - 1 = last.index + 1
    BY <2>1, InFlightType, PlanType
  <2>3. Stream!Status("RUNNING", last.task, (last.index + 2) - 1, Plan[last.task][last.index + 2]) \in Published
    BY <2>1, <2>2, InFlightType, RunningType
  <2>. QED  BY <1>2, <2>1, <2>2, <2>3
<1>8. ASSUME Stream!Succeed PROVE FeedOK'
  <2>1. Stream!InFlight /\ last.index + 1 \in Nat /\ "SUCCEEDED" \in Ends
    BY <1>8, InFlightType, PlanType DEF Stream!Succeed, Ends
  <2>. QED  BY <1>2, <1>4, <1>8, <2>1 DEF Stream!Succeed
<1>9. ASSUME Stream!Fail PROVE FeedOK'
  <2>1. Stream!InFlight /\ last.index \in Nat /\ "FAILED" \in Ends
    BY <1>9, InFlightType DEF Stream!Fail, Ends
  <2>. QED  BY <1>2, <1>4, <1>9, <2>1 DEF Stream!Fail
<1>10. ASSUME Stream!Quiet PROVE FeedOK'
  <2>1. <<>> \in Seq(Published)
    OBVIOUS
  <2>. QED  BY <1>10, <2>1 DEF Stream!Quiet, FeedOK
<1>. QED  BY <1>5, <1>6, <1>7, <1>8, <1>9, <1>10 DEF Stream!Next

LEMMA StateNames ==
  /\ StateName["RUNNING"] = "active"
  /\ \A state \in Ends : StateName[state] \in {"idle", "success", "failed"}
<1>1. /\ StateName["RUNNING"] = "active" /\ StateName["SUCCEEDED"] = "success"
      /\ StateName["FAILED"] = "failed" /\ StateName["PREEMPTED"] = "idle"
  BY DEF StateName
<1>. QED  BY <1>1 DEF Ends

(* What is shown of a published status meets the renderer's contract.      *)
LEMMA DisplayType ==
  ASSUME NEW s \in Published
  PROVE  Display(Message(s)) \in Displays /\ Renderable(Display(Message(s)))
<1>1. CASE \E task \in DOMAIN Plan : \E i \in DOMAIN Plan[task] :
             s = Stream!Status("RUNNING", task, i - 1, Plan[task][i])
  <2>1. PICK task \in DOMAIN Plan : \E i \in DOMAIN Plan[task] :
             s = Stream!Status("RUNNING", task, i - 1, Plan[task][i])
    BY <1>1
  <2>2. PICK i \in DOMAIN Plan[task] : s = Stream!Status("RUNNING", task, i - 1, Plan[task][i])
    BY <2>1
  <2>. DEFINE n == Len(Plan[task])
              sub == [name |-> Plan[task][i], i |-> i - 1, n |-> n]
  <2>3. /\ task \in 0..Len(Plan) /\ i - 1 \in 0..(n - 1)
    BY PlanType
  <2>9. Plan[task][i] # ""
    BY NamesAssumption DEF NamesAssumption
  <2>4. /\ s.state = "RUNNING" /\ s.task = task /\ s.index = i - 1
        /\ s.current_subtask = Plan[task][i]
    BY <2>2 DEF Stream!Status
  <2>5. Display(Message(s)) = [scenario |-> task, subtask |-> <<sub>>, state |-> "active"]
    BY <2>4, <2>9, StateNames DEF Display, Message
  <2>6. <<sub>> \in SubtasksOf(task)
    BY DEF SubtasksOf
  <2>7. Display(Message(s)) \in Displays
    BY <2>3, <2>5, <2>6 DEF Displays
  <2>8. <<sub>> # <<>> /\ DOMAIN <<sub>> = {1} /\ <<sub>>[1] = sub
    OBVIOUS
  <2>. QED  BY <2>3, <2>5, <2>7, <2>8 DEF Renderable
<1>2. CASE s \in Ended
  <2>1. /\ s.state \in Ends /\ s.task \in DOMAIN Plan /\ s.index \in Nat
        /\ s.current_subtask = ""
    BY <1>2 DEF Ended
  <2>2. s.task \in 0..Len(Plan)
    <3>1. \A task \in DOMAIN Plan : task \in 0..Len(Plan)
      BY PlanAssumption DEF PlanAssumption
    <3>. QED  BY <2>1, <3>1
  <2>3. StateName[s.state] \in {"idle", "success", "failed"}
    BY <2>1, StateNames
  <2>4. Display(Message(s)) = [scenario |-> s.task, subtask |-> <<>>, state |-> StateName[s.state]]
    BY <2>1 DEF Display, Message
  <2>. QED  BY <2>2, <2>3, <2>4 DEF Displays, Renderable
<1>. QED  BY <1>1, <1>2, PublishedCases

------------------------------------------------------------------------------
Sending == pump.step \in {"send_status", "send_frame"}

(* The inductive invariant. All that is shown was published, ...           *)
AllRenderable ==
  /\ Renderable(status_json) /\ Renderable(pump.status)
  /\ \A c \in Connections : Renderable(shown[c].status)

(* ... a frame is there before its number and read after it, ... *)
FrameFirst ==
  /\ frame_seq <= frame
  /\ bumping => frame_seq < frame
  /\ pump.seq <= frame_seq
  /\ Sending => pump.seq <= pump.frame

(* ... an open connection is among the clients and no other was sent       *)
(* anything, those that were given up are broken, and none is sent to      *)
(* twice, ...                                                              *)
Recipients ==
  /\ \A c \in Connections : IF conn[c] = "open" THEN c \in clients ELSE shown[c] = Blank
  /\ pump.ws \cap pump.todo = {}
  /\ \A c \in clients \cup pump.ws \cup pump.todo : conn[c] # "new"
  /\ \A c \in pump.dead : conn[c] = "broken"

(* ... and in the middle of a pass each client shows what the pass has     *)
(* brought it so far.                                                      *)
StatusDue(c) == c \in pump.todo \/ (pump.step = "send_status" /\ c \in pump.ws)
FrameDue(c) == c \in pump.todo \/ c \in pump.ws

Progress ==
  \A c \in Connections :
    /\ shown[c].status \in
         {NoDisplay, IF Sending /\ ~StatusDue(c) THEN pump.status ELSE pump.last_status}
    /\ shown[c].frame # 0 =>
         shown[c].frame >= IF Sending /\ ~FrameDue(c) THEN pump.seq ELSE pump.last_seq

FInv == TypeOK /\ FeedOK /\ FrameFirst /\ AllRenderable /\ Recipients /\ Progress

(* The states a pass goes through. *)
LEMMA PumpFields ==
  ASSUME NEW p \in PumpStates
  PROVE  /\ p.status \in Displays /\ p.last_status \in Displays
         /\ p.seq \in Frames \cup {-1} /\ p.last_seq \in Frames \cup {-1}
         /\ p.frame \in Frames
         /\ p.ws \subseteq Connections /\ p.todo \subseteq Connections /\ p.dead \subseteq Connections
  BY DEF PumpStates

LEMMA NoDisplayType == NoDisplay \in Displays /\ Renderable(NoDisplay) /\ Blank = [status |-> NoDisplay, frame |-> 0]
<1>1. 0 \in 0..Len(Plan)
  BY PlanAssumption DEF PlanAssumption
<1>. QED  BY <1>1 DEF NoDisplay, Displays, Renderable, Blank

LEMMA AsleepType ==
  ASSUME NEW status \in Displays, NEW seq \in Frames \cup {-1}
  PROVE  LET p == Asleep(status, seq) IN
           /\ p \in PumpStates
           /\ p.step = "asleep" /\ p.status = NoDisplay /\ p.seq = -1
           /\ p.ws = {} /\ p.todo = {} /\ p.dead = {}
           /\ p.last_status = status /\ p.last_seq = seq
<1>1. 0 \in Frames
  BY FramesAssumption DEF FramesAssumption, Frames
<1>. QED  BY <1>1, NoDisplayType DEF Asleep, PumpStates

Forward(p, c) ==
  [p EXCEPT !.step = IF SendsStatus(p) THEN "send_status" ELSE "send_frame",
            !.ws = {c}, !.todo = @ \ {c}]

LEMMA ForwardType ==
  ASSUME NEW p \in PumpStates, NEW c \in p.todo
  PROVE  LET q == Forward(p, c) IN
           /\ q \in PumpStates
           /\ q.step = (IF SendsStatus(p) THEN "send_status" ELSE "send_frame")
           /\ q.ws = {c} /\ q.todo = p.todo \ {c} /\ q.dead = p.dead
           /\ q.status = p.status /\ q.seq = p.seq /\ q.frame = p.frame
           /\ q.last_status = p.last_status /\ q.last_seq = p.last_seq
  BY DEF Forward, PumpStates

LEMMA NextClientCases ==
  ASSUME NEW p, NextClient(p)
  PROVE  \/ p.todo = {} /\ pump' = Asleep(p.status, p.seq) /\ clients' = clients \ p.dead
         \/ \E c \in p.todo : pump' = Forward(p, c) /\ clients' = clients
  BY DEF NextClient, EndPass, Forward

(* Going on to the next client, or to sleep, keeps what was brought to the *)
(* clients so far.                                                         *)
Brought(p) ==
  \A c \in Connections :
    /\ shown[c].status \in {NoDisplay, IF c \in p.todo THEN p.last_status ELSE p.status}
    /\ shown[c].frame # 0 => shown[c].frame >= IF c \in p.todo THEN p.last_seq ELSE p.seq

LEMMA NextClientStep ==
  ASSUME NEW p \in PumpStates, NextClient(p), TypeOK,
         p.seq <= frame_seq, p.seq <= p.frame, frame_seq' = frame_seq,
         Brought(p)', Renderable(p.status),
         \A c \in clients \cup p.todo : conn[c] # "new",
         \A c \in p.dead : conn[c] = "broken",
         conn' = conn
  PROVE  /\ pump' \in PumpStates /\ clients' \subseteq Connections
         /\ pump'.seq <= frame_seq' /\ (Sending' => pump'.seq <= pump'.frame)
         /\ Renderable(pump'.status)
         /\ \A c \in clients' \cup pump'.ws \cup pump'.todo : conn'[c] # "new"
         /\ pump'.ws \cap pump'.todo = {}
         /\ \A c \in pump'.dead : conn'[c] = "broken"
         /\ clients \ p.dead \subseteq clients'
         /\ Progress'
<1>. USE PumpFields
<1>1. CASE /\ p.todo = {} /\ pump' = Asleep(p.status, p.seq) /\ clients' = clients \ p.dead
  <2>1. /\ pump' \in PumpStates /\ pump'.step = "asleep"
        /\ pump'.status = NoDisplay /\ pump'.seq = -1
        /\ pump'.ws = {} /\ pump'.todo = {} /\ pump'.dead = {}
        /\ pump'.last_status = p.status /\ pump'.last_seq = p.seq
    BY <1>1, AsleepType
  <2>2. -1 <= frame_seq' /\ clients' \subseteq Connections
    BY <1>1 DEF TypeOK, Frames
  <2>3. ~Sending'
    BY <2>1 DEF Sending
  <2>4. Progress'
    BY <1>1, <2>1, <2>3 DEF Brought, Progress
  <2>. QED  BY <1>1, <2>1, <2>2, <2>3, <2>4, NoDisplayType
<1>2. ASSUME NEW d \in p.todo, pump' = Forward(p, d), clients' = clients
      PROVE  /\ pump' \in PumpStates /\ clients' \subseteq Connections
             /\ pump'.seq <= frame_seq' /\ (Sending' => pump'.seq <= pump'.frame)
             /\ Renderable(pump'.status)
             /\ \A c \in clients' \cup pump'.ws \cup pump'.todo : conn'[c] # "new"
             /\ pump'.ws \cap pump'.todo = {}
             /\ \A c \in pump'.dead : conn'[c] = "broken"
             /\ clients \ p.dead \subseteq clients'
             /\ Progress'
  <2>1. /\ pump' \in PumpStates
        /\ pump'.step = (IF SendsStatus(p) THEN "send_status" ELSE "send_frame")
        /\ pump'.ws = {d} /\ pump'.todo = p.todo \ {d} /\ pump'.dead = p.dead
        /\ pump'.status = p.status /\ pump'.seq = p.seq /\ pump'.frame = p.frame
        /\ pump'.last_status = p.last_status /\ pump'.last_seq = p.last_seq
    BY <1>2, ForwardType
  <2>2. Sending'
    BY <2>1 DEF Sending
  <2>3. ASSUME NEW c \in Connections
        PROVE  shown'[c].status \in
                 {NoDisplay, IF ~StatusDue(c)' THEN p.status ELSE p.last_status}
    <3>1. CASE c \in p.todo /\ ~StatusDue(c)'
      <4>1. c = d /\ ~SendsStatus(p)
        BY <2>1, <3>1 DEF StatusDue
      <4>. QED  BY <4>1, <3>1 DEF SendsStatus, Brought
    <3>2. CASE c \in p.todo /\ StatusDue(c)'
      BY <3>2 DEF Brought
    <3>3. CASE c \notin p.todo
      <4>1. ~StatusDue(c)'
        BY <2>1, <3>3 DEF StatusDue
      <4>. QED  BY <3>3, <4>1 DEF Brought
    <3>. QED  BY <3>1, <3>2, <3>3
  <2>4. ASSUME NEW c \in Connections, shown'[c].frame # 0
        PROVE  shown'[c].frame >= IF ~FrameDue(c)' THEN p.seq ELSE p.last_seq
    <3>1. FrameDue(c)' <=> c \in p.todo
      BY <2>1 DEF FrameDue
    <3>. QED  BY <2>4, <3>1 DEF Brought
  <2>5. Progress'
    BY <2>1, <2>2, <2>3, <2>4 DEF Progress
  <2>. QED  BY <1>2, <2>1, <2>5 DEF TypeOK
<1>. QED  BY <1>1, <1>2, NextClientCases

------------------------------------------------------------------------------
(* The steps. BInv is what speaks of the bridge.                           *)
BInv == TypeOK /\ FrameFirst /\ AllRenderable /\ Recipients /\ Progress

LEMMA Initially == FInit => FInv
<1>. SUFFICES ASSUME FInit PROVE FInv
  OBVIOUS
<1>1. 0 \in Frames /\ 0 \in 0..Len(Plan)
  BY FramesAssumption, PlanAssumption DEF FramesAssumption, PlanAssumption, Frames
<1>2. pump = Asleep(NoDisplay, -1)
  BY DEF FInit, Init
<1>3. /\ pump \in PumpStates /\ pump.step = "asleep" /\ pump.status = NoDisplay
      /\ pump.seq = -1 /\ pump.ws = {} /\ pump.todo = {} /\ pump.dead = {}
      /\ pump.last_status = NoDisplay
  BY <1>2, NoDisplayType, AsleepType
<1>4. status_json \in Displays /\ Renderable(status_json)
  BY <1>1 DEF FInit, Init, Displays, Renderable
<1>5. \A c \in Connections : shown[c] = Blank /\ shown[c].status = NoDisplay /\ shown[c].frame = 0
  BY NoDisplayType DEF FInit, Init
<1>6. TypeOK
  BY <1>1, <1>3, <1>4, NoDisplayType DEF FInit, Init, TypeOK
<1>7. FeedOK
  BY DEF FInit, Stream!Init, FeedOK
<1>8. FrameFirst
  BY <1>3 DEF FInit, Init, FrameFirst, Sending
<1>9. AllRenderable /\ Recipients /\ Progress
  BY <1>3, <1>4, <1>5, NoDisplayType DEF FInit, Init, AllRenderable, Recipients, Progress
<1>. QED  BY <1>6, <1>7, <1>8, <1>9 DEF FInv

LEMMA StutterStep ==
  ASSUME BInv, UNCHANGED vars
  PROVE  BInv'
  BY DEF BInv, vars, cell, TypeOK, FrameFirst, AllRenderable, Recipients, Progress,
         Sending, StatusDue, FrameDue

(* A step that leaves the pump and the clients alone. *)
LEMMA CellStep ==
  ASSUME BInv, UNCHANGED <<server, conn, clients, pump, shown>>,
         status_json' \in Displays, Renderable(status_json'),
         frame' \in Frames, frame_seq' \in Frames, bumping' \in BOOLEAN,
         frame_seq <= frame_seq', frame_seq' <= frame', bumping' => frame_seq' < frame'
  PROVE  BInv'
<1>1. TypeOK'
  BY DEF BInv, TypeOK
<1>2. FrameFirst'
  <2>1. pump.seq \in Int
    BY PumpFields DEF BInv, TypeOK, Frames
  <2>. QED  BY <2>1 DEF BInv, TypeOK, Frames, FrameFirst, Sending
<1>3. AllRenderable' /\ Recipients' /\ Progress'
  BY DEF BInv, AllRenderable, Recipients, Progress, Sending, StatusDue, FrameDue
<1>. QED  BY <1>1, <1>2, <1>3 DEF BInv

LEMMA CameraStep ==
  ASSUME BInv, Camera
  PROVE  BInv'
<1>1. frame \in Frames /\ frame_seq \in Frames /\ MaxFrames \in Nat
  BY FramesAssumption DEF BInv, TypeOK, FramesAssumption
<1>2. status_json \in Displays /\ Renderable(status_json)
  BY DEF BInv, TypeOK, AllRenderable
<1>3. CASE OnFrame
  <2>1. frame' \in Frames /\ frame_seq' = frame_seq /\ frame_seq < frame'
    BY <1>1, <1>3 DEF OnFrame, Frames, BInv, FrameFirst
  <2>. QED  BY <1>1, <1>2, <1>3, <2>1, CellStep DEF OnFrame, Frames
<1>4. CASE BumpSeq
  <2>1. frame_seq' \in Frames /\ frame_seq <= frame_seq' /\ frame_seq' <= frame' /\ frame' = frame
    BY <1>1, <1>4 DEF BumpSeq, Frames, BInv, FrameFirst
  <2>. QED  BY <1>1, <1>2, <1>4, <2>1, CellStep DEF BumpSeq
<1>. QED  BY <1>3, <1>4 DEF Camera

LEMMA DeliverStep ==
  ASSUME FInv, Deliver
  PROVE  BInv' /\ FeedOK'
<1>1. topic \in Seq(Published) /\ topic # <<>>
  BY DEF FInv, FeedOK, Deliver
<1>2. Head(topic) \in Published /\ Tail(topic) \in Seq(Published)
  BY <1>1
<1>3. BInv'
  <2>1. status_json' \in Displays /\ Renderable(status_json')
    BY <1>2, DisplayType DEF Deliver, OnStatus
  <2>2. /\ frame \in Frames /\ frame_seq \in Frames /\ bumping \in BOOLEAN
        /\ frame_seq <= frame
        /\ bumping => frame_seq < frame
    BY DEF FInv, TypeOK, FrameFirst
  <2>3. UNCHANGED <<frame, frame_seq, bumping, server, conn, clients, pump, shown>>
    BY DEF Deliver, OnStatus
  <2>. QED  BY <2>1, <2>2, <2>3, CellStep DEF BInv, FInv, Frames
<1>4. FeedOK'
  BY <1>2 DEF Deliver, FeedOK, FInv
<1>. QED  BY <1>3, <1>4

(* A step of the connections leaves the cell and the pump alone. *)
LEMMA ConnectionStep ==
  ASSUME BInv, UNCHANGED <<cell, server, pump>>, TypeOK',
         \A c \in Connections : shown'[c] \in {shown[c], Blank},
         Recipients'
  PROVE  BInv'
<1>1. FrameFirst'
  BY DEF BInv, cell, FrameFirst, Sending
<1>2. AllRenderable'
  BY NoDisplayType DEF BInv, cell, AllRenderable
<1>3. Progress'
  BY NoDisplayType DEF BInv, Progress, Sending, StatusDue, FrameDue
<1>. QED  BY <1>1, <1>2, <1>3 DEF BInv

LEMMA ClientsStep ==
  ASSUME BInv, Clients
  PROVE  BInv'
<1>. USE DEF BInv, TypeOK, Recipients
<1>1. ASSUME NEW c \in Connections, Connect(c) PROVE BInv'
  <2>1. TypeOK' /\ Recipients'
    BY <1>1 DEF Connect, cell
  <2>. QED  BY <1>1, <2>1, ConnectionStep DEF Connect
<1>2. ASSUME NEW c \in Connections, Break(c) PROVE BInv'
  <2>1. Blank \in [status : Displays, frame : Frames]
    BY NoDisplayType, FramesAssumption DEF FramesAssumption, Frames
  <2>2. TypeOK' /\ Recipients'
    BY <1>2, <2>1 DEF Break, cell
  <2>. QED  BY <1>2, <2>2, ConnectionStep DEF Break
<1>3. ASSUME NEW c \in Connections, Leave(c) PROVE BInv'
  <2>1. TypeOK' /\ Recipients'
    BY <1>3 DEF Leave, cell
  <2>. QED  BY <1>3, <2>1, ConnectionStep DEF Leave
<1>. QED  BY <1>1, <1>2, <1>3 DEF Clients

LEMMA ServerStep ==
  ASSUME BInv, Serve \/ Shutdown
  PROVE  BInv'
<1>1. CASE Serve
  BY <1>1 DEF Serve, BInv, cell, TypeOK, FrameFirst, AllRenderable, Recipients, Progress,
              Sending, StatusDue, FrameDue
<1>2. CASE Shutdown
  <2>1. /\ pump' \in PumpStates /\ pump'.step = "asleep" /\ pump'.status = NoDisplay
        /\ pump'.seq = -1 /\ pump'.ws = {} /\ pump'.todo = {} /\ pump'.dead = {}
        /\ pump'.last_status = NoDisplay
    BY <1>2, NoDisplayType, AsleepType DEF Shutdown
  <2>2. \A c \in Connections : shown'[c] = Blank /\ shown'[c].status = NoDisplay /\ shown'[c].frame = 0
    BY <1>2, NoDisplayType DEF Shutdown
  <2>3. TypeOK'
    <3>1. Blank \in [status : Displays, frame : Frames]
      BY NoDisplayType, FramesAssumption DEF FramesAssumption, Frames
    <3>. QED  BY <1>2, <2>1, <3>1 DEF Shutdown, cell, BInv, TypeOK
  <2>4. FrameFirst'
    BY <1>2, <2>1 DEF Shutdown, cell, BInv, TypeOK, FrameFirst, Frames, Sending
  <2>5. AllRenderable' /\ Recipients' /\ Progress'
    BY <1>2, <2>1, <2>2, NoDisplayType DEF Shutdown, cell, BInv, AllRenderable, Recipients, Progress
  <2>. QED  BY <2>3, <2>4, <2>5 DEF BInv
<1>. QED  BY <1>1, <1>2

(* The pump reads.                                                         *)
LEMMA ReadStep ==
  ASSUME BInv, ReadStatus \/ ReadSeq
  PROVE  BInv'
<1>. USE DEF BInv
<1>1. pump \in PumpStates /\ UNCHANGED <<cell, server, conn, clients, shown>>
  BY DEF TypeOK, ReadStatus, ReadSeq
<1>2. /\ pump' \in PumpStates /\ pump'.step \in {"read_seq", "read_frame"}
      /\ pump'.status \in {pump.status, status_json} /\ pump'.seq \in {pump.seq, frame_seq}
      /\ pump'.ws = pump.ws /\ pump'.todo = pump.todo /\ pump'.dead = pump.dead
      /\ pump'.last_status = pump.last_status /\ pump'.last_seq = pump.last_seq
  <2>1. status_json \in Displays /\ frame_seq \in Frames
    BY DEF TypeOK
  <2>2. CASE ReadStatus
    <3>1. pump' = [pump EXCEPT !.step = "read_seq", !.status = status_json]
      BY <2>2 DEF ReadStatus
    <3>. QED  BY <1>1, <2>1, <3>1 DEF PumpStates
  <2>3. CASE ReadSeq
    <3>1. pump' = [pump EXCEPT !.step = "read_frame", !.seq = frame_seq]
      BY <2>3 DEF ReadSeq
    <3>. QED  BY <1>1, <2>1, <3>1 DEF PumpStates
  <2>. QED  BY <2>2, <2>3
<1>3. ~Sending /\ ~Sending'
  BY <1>2 DEF ReadStatus, ReadSeq, Sending
<1>4. TypeOK'
  BY <1>1, <1>2 DEF TypeOK, cell
<1>5. FrameFirst'
  BY <1>1, <1>2, <1>3 DEF FrameFirst, cell, TypeOK, Frames
<1>6. AllRenderable' /\ Recipients' /\ Progress'
  BY <1>1, <1>2, <1>3 DEF AllRenderable, Recipients, Progress, cell
<1>. QED  BY <1>4, <1>5, <1>6

(* The pump goes on to a client or to sleep, having sent to at most one.   *)
LEMMA GoingOn ==
  ASSUME BInv, NEW p \in PumpStates, NextClient(p), UNCHANGED <<cell, server, conn>>,
         p.seq <= frame_seq, p.seq <= p.frame, Brought(p)', Renderable(p.status),
         \A c \in clients \cup p.todo : conn[c] # "new",
         \A c \in p.dead : conn[c] = "broken",
         shown' \in [Connections -> [status : Displays, frame : Frames]],
         \A c \in Connections : /\ Renderable(shown'[c].status)
                                /\ conn[c] # "open" => shown'[c] = Blank
  PROVE  BInv'
<1>. USE DEF BInv
<1>1. frame_seq' = frame_seq /\ conn' = conn
  BY DEF cell
<1>2. /\ pump' \in PumpStates /\ clients' \subseteq Connections
      /\ pump'.seq <= frame_seq' /\ (Sending' => pump'.seq <= pump'.frame)
      /\ Renderable(pump'.status)
      /\ \A c \in clients' \cup pump'.ws \cup pump'.todo : conn'[c] # "new"
      /\ pump'.ws \cap pump'.todo = {}
      /\ \A c \in pump'.dead : conn'[c] = "broken"
      /\ clients \ p.dead \subseteq clients'
      /\ Progress'
  BY <1>1, NextClientStep
<1>3. TypeOK'
  BY <1>2 DEF TypeOK, cell
<1>4. FrameFirst'
  <2>1. frame' = frame /\ frame_seq' = frame_seq /\ bumping' = bumping
    BY DEF cell
  <2>. QED  BY <1>2, <2>1 DEF FrameFirst
<1>5. AllRenderable'
  BY <1>2 DEF AllRenderable, cell
<1>6. Recipients'
  BY <1>2 DEF Recipients
<1>. QED  BY <1>2, <1>3, <1>4, <1>5, <1>6

LEMMA SnapshotStep ==
  ASSUME BInv, Snapshot
  PROVE  BInv'
<1>. USE DEF BInv
<1>. DEFINE q == [pump EXCEPT !.frame = frame]
            r == [q EXCEPT !.todo = IF SendsStatus(q) \/ SendsFrame(q) THEN clients ELSE {}]
<1>1. pump \in PumpStates /\ frame \in Frames /\ clients \subseteq Connections
  BY DEF TypeOK
<1>2. q \in PumpStates /\ r \in PumpStates
  BY <1>1 DEF PumpStates
<1>3. /\ r.status = pump.status /\ r.last_status = pump.last_status
      /\ r.seq = pump.seq /\ r.last_seq = pump.last_seq /\ r.frame = frame
      /\ r.dead = pump.dead
      /\ r.todo = IF SendsStatus(r) \/ SendsFrame(r) THEN clients ELSE {}
  BY <1>1 DEF PumpStates, SendsStatus, SendsFrame
<1>4. PICK p \in PumpStates : p = r
  BY <1>2
<1>5. NextClient(p) /\ UNCHANGED <<cell, server, conn, shown>>
  BY <1>4 DEF Snapshot
<1>6. p.seq <= frame_seq /\ p.seq <= p.frame
  BY <1>1, <1>3, <1>4, PumpFields DEF FrameFirst, TypeOK, Frames
<1>7. \A c \in clients \cup p.todo : conn[c] # "new"
  <2>1. p.todo \subseteq clients
    BY <1>3, <1>4
  <2>. QED  BY <2>1 DEF Recipients
<1>8. \A c \in p.dead : conn[c] = "broken"
  <2>1. p.dead = pump.dead
    BY <1>3, <1>4
  <2>. QED  BY <2>1 DEF Recipients
<1>9. ~Sending
  BY DEF Snapshot, Sending
<1>10. Brought(p)'
  <2>1. ASSUME NEW c \in Connections
        PROVE  /\ shown[c].status \in {NoDisplay, IF c \in p.todo THEN p.last_status ELSE p.status}
               /\ shown[c].frame # 0 => shown[c].frame >= IF c \in p.todo THEN p.last_seq ELSE p.seq
    <3>1. /\ shown[c].status \in {NoDisplay, p.last_status}
          /\ shown[c].frame # 0 => shown[c].frame >= p.last_seq
      BY <1>3, <1>4, <1>9 DEF Progress
    <3>2. CASE c \in p.todo
      BY <3>1, <3>2
    <3>3. CASE c \notin clients
      BY <3>3, <1>3, <1>4, NoDisplayType DEF Recipients, TypeOK
    <3>4. CASE ~SendsStatus(p) /\ ~SendsFrame(p)
      <4>1. shown[c].frame \in Nat
        BY FramesAssumption DEF TypeOK, Frames, FramesAssumption
      <4>2. p.status = p.last_status /\ (p.seq = p.last_seq \/ p.frame = 0)
        BY <3>4 DEF SendsStatus, SendsFrame
      <4>3. p.frame = 0 => p.seq <= 0
        BY <1>6
      <4>. QED  BY <1>2, <3>1, <4>1, <4>2, <4>3, PumpFields DEF Frames
    <3>. QED  BY <1>3, <1>4, <3>2, <3>3, <3>4
  <2>. QED  BY <1>5, <2>1 DEF Brought
<1>11. Renderable(p.status)
  BY <1>3, <1>4 DEF AllRenderable
<1>12. shown' \in [Connections -> [status : Displays, frame : Frames]]
  BY <1>5 DEF TypeOK
<1>13. ASSUME NEW c \in Connections
       PROVE  /\ Renderable(shown'[c].status)
              /\ conn[c] # "open" => shown'[c] = Blank
  BY <1>5 DEF AllRenderable, Recipients
<1>. QED  BY <1>5, <1>6, <1>7, <1>8, <1>10, <1>11, <1>12, <1>13, GoingOn

(* A client that is skipped misses no frame.                               *)
LEMMA SkippedFrame ==
  ASSUME BInv, Sending, ~SendsFrame(pump), NEW c \in Connections, shown[c].frame # 0
  PROVE  shown[c].frame >= pump.seq
<1>. USE DEF BInv
<1>1. /\ pump.seq \in Int /\ pump.last_seq \in Int /\ pump.frame \in Nat
      /\ shown[c].frame \in Nat /\ pump.seq <= pump.frame
  BY PumpFields, FramesAssumption DEF TypeOK, FrameFirst, Frames, FramesAssumption
<1>2. shown[c].frame >= pump.seq \/ shown[c].frame >= pump.last_seq
  BY DEF Progress
<1>3. pump.seq = pump.last_seq \/ pump.frame = 0
  BY DEF SendsFrame
<1>. QED  BY <1>1, <1>2, <1>3

LEMMA SendStatusStep ==
  ASSUME BInv, NEW c \in Connections, SendStatus(c)
  PROVE  BInv'
<1>. USE DEF BInv
<1>1. /\ pump \in PumpStates /\ pump.status \in Displays /\ Renderable(pump.status)
      /\ pump.step = "send_status" /\ pump.ws = {c} /\ Sending /\ conn[c] = "open"
      /\ c \notin pump.todo /\ UNCHANGED <<cell, server, conn>>
  BY PumpFields DEF SendStatus, TypeOK, Sending, AllRenderable, Recipients
<1>2. /\ shown' = [shown EXCEPT ![c].status = pump.status]
      /\ shown' \in [Connections -> [status : Displays, frame : Frames]]
  BY <1>1 DEF SendStatus, TypeOK
<1>3. /\ shown'[c].status = pump.status
      /\ \A d \in Connections : /\ shown'[d].frame = shown[d].frame
                                /\ d # c => shown'[d] = shown[d]
  BY <1>2 DEF TypeOK
<1>4. ASSUME NEW d \in Connections
      PROVE  /\ Renderable(shown'[d].status)
             /\ conn[d] # "open" => shown'[d] = Blank
  BY <1>1, <1>3 DEF AllRenderable, Recipients
<1>5. ASSUME NEW d \in Connections
      PROVE  shown'[d].status \in
               {NoDisplay, IF d \in pump.todo THEN pump.last_status ELSE pump.status}
  BY <1>1, <1>3 DEF Progress, StatusDue
<1>6. CASE SendsFrame(pump)
  <2>1. pump' = [pump EXCEPT !.step = "send_frame"] /\ clients' = clients
    BY <1>6 DEF SendStatus
  <2>2. /\ pump' \in PumpStates /\ pump'.step = "send_frame" /\ pump'.status = pump.status
        /\ pump'.seq = pump.seq /\ pump'.frame = pump.frame
        /\ pump'.ws = pump.ws /\ pump'.todo = pump.todo /\ pump'.dead = pump.dead
        /\ pump'.last_status = pump.last_status /\ pump'.last_seq = pump.last_seq
    BY <1>1, <2>1 DEF PumpStates
  <2>3. TypeOK'
    BY <1>1, <1>2, <2>1, <2>2 DEF TypeOK, cell
  <2>4. FrameFirst' /\ Sending'
    BY <1>1, <2>2 DEF FrameFirst, cell, Sending
  <2>5. AllRenderable'
    BY <1>1, <1>4, <2>2 DEF AllRenderable, cell
  <2>6. Recipients'
    BY <1>1, <1>4, <2>1, <2>2 DEF Recipients
  <2>7. Progress'
    <3>1. ASSUME NEW d \in Connections
          PROVE  (StatusDue(d)' <=> d \in pump.todo) /\ (FrameDue(d)' <=> FrameDue(d))
      BY <2>2 DEF StatusDue, FrameDue
    <3>2. ASSUME NEW d \in Connections, shown[d].frame # 0
          PROVE  shown[d].frame >= IF FrameDue(d) THEN pump.last_seq ELSE pump.seq
      BY <1>1, <3>2 DEF Progress
    <3>. QED  BY <1>3, <1>5, <2>2, <2>4, <3>1, <3>2 DEF Progress
  <2>. QED  BY <2>3, <2>4, <2>5, <2>6, <2>7
<1>7. CASE ~SendsFrame(pump)
  <2>1. PICK p \in PumpStates : p = pump
    BY <1>1
  <2>2. NextClient(p)
    BY <1>7, <2>1 DEF SendStatus
  <2>3. p.seq <= frame_seq /\ p.seq <= p.frame
    BY <1>1, <2>1 DEF FrameFirst
  <2>4. Brought(p)'
    <3>1. ASSUME NEW d \in Connections, shown[d].frame # 0
          PROVE  shown[d].frame >= IF d \in pump.todo THEN pump.last_seq ELSE pump.seq
      <4>1. CASE d \in pump.todo
        BY <1>1, <3>1, <4>1 DEF Progress, FrameDue
      <4>2. CASE d \notin pump.todo
        BY <1>1, <1>7, <3>1, <4>2, SkippedFrame
      <4>. QED  BY <4>1, <4>2
    <3>. QED  BY <1>3, <1>5, <2>1, <3>1 DEF Brought
  <2>5. Renderable(p.status) /\ \A d \in clients \cup p.todo : conn[d] # "new"
    BY <1>1, <2>1 DEF Recipients
  <2>6. \A d \in p.dead : conn[d] = "broken"
    BY <2>1 DEF Recipients
  <2>. QED  BY <1>1, <1>2, <1>4, <2>2, <2>3, <2>4, <2>5, <2>6, GoingOn
<1>. QED  BY <1>6, <1>7

LEMMA SendFrameStep ==
  ASSUME BInv, NEW c \in Connections, SendFrame(c)
  PROVE  BInv'
<1>. USE DEF BInv
<1>1. /\ pump \in PumpStates /\ pump.frame \in Frames /\ Renderable(pump.status)
      /\ pump.step = "send_frame" /\ pump.ws = {c} /\ Sending /\ conn[c] = "open"
      /\ c \notin pump.todo /\ UNCHANGED <<cell, server, conn>>
  BY PumpFields DEF SendFrame, TypeOK, Sending, AllRenderable, Recipients
<1>2. /\ shown' = [shown EXCEPT ![c].frame = pump.frame]
      /\ shown' \in [Connections -> [status : Displays, frame : Frames]]
  BY <1>1 DEF SendFrame, TypeOK
<1>3. /\ shown'[c].frame = pump.frame
      /\ \A d \in Connections : /\ shown'[d].status = shown[d].status
                                /\ d # c => shown'[d] = shown[d]
  BY <1>2 DEF TypeOK
<1>4. ASSUME NEW d \in Connections
      PROVE  /\ Renderable(shown'[d].status)
             /\ conn[d] # "open" => shown'[d] = Blank
  BY <1>1, <1>3 DEF AllRenderable, Recipients
<1>5. PICK p \in PumpStates : p = pump
  BY <1>1
<1>6. NextClient(p)
  BY <1>5 DEF SendFrame
<1>7. p.seq <= frame_seq /\ p.seq <= p.frame
  BY <1>1, <1>5 DEF FrameFirst
<1>8. Brought(p)'
  <2>1. ASSUME NEW d \in Connections
        PROVE  shown[d].status \in
                 {NoDisplay, IF d \in pump.todo THEN pump.last_status ELSE pump.status}
    BY <1>1 DEF Progress, StatusDue
  <2>2. ASSUME NEW d \in Connections, shown'[d].frame # 0
        PROVE  shown'[d].frame >= IF d \in pump.todo THEN pump.last_seq ELSE pump.seq
    <3>1. pump.frame \in Int /\ pump.seq \in Int /\ pump.seq <= pump.frame
      BY <1>1, PumpFields DEF Frames, FrameFirst
    <3>2. CASE d = c
      BY <1>1, <1>3, <3>1, <3>2
    <3>3. CASE d # c
      BY <1>1, <1>3, <2>2, <3>3 DEF Progress, FrameDue
    <3>. QED  BY <3>2, <3>3
  <2>. QED  BY <1>3, <1>5, <2>1, <2>2 DEF Brought
<1>9. Renderable(p.status) /\ \A d \in clients \cup p.todo : conn[d] # "new"
  BY <1>1, <1>5 DEF Recipients
<1>10. \A d \in p.dead : conn[d] = "broken"
  BY <1>5 DEF Recipients
<1>. QED  BY <1>1, <1>2, <1>4, <1>6, <1>7, <1>8, <1>9, <1>10, GoingOn

LEMMA SendFailsStep ==
  ASSUME BInv, NEW c \in Connections, SendFails(c)
  PROVE  BInv'
<1>. USE DEF BInv
<1>. DEFINE q == [pump EXCEPT !.dead = @ \cup {c}]
<1>1. /\ pump \in PumpStates /\ pump.ws = {c} /\ Sending /\ conn[c] # "open" /\ conn[c] # "new"
      /\ UNCHANGED <<cell, server, conn, shown>>
  BY DEF SendFails, TypeOK, Sending, Recipients
<1>2. /\ q \in PumpStates /\ q.todo = pump.todo /\ q.dead = pump.dead \cup {c}
      /\ q.status = pump.status /\ q.last_status = pump.last_status
      /\ q.seq = pump.seq /\ q.last_seq = pump.last_seq /\ q.frame = pump.frame
  BY <1>1 DEF PumpStates
<1>3. PICK p \in PumpStates : p = q
  BY <1>2
<1>4. NextClient(p)
  BY <1>3 DEF SendFails
<1>5. p.seq <= frame_seq /\ p.seq <= p.frame
  BY <1>1, <1>2, <1>3 DEF FrameFirst
<1>6. shown[c].status = NoDisplay /\ shown[c].frame = 0
  BY <1>1, NoDisplayType DEF Recipients
<1>7. Brought(p)'
  <2>1. ASSUME NEW d \in Connections
        PROVE  shown[d].status \in
                 {NoDisplay, IF d \in pump.todo THEN pump.last_status ELSE pump.status}
    BY <1>1, <1>6 DEF Progress, StatusDue
  <2>2. ASSUME NEW d \in Connections, shown[d].frame # 0
        PROVE  shown[d].frame >= IF d \in pump.todo THEN pump.last_seq ELSE pump.seq
    BY <1>1, <1>6, <2>2 DEF Progress, FrameDue
  <2>. QED  BY <1>1, <1>2, <1>3, <2>1, <2>2 DEF Brought
<1>8. Renderable(p.status) /\ \A d \in clients \cup p.todo : conn[d] # "new"
  <2>1. p.todo = pump.todo /\ p.status = pump.status
    BY <1>2, <1>3
  <2>. QED  BY <2>1 DEF AllRenderable, Recipients
<1>9. \A d \in p.dead : conn[d] = "broken"
  <2>1. p.dead = pump.dead \cup {c} /\ conn[c] = "broken"
    BY <1>1, <1>2, <1>3 DEF TypeOK
  <2>. QED  BY <2>1 DEF Recipients
<1>10. shown' \in [Connections -> [status : Displays, frame : Frames]]
  BY <1>1 DEF TypeOK
<1>11. ASSUME NEW d \in Connections
       PROVE  /\ Renderable(shown'[d].status)
              /\ conn[d] # "open" => shown'[d] = Blank
  BY <1>1 DEF AllRenderable, Recipients
<1>. QED  BY <1>1, <1>4, <1>5, <1>7, <1>8, <1>9, <1>10, <1>11, GoingOn

LEMMA EveryStep == FInv /\ [FNext]_fvars => FInv'
<1>. SUFFICES ASSUME FInv, [FNext]_fvars PROVE FInv'
  OBVIOUS
<1>. USE DEF FInv, BInv
<1>1. CASE Publish
  <2>1. FeedOK'
    BY <1>1, StreamStep DEF Publish
  <2>. QED  BY <1>1, <2>1, StutterStep DEF Publish
<1>2. CASE Deliver
  BY <1>2, DeliverStep
<1>3. CASE Bridge
  <2>1. FeedOK'
    BY <1>3 DEF Bridge, feed, FeedOK
  <2>2. CASE Camera
    BY <2>1, <2>2, CameraStep
  <2>3. CASE Serve \/ Shutdown
    BY <2>1, <2>3, ServerStep
  <2>4. CASE Clients
    BY <2>1, <2>4, ClientsStep
  <2>5. CASE Pump
    <3>1. CASE ReadStatus \/ ReadSeq
      BY <2>1, <3>1, ReadStep
    <3>2. CASE Snapshot
      BY <2>1, <3>2, SnapshotStep
    <3>3. CASE \E c \in Connections : SendStatus(c) \/ SendFrame(c) \/ SendFails(c)
      BY <2>1, <3>3, SendStatusStep, SendFrameStep, SendFailsStep
    <3>. QED  BY <2>5, <3>1, <3>2, <3>3 DEF Pump
  <2>. QED  BY <1>3, <2>2, <2>3, <2>4, <2>5 DEF Bridge
<1>4. CASE UNCHANGED fvars
  <2>1. FeedOK'
    BY <1>4 DEF fvars, feed, FeedOK
  <2>. QED  BY <1>4, <2>1, StutterStep DEF fvars
<1>. QED  BY <1>1, <1>2, <1>3, <1>4 DEF FNext

(* The invariant of the bridge and its feed.                               *)
THEOREM GuiInvariant == FSpec => []FInv
<1>. QED  BY Initially, EveryStep, PTL DEF FSpec

(* Every variable of gui_bridge_node stays in its range.                   *)
THEOREM GuiTypeCorrect == FSpec => []TypeOK
<1>1. FInv => TypeOK
  BY DEF FInv
<1>. QED  BY <1>1, GuiInvariant, PTL

(* The pump leaves nobody behind by a status that came, or by a client     *)
(* that broke, while it was sending.                                       *)
THEOREM StatusesInStep == FSpec => []StatusInStep
<1>1. FInv => StatusInStep
  BY DEF FInv, TypeOK, Progress, Sending, StatusInStep
<1>. QED  BY <1>1, GuiInvariant, PTL

(* The pump sends no frame under the number of a newer one.                *)
THEOREM FramesInStep == FSpec => []FrameInStep
<1>1. FInv => FrameInStep
  BY DEF FInv, TypeOK, Progress, Sending, FrameInStep
<1>. QED  BY <1>1, GuiInvariant, PTL

(* What _status_to_json makes of the stream keeps to the renderer's        *)
(* contract, at every client.                                              *)
THEOREM ContractKept == FSpec => []RendererContract
<1>1. FInv => RendererContract
  BY DEF FInv, AllRenderable, RendererContract
<1>. QED  BY <1>1, GuiInvariant, PTL
=============================================================================
