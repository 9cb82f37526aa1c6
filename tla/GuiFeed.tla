------------------------------ MODULE GuiFeed -------------------------------
(***************************************************************************)
(* gui_bridge_node fed by the statuses TaskStatusStream allows, which      *)
(* orchestrator_node implements.                                           *)
(*                                                                         *)
(* The bridge cannot tell a status that waits in the topic from one not    *)
(* published yet, nor one that a full history drops from one it overwrites *)
(* before the pump looks; so a status is published when the ones before it *)
(* are delivered.                                                          *)
(***************************************************************************)
EXTENDS GuiBridge

CONSTANT Plan  \* the names of each task's sub-tasks, in order

ASSUME FramesAssumption == MaxFrames \in Nat
ASSUME PlanAssumption == Plan \in Seq(Seq(STRING))

(* No sub-task is named "", which on the topic is the lack of one. *)
ASSUME NamesAssumption ==
  \A task \in DOMAIN Plan : \A i \in DOMAIN Plan[task] : Plan[task][i] # ""

VARIABLES
  last,   \* the last status published
  topic   \* /cortex/task_status: undelivered messages

Stream == INSTANCE TaskStatusStream WITH batch <- topic

feed == <<last, topic>>
fvars == <<vars, feed>>

Message(status) ==
  [state |-> status.state, task |-> status.task, index |-> status.index,
   current_subtask |-> status.current_subtask, count |-> Len(Plan[status.task])]

Publish ==
  /\ Spinning /\ topic = <<>>
  /\ Stream!Next /\ topic' # <<>>
  /\ UNCHANGED vars

Deliver ==
  /\ topic # <<>>
  /\ OnStatus(Message(Head(topic)))
  /\ topic' = Tail(topic)
  /\ UNCHANGED last

Bridge == (Camera \/ Serve \/ Shutdown \/ Clients \/ Pump) /\ UNCHANGED feed

FInit == Init /\ Stream!Init

FNext == Publish \/ Deliver \/ Bridge

FSpec == FInit /\ [][FNext]_fvars

(***************************************************************************)
(* rclpy keeps spinning, so what was published is delivered and a callback *)
(* ends. The pump goes on as long as the loop does: it sleeps a period,    *)
(* and a send ends or fails (a client that does not read does not answer   *)
(* the keepalive either, and its connection breaks). Nobody has to connect *)
(* or to publish.                                                          *)
(***************************************************************************)
FFairSpec ==
  /\ FSpec
  /\ WF_fvars(Deliver \/ (BumpSeq /\ UNCHANGED feed))
  /\ WF_fvars(Pump /\ UNCHANGED feed)

------------------------------------------------------------------------------
(* Properties.                                                             *)

(* Every variable stays in its range. *)
SubtasksOf(task) ==
  {<<[name |-> Plan[task][i], i |-> i - 1, n |-> Len(Plan[task])]>> : i \in DOMAIN Plan[task]}
Displays ==
  [scenario : 0..Len(Plan), state : {"none", "idle", "active", "success", "failed"},
   subtask : {<<>>} \cup UNION {SubtasksOf(task) : task \in DOMAIN Plan}]
Frames == 0..MaxFrames
PumpStates ==
  [step : {"asleep", "read_seq", "read_frame", "send_status", "send_frame"},
   status : Displays, seq : Frames \cup {-1}, frame : Frames,
   ws : SUBSET Connections, todo : SUBSET Connections, dead : SUBSET Connections,
   last_status : Displays, last_seq : Frames \cup {-1}]

TypeOK ==
  /\ status_json \in Displays
  /\ frame \in Frames /\ frame_seq \in Frames /\ bumping \in BOOLEAN
  /\ server \in {"starting", "serving", "failed", "closed"}
  /\ conn \in [Connections -> {"new", "open", "broken"}]
  /\ clients \subseteq Connections
  /\ pump \in PumpStates
  /\ shown \in [Connections -> [status : Displays, frame : Frames]]

(* Between two passes every client that ever got a status shows the one    *)
(* the pump takes as sent: none is left behind by a status that came, or   *)
(* by another client that broke, during the sends.                         *)
StatusInStep ==
  pump.step = "asleep" =>
    \A c \in clients : shown[c].status \in {NoDisplay, pump.last_status}

(* Between two passes every client that ever got a frame shows one at      *)
(* least as new as the number the pump takes as sent: the frame is written *)
(* before its number and read after it, so no frame is sent under the      *)
(* number of a newer one, which then would not be sent.                    *)
FrameInStep ==
  pump.step = "asleep" =>
    \A c \in clients : shown[c].frame # 0 => shown[c].frame >= pump.last_seq

(* The renderer's contract: an active task has a sub-task, which is one of *)
(* its n; an idle display and a finished task have none.                   *)
Renderable(display) ==
  /\ display.state = "active" <=> display.subtask # <<>>
  /\ \A k \in DOMAIN display.subtask : display.subtask[k].i \in 0..(display.subtask[k].n - 1)

RendererContract == \A c \in Connections : Renderable(shown[c].status)

(* When the orchestrator falls silent, every client that was ever served   *)
(* ends up with its last status and the last frame, whatever the other     *)
(* clients do, unless it leaves or the bridge is shut down.                *)
Served(c) == server = "serving" /\ conn[c] = "open" /\ shown[c].status # NoDisplay
Behind(c) ==
  /\ Served(c)
  /\ \/ last # Stream!NoStatus /\ shown[c].status # Display(Message(last))
     \/ shown[c].frame \notin {0, frame}

ShowsTheEnd ==
  []<><<Publish>>_fvars \/ <>[](\A c \in Connections : ~Behind(c))

------------------------------------------------------------------------------
(* What the documentation says of the program and the code does not do.    *)

(* gui_bridge_node.py:3-7: the renderer connects and expects the status    *)
(* and the image: a client that stays connected is shown a status.         *)
JoinersAreShownTheStatus ==
  \A c \in Connections :
    (server = "serving" /\ conn[c] = "open") ~>
      (server # "serving" \/ conn[c] # "open" \/ shown[c].status # NoDisplay)
=============================================================================
