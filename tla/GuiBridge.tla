----------------------------- MODULE GuiBridge ------------------------------
(***************************************************************************)
(* gui_bridge_node: task status and camera frames to WebSocket clients.    *)
(*                                                                         *)
(* The node's main thread runs the ROS callbacks and overwrites the        *)
(* latest-value cell; a daemon thread runs an asyncio loop with the pump   *)
(* and one handler per connection. Every access of the cell is a step.     *)
(* Handlers run only while the pump awaits: asleep or sending.             *)
(*                                                                         *)
(* Frames are numbered as the camera sends them (0: b''). A client is its  *)
(* connection, opened once.                                                *)
(***************************************************************************)
EXTENDS Integers, Sequences

CONSTANTS
  Connections,  \* the connections that may be opened
  MaxFrames     \* bound: frames the camera sends

VARIABLES
  status_json,  \* _status_json
  frame,        \* _frame
  frame_seq,    \* _frame_seq
  bumping,      \* the camera callback wrote the frame, not yet its number
  server,       \* "starting", "serving", "failed" (not bound) or "closed"
  conn,         \* per connection: "new", "open" or "broken"
  clients,      \* _clients
  pump,         \* the pump's step and locals
  shown         \* per open connection: the status and the frame received last

cell == <<status_json, frame, frame_seq, bumping>>
vars == <<cell, server, conn, clients, pump, shown>>

StateName ==
  [IDLE |-> "idle", RUNNING |-> "active", SUCCEEDED |-> "success",
   FAILED |-> "failed", PREEMPTED |-> "idle"]

(* Mutation: a finished task is given the sub-task "". *)
DisplayNamingAlways(msg) ==
  LET state == StateName[msg.state] IN
    [scenario |-> msg.task,
     subtask |-> IF state = "idle" THEN <<>>
                 ELSE <<[name |-> msg.current_subtask, i |-> msg.index, n |-> msg.count]>>,
     state |-> state]

(* Mutation: sub-tasks are counted from 1. *)
DisplayFromOne(msg) ==
  LET state == StateName[msg.state] IN
    [scenario |-> msg.task,
     subtask |-> IF state = "idle" \/ msg.current_subtask = "" THEN <<>>
                 ELSE <<[name |-> msg.current_subtask, i |-> msg.index + 1, n |-> msg.count]>>,
     state |-> state]

(* _status_to_json; <<>> is null. *)
Display(msg) ==
  LET state == StateName[msg.state] IN
    [scenario |-> msg.task,
     subtask |-> IF state = "idle" \/ msg.current_subtask = "" THEN <<>>
                 ELSE <<[name |-> msg.current_subtask, i |-> msg.index, n |-> msg.count]>>,
     state |-> state]

(* Python's None: no status was sent, or received, yet. *)
NoDisplay == [scenario |-> 0, subtask |-> <<>>, state |-> "none"]

Blank == [status |-> NoDisplay, frame |-> 0]

Asleep(last_status, last_seq) ==
  [step |-> "asleep", status |-> NoDisplay, seq |-> -1, frame |-> 0,
   ws |-> {}, todo |-> {}, dead |-> {}, last_status |-> last_status, last_seq |-> last_seq]

Init ==
  /\ status_json = [scenario |-> 0, subtask |-> <<>>, state |-> "idle"]
  /\ frame = 0 /\ frame_seq = 0 /\ bumping = FALSE
  /\ server = "starting"
  /\ conn = [c \in Connections |-> "new"]
  /\ clients = {}
  /\ pump = Asleep(NoDisplay, -1)
  /\ shown = [c \in Connections |-> Blank]

------------------------------------------------------------------------------
(* The main thread.                                                        *)

Spinning == server # "closed"

OnStatus(msg) ==
  /\ Spinning /\ ~bumping
  /\ status_json' = Display(msg)
  /\ UNCHANGED <<frame, frame_seq, bumping, server, conn, clients, pump, shown>>

(* _on_compressed, _on_raw (one that cannot be encoded is dropped): the     *)
(* frame, then its number.                                                 *)
OnFrame ==
  /\ Spinning /\ ~bumping /\ frame < MaxFrames
  /\ frame' = frame + 1 /\ bumping' = TRUE
  /\ UNCHANGED <<status_json, frame_seq, server, conn, clients, pump, shown>>

BumpSeq ==
  /\ bumping
  /\ frame_seq' = frame_seq + 1 /\ bumping' = FALSE
  /\ UNCHANGED <<status_json, frame, server, conn, clients, pump, shown>>

(* Mutation: the number, then the frame. *)
CameraNumberFirst ==
  /\ \/ Spinning /\ ~bumping /\ frame < MaxFrames /\ bumping' = TRUE
        /\ frame_seq' = frame_seq + 1 /\ UNCHANGED frame
     \/ bumping /\ bumping' = FALSE
        /\ frame' = frame + 1 /\ UNCHANGED frame_seq
  /\ UNCHANGED <<status_json, server, conn, clients, pump, shown>>

Camera == OnFrame \/ BumpSeq

(* request_shutdown: the loop stops where it is and the process ends. *)
Shutdown ==
  /\ Spinning /\ ~bumping
  /\ server' = "closed"
  /\ conn' = [c \in Connections |-> IF conn[c] = "open" THEN "broken" ELSE conn[c]]
  /\ clients' = {} /\ pump' = Asleep(NoDisplay, -1)
  /\ shown' = [c \in Connections |-> Blank]
  /\ UNCHANGED cell

------------------------------------------------------------------------------
(* The daemon thread.                                                      *)

(* The constructor goes on after 5 s whether the port was bound or not. *)
Serve ==
  /\ server = "starting"
  /\ server' \in {"serving", "failed"}
  /\ UNCHANGED <<cell, conn, clients, pump, shown>>

Awaits == server = "serving" /\ pump.step \in {"asleep", "send_status", "send_frame"}

Connect(c) ==
  /\ Awaits /\ conn[c] = "new"
  /\ conn' = [conn EXCEPT ![c] = "open"]
  /\ clients' = clients \cup {c}
  /\ UNCHANGED <<cell, server, pump, shown>>

(* The renderer leaves, or its keepalive goes unanswered. *)
Break(c) ==
  /\ server = "serving" /\ conn[c] = "open"
  /\ conn' = [conn EXCEPT ![c] = "broken"]
  /\ shown' = [shown EXCEPT ![c] = Blank]
  /\ UNCHANGED <<cell, server, clients, pump>>

Leave(c) ==
  /\ Awaits /\ conn[c] = "broken" /\ c \in clients
  /\ clients' = clients \ {c}
  /\ UNCHANGED <<cell, server, conn, pump, shown>>

(* A pass of the pump: status, then number, then frame. *)
ReadStatus ==
  /\ server = "serving" /\ pump.step = "asleep"
  /\ pump' = [pump EXCEPT !.step = "read_seq", !.status = status_json]
  /\ UNCHANGED <<cell, server, conn, clients, shown>>

ReadSeq ==
  /\ server = "serving" /\ pump.step = "read_seq"
  /\ pump' = [pump EXCEPT !.step = "read_frame", !.seq = frame_seq]
  /\ UNCHANGED <<cell, server, conn, clients, shown>>

SendsStatus(p) == p.status # p.last_status
SendsFrame(p) == p.seq # p.last_seq /\ p.frame # 0

(* Mutation: what the cell holds after the sends is taken as sent. *)
EndPassRereading(p) ==
  /\ clients' = clients \ p.dead
  /\ pump' = Asleep(status_json, p.seq)

EndPass(p) ==
  /\ clients' = clients \ p.dead
  /\ pump' = Asleep(p.status, p.seq)

(* Mutation: one failed send ends the pass. *)
NextClientUnlessBroken(p) ==
  \/ (p.todo = {} \/ p.dead # {}) /\ EndPass(p)
  \/ \E c \in p.todo :
       /\ p.dead = {}
       /\ pump' = [p EXCEPT !.step = IF SendsStatus(p) THEN "send_status" ELSE "send_frame",
                            !.ws = {c}, !.todo = @ \ {c}]
       /\ UNCHANGED clients

(* On to the next client of the snapshot, or to sleep. *)
NextClient(p) ==
  \/ p.todo = {} /\ EndPass(p)
  \/ \E c \in p.todo :
       /\ pump' = [p EXCEPT !.step = IF SendsStatus(p) THEN "send_status" ELSE "send_frame",
                            !.ws = {c}, !.todo = @ \ {c}]
       /\ UNCHANGED clients

Snapshot ==
  /\ server = "serving" /\ pump.step = "read_frame"
  /\ LET p == [pump EXCEPT !.frame = frame] IN
       NextClient([p EXCEPT !.todo = IF SendsStatus(p) \/ SendsFrame(p) THEN clients ELSE {}])
  /\ UNCHANGED <<cell, server, conn, shown>>

SendStatus(c) ==
  /\ server = "serving" /\ pump.step = "send_status" /\ pump.ws = {c} /\ conn[c] = "open"
  /\ shown' = [shown EXCEPT ![c].status = pump.status]
  /\ IF SendsFrame(pump)
       THEN pump' = [pump EXCEPT !.step = "send_frame"] /\ UNCHANGED clients
       ELSE NextClient(pump)
  /\ UNCHANGED <<cell, server, conn>>

SendFrame(c) ==
  /\ server = "serving" /\ pump.step = "send_frame" /\ pump.ws = {c} /\ conn[c] = "open"
  /\ shown' = [shown EXCEPT ![c].frame = pump.frame]
  /\ NextClient(pump)
  /\ UNCHANGED <<cell, server, conn>>

SendFails(c) ==
  /\ server = "serving" /\ pump.step \in {"send_status", "send_frame"}
  /\ pump.ws = {c} /\ conn[c] # "open"
  /\ NextClient([pump EXCEPT !.dead = @ \cup {c}])
  /\ UNCHANGED <<cell, server, conn, shown>>

Pump ==
  \/ ReadStatus \/ ReadSeq \/ Snapshot
  \/ \E c \in Connections : SendStatus(c) \/ SendFrame(c) \/ SendFails(c)

Clients == \E c \in Connections : Connect(c) \/ Break(c) \/ Leave(c)
=============================================================================
