------------------------------ MODULE Startup -------------------------------
(***************************************************************************)
(* orchestrator_node from its start: its constructor loads the scenario    *)
(* files one by one, in the order of their names, and either the node      *)
(* comes up or the error stops it. Once up it runs the orchestrator on     *)
(* what it loaded; Scenarios being fixed, it is followed further only if   *)
(* that is what it loaded.                                                 *)
(***************************************************************************)
EXTENDS Orchestrator, ScenarioLoader, Functions

CONSTANTS
  Documents,   \* what a scenario file may hold, as parsed
  Disks        \* the directories of such files the node may find

VARIABLES
  disk,    \* the parsed files, in the order of their names
  loaded,  \* how many of them are loaded
  boot     \* "loading", "up", or stopped by an error: "named" or "escapes"

boots == <<disk, loaded, boot>>
bvars == <<vars, boots>>

Hooks == {"on_create", "on_start", "on_success", "on_fail"}

(* The values of a file have the types the loader takes for granted. *)
Document(doc) ==
  /\ Get(doc, "triggers", {}) \in SUBSET STRING
  /\ Subs(doc) \in Seq(Range(Subs(doc)))
  /\ \A s \in Range(Subs(doc)) :
       /\ Get(s, "name", "") \in STRING
       /\ \A hook \in Hooks : Get(s, hook, <<>>) \in Hook
       /\ Success(s) \in Specs

ASSUME DisksAssumption ==
  /\ \A doc \in Documents : Document(doc)
  /\ Disks \subseteq Seq(Documents)

BInit ==
  /\ Init
  /\ disk \in Disks /\ loaded = 0 /\ boot = "loading"

(* The loop of load_scenarios. *)
LoadFile ==
  /\ boot = "loading" /\ loaded < Len(disk)
  /\ LET error == FileError(disk[loaded + 1]) IN
       IF error = "" THEN loaded' = loaded + 1 /\ UNCHANGED boot
                     ELSE boot' = error /\ UNCHANGED loaded
  /\ UNCHANGED <<vars, disk>>

ComeUp ==
  /\ boot = "loading" /\ loaded = Len(disk)
  /\ boot' = "up"
  /\ UNCHANGED <<vars, disk, loaded>>

Loaded == [i \in DOMAIN disk |-> LoadScenario(disk[i])]

Run ==
  /\ boot = "up" /\ Scenarios = Loaded
  /\ Next
  /\ UNCHANGED boots

BNext == LoadFile \/ ComeUp \/ Run

BSpec == BInit /\ [][BNext]_bvars

------------------------------------------------------------------------------
(* What a file must be, said without the loader.                           *)

Nested[spec \in Specs] ==
  {spec} \cup UNION {Nested[Children(spec)[i]] : i \in DOMAIN Children(spec)}

Criteria(doc) == UNION {Nested[Success(s)] : s \in Range(Subs(doc))}

(* There is an object wherever one belongs. *)
Formed(doc) == \A v \in {doc} \cup Range(Subs(doc)) \cup Criteria(doc) : IsObject(v)

(* A criterion the node can evaluate, but for its children. *)
Evaluable(spec) ==
  /\ "type" \in DOMAIN spec /\ spec.type \in DOMAIN Required
  /\ Required[spec.type] \subseteq DOMAIN spec
  /\ spec.type = "delay" => spec.seconds # NoFloat

WellFormed(doc) ==
  /\ Formed(doc)
  /\ \A v \in {doc} \cup Range(Subs(doc)) : "name" \in DOMAIN v
  /\ \A s \in Range(Subs(doc)) : Get(Success(s), "timeout_s", 0) # NoFloat
  /\ \A spec \in Criteria(doc) : Evaluable(spec)

(* The node comes up only if every criterion at every depth of every file  *)
(* is one it can evaluate, and then with scenarios that meet what          *)
(* Orchestrator assumes of them: nothing is left to fail by timeout.       *)
NoBadScenarioRuns ==
  boot = "up" =>
    /\ \A i \in DOMAIN disk : WellFormed(disk[i])
    /\ Loaded \in Seq(Scenario)

(* A node that stops was stopped by the first file that is not well-formed *)
(* and names it, unless that does not parse or has another value where an  *)
(* object belongs.                                                         *)
OffenderIsNamed ==
  boot \in {"named", "escapes"} =>
    /\ \A i \in 1..loaded : WellFormed(disk[i])
    /\ ~WellFormed(disk[loaded + 1])
    /\ boot = "escapes" => ~Formed(disk[loaded + 1])
=============================================================================
