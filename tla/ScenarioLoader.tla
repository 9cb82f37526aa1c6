--------------------------- MODULE ScenarioLoader ---------------------------
(***************************************************************************)
(* The scenario loader of orchestrator_node: parsed documents in,          *)
(* scenarios or an error out.                                              *)
(*                                                                         *)
(* A JSON object is a record any key of which may be missing; Scalar is    *)
(* any other value in its place, Unparsable a file json5 refuses, NoFloat  *)
(* a value float() refuses. A loader step raises nothing (""), what        *)
(* load_scenarios reports with the file's name ("named"), or what passes   *)
(* its handler ("escapes").                                                *)
(***************************************************************************)
EXTENDS Integers, Sequences

CONSTANTS
  Specs,    \* what the files hold where a criterion belongs, at any depth
  Nesting   \* of each of them, how deep it nests: a parsed file is a finite tree

Scalar == [scalar |-> TRUE]
Unparsable == [unparsable |-> TRUE]
Empty == [none |-> TRUE]
NoFloat == -1

IsObject(v) == v \notin {Scalar, Unparsable}
Get(v, key, default) == IF key \in DOMAIN v THEN v[key] ELSE default

(* _CRITERION_BUILDERS: the types and what each requires. *)
Required ==
  [vlm |-> {}, always |-> {}, delay |-> {"seconds"},
   voice_keyword |-> {"keywords"}, composite |-> {"children"}]

(* What build_criterion is called on again. *)
Children(spec) ==
  IF Get(spec, "type", "") = "composite" THEN Get(spec, "children", <<>>) ELSE <<>>

(* The values have the types the loader takes for granted. *)
ASSUME SpecsAssumption ==
  /\ Empty \in Specs
  /\ Nesting \in [Specs -> Nat]
  /\ \A spec \in Specs :
       /\ Children(spec) \in Seq(Specs)
       /\ \A i \in DOMAIN Children(spec) : Nesting[Children(spec)[i]] < Nesting[spec]
       /\ Get(spec, "type", "") \in STRING
       /\ Get(spec, "seconds", 0) \in Nat \cup {NoFloat}
       /\ Get(spec, "timeout_s", 0) \in Nat \cup {NoFloat}
       /\ Get(spec, "keywords", {}) \in SUBSET STRING

(* Python raises the first error it meets. *)
FirstError(errors) ==
  LET raised == {i \in DOMAIN errors : errors[i] # ""} IN
    IF raised = {} THEN "" ELSE errors[CHOOSE i \in raised : \A j \in raised : i <= j]

Raise(condition) == IF condition THEN "named" ELSE ""

(* Mutation: without a type a criterion is a vlm, as it once was. *)
OwnErrorByDefault(spec) ==
  IF ~IsObject(spec) THEN "escapes"
  ELSE Raise(/\ "type" \in DOMAIN spec
             /\ \/ spec.type \notin DOMAIN Required
                \/ ~(Required[spec.type] \subseteq DOMAIN spec)
                \/ spec.type = "delay" /\ spec.seconds = NoFloat)

(* What build_criterion and _req find wrong with a criterion itself. *)
OwnError(spec) ==
  IF ~IsObject(spec) THEN "escapes"
  ELSE Raise(\/ Get(spec, "type", "") \notin DOMAIN Required
             \/ ~(Required[spec.type] \subseteq DOMAIN spec)
             \/ spec.type = "delay" /\ spec.seconds = NoFloat)

CriterionError[spec \in Specs] ==
  IF OwnError(spec) # "" THEN OwnError(spec)
  ELSE FirstError([i \in DOMAIN Children(spec) |-> CriterionError[Children(spec)[i]]])

(* The criterion object of a spec that is no composite. *)
LeafOf(spec) == [key \in {"type"} \cup Required[spec.type] |-> spec[key]]

BuildCriterion[spec \in Specs] ==
  IF Get(spec, "type", "") = "composite"
    THEN UNION {BuildCriterion[Children(spec)[i]] : i \in DOMAIN Children(spec)}
    ELSE {LeafOf(spec)}

(* _load_subtask *)
Success(s) == Get(s, "success", Empty)

SubtaskError(s) ==
  IF ~IsObject(s) THEN "escapes"
  ELSE FirstError(<<Raise("name" \notin DOMAIN s), CriterionError[Success(s)],
                    Raise(Get(Success(s), "timeout_s", 30) = NoFloat)>>)

LoadSubtask(s) ==
  [name |-> s.name,
   on_create |-> Get(s, "on_create", <<>>), on_start |-> Get(s, "on_start", <<>>),
   on_success |-> Get(s, "on_success", <<>>), on_fail |-> Get(s, "on_fail", <<>>),
   criterion |-> BuildCriterion[Success(s)], timeout_s |-> Get(Success(s), "timeout_s", 30)]

Subs(doc) == Get(doc, "sub_tasks", <<>>)

(* Mutation: a scenario without a name is not reported but raised as it is. *)
FileErrorUnwrapped(doc) ==
  IF ~IsObject(doc) \/ "name" \notin DOMAIN doc THEN "escapes"
  ELSE FirstError([i \in DOMAIN Subs(doc) |-> SubtaskError(Subs(doc)[i])])

(* One file of load_scenarios. *)
FileError(doc) ==
  IF ~IsObject(doc) THEN "escapes"
  ELSE FirstError([i \in DOMAIN Subs(doc) |-> SubtaskError(Subs(doc)[i])]
                    \o <<Raise("name" \notin DOMAIN doc)>>)

LoadScenario(doc) ==
  [triggers |-> Get(doc, "triggers", {}),
   sub_tasks |-> [i \in DOMAIN Subs(doc) |-> LoadSubtask(Subs(doc)[i])]]
=============================================================================
