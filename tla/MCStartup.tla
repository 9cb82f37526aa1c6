----------------------------- MODULE MCStartup ------------------------------
(* The start of orchestrator_node for TLC: the shipped files, or up to two *)
(* of them altered.                                                        *)
EXTENDS ScenarioSanity, ShippedScenarios

Without(doc, key) == [k \in DOMAIN doc \ {key} |-> doc[k]]
FirstSub(doc, sub) == [doc EXCEPT !.sub_tasks[1] = sub]
FirstSpec(doc, spec) == [doc EXCEPT !.sub_tasks[1].success = spec]

BadSpecs ==
  { Scalar, [seconds |-> 3], [type |-> "dealy"], [type |-> "uwb_pose"], [type |-> "delay"],
    Delay(NoFloat), Within(NoFloat, Vlm), [type |-> "voice_keyword"], [type |-> "composite"],
    All(<<>>), All(<<Vlm, All(<<Delay(1), Always>>)>>), All(<<Vlm, [type |-> "dealy"]>>),
    All(<<All(<<Delay(NoFloat)>>), Scalar>>), All(<<Scalar, [type |-> "delay"]>>) }

(* What may stand in place of a file: misspelt, incomplete, of other form. *)
Altered(doc) ==
  {Unparsable, Scalar, Without(doc, "name"), Without(doc, "sub_tasks"), Without(doc, "triggers"),
   FirstSub(doc, Scalar), FirstSub(doc, Without(doc.sub_tasks[1], "name")),
   FirstSub(doc, Without(doc.sub_tasks[1], "success")),
   FirstSub(Without(doc, "name"), Scalar)}
  \cup {FirstSpec(doc, spec) : spec \in BadSpecs}

Candidates(i) == Altered(ShippedDocuments[i]) \cup {ShippedDocuments[i]}

(* Of the three navigation scenarios, which are alike, the first. *)
Alterable == {1, 4, 5, 6}

MCDocuments == Range(ShippedDocuments) \cup UNION {Candidates(i) : i \in Alterable}

MCDisks ==
  UNION {{[ShippedDocuments EXCEPT ![i] = d, ![j] = e] : d \in Candidates(i), e \in Candidates(j)} :
           <<i, j>> \in {p \in Alterable \X Alterable : p[1] < p[2]}}

ShippedSpecs ==
  UNION {{Success(s) : s \in Range(doc.sub_tasks)} : doc \in Range(ShippedDocuments)}

RECURSIVE Closure(_)
Closure(specs) ==
  LET below == UNION {Range(Children(spec)) : spec \in specs} IN
    IF below = {} THEN specs ELSE specs \cup Closure(below)

MCSpecs == Closure(ShippedSpecs \cup BadSpecs \cup {Empty})

RECURSIVE DepthOf(_)
DepthOf(spec) ==
  LET below == {DepthOf(child) : child \in Range(Children(spec))} IN
    IF below = {} THEN 0 ELSE 1 + CHOOSE n \in below : \A m \in below : m <= n

MCNesting == [spec \in MCSpecs |-> DepthOf(spec)]

(* The shipped files pass the check of ci.yml, and every failure they can  *)
(* come to is spoken, that of a delay included.                            *)
ASSUME ShippedAreSane ==
  /\ \A doc \in Range(ShippedDocuments) : Sane(doc)
  /\ FailuresAreSpoken
=============================================================================
