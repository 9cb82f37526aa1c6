---------------------------- MODULE LoaderProofs ----------------------------
(***************************************************************************)
(* Proofs about the scenario loader and the start of orchestrator_node,    *)
(* for any files, however deep their criteria nest.                        *)
(***************************************************************************)
EXTENDS ScenarioSanity, OrchestratorInvariant, SequenceTheorems, WellFoundedInduction, TLAPS

------------------------------------------------------------------------------
(* Recursion and induction over a rank.                                    *)

LEMMA Least ==
  ASSUME NEW T \in SUBSET Nat, T # {}
  PROVE  \E n \in T : \A m \in T : n <= m
<1>1. PICK n \in T : \A m \in T : ~ (<<m, n>> \in OpToRel(<, Nat))
  BY NatLessThanWellFounded, WFMin
<1>2. ASSUME NEW m \in T PROVE n <= m
  <2>1. ~(m < n)
    BY <1>1 DEF OpToRel
  <2>. QED  BY <2>1
<1>. QED  BY <1>2

(* Of the members of a set that are not as they should be one has the      *)
(* least rank.                                                             *)
LEMMA LeastRank ==
  ASSUME NEW S, NEW rank \in [S -> Nat], NEW B \in SUBSET S, B # {}
  PROVE  \E x \in B : \A y \in S : rank[y] < rank[x] => y \notin B
<1>. DEFINE T == {rank[x] : x \in B}
<1>1. T \in SUBSET Nat /\ T # {}
  OBVIOUS
<1>2. PICK n \in T : \A m \in T : n <= m
  BY <1>1, Least
<1>3. PICK x \in B : rank[x] = n
  BY <1>2
<1>4. \A y \in B : rank[x] <= rank[y]
  BY <1>2, <1>3
<1>5. ASSUME NEW y \in S, rank[y] < rank[x], y \in B PROVE FALSE
  BY <1>4, <1>5
<1>. QED  BY <1>5

(* A step that looks only at values of less rank. *)
Descends(S, V, rank, H) ==
  /\ V # {}
  /\ rank \in [S -> Nat]
  /\ H \in [[S -> V] \X S -> V]
  /\ \A x \in S : \A f, g \in [S -> V] :
       (\A y \in S : rank[y] < rank[x] => f[y] = g[y]) => H[<<f, x>>] = H[<<g, x>>]

(* It defines a function. *)
LEMMA RecursiveFunction ==
  ASSUME NEW S, NEW V, NEW rank, NEW H, Descends(S, V, rank, H)
  PROVE  \E f \in [S -> V] : f = [x \in S |-> H[<<f, x>>]]
<1>. USE DEF Descends
<1>. PICK default : default \in V
  OBVIOUS
<1>. DEFINE Fits(f, n) == f \in [S -> V] /\ \A x \in S : rank[x] < n => f[x] = H[<<f, x>>]
<1>1. ASSUME NEW n \in Nat, NEW m \in Nat, NEW f, NEW g, Fits(f, n), Fits(g, m),
             NEW x \in S, rank[x] < n, rank[x] < m
      PROVE  f[x] = g[x]
  <2>. DEFINE B == {y \in S : rank[y] < n /\ rank[y] < m /\ f[y] # g[y]}
  <2>. SUFFICES ASSUME B # {} PROVE FALSE
    BY <1>1
  <2>0. B \in SUBSET S
    OBVIOUS
  <2>1. PICK y \in B : \A z \in S : rank[z] < rank[y] => z \notin B
    <3>. HIDE DEF B
    <3>. QED  BY <2>0, LeastRank
  <2>2. y \in S /\ rank[y] \in Nat /\ rank[y] < n /\ rank[y] < m /\ f[y] # g[y]
    OBVIOUS
  <2>3. ASSUME NEW z \in S, rank[z] < rank[y] PROVE f[z] = g[z]
    <3>1. rank[z] \in Nat /\ rank[z] < n /\ rank[z] < m
      BY <2>2, <2>3
    <3>. QED  BY <2>1, <2>3, <3>1
  <2>4. H[<<f, y>>] = H[<<g, y>>]
    BY <1>1, <2>2, <2>3
  <2>. QED  BY <1>1, <2>2, <2>4
<1>2. ASSUME NEW n \in Nat PROVE \E f : Fits(f, n)
  <2>. DEFINE T == {k \in Nat : ~ \E f : Fits(f, k)}
  <2>. SUFFICES ASSUME T # {} PROVE FALSE
    OBVIOUS
  <2>1. PICK k \in T : \A j \in T : k <= j
    BY Least
  <2>2. k # 0
    <3>1. Fits([x \in S |-> default], 0)
      OBVIOUS
    <3>. QED  BY <3>1
  <2>3. k - 1 \in Nat /\ k - 1 \notin T
    <3>1. k \in Nat /\ k - 1 \in Nat /\ ~(k <= k - 1)
      BY <2>2
    <3>. HIDE DEF T
    <3>. QED  BY <2>1, <3>1
  <2>4. PICK f : Fits(f, k - 1)
    BY <2>3
  <2>. DEFINE g == [x \in S |-> H[<<f, x>>]]
  <2>5. g \in [S -> V]
    BY <2>4
  <2>6. ASSUME NEW x \in S, rank[x] < k PROVE g[x] = H[<<g, x>>]
    <3>1. ASSUME NEW y \in S, rank[y] < rank[x] PROVE f[y] = g[y]
      <4>1. rank[y] < k - 1
        BY <2>6, <3>1
      <4>. QED  BY <2>4, <4>1
    <3>2. H[<<f, x>>] = H[<<g, x>>]
      <4>. HIDE DEF g
      <4>. QED  BY <2>4, <2>5, <3>1
    <3>. QED  BY <3>2
  <2>7. Fits(g, k)
    BY <2>5, <2>6
  <2>. QED  BY <2>7
<1>. DEFINE A == [n \in Nat |-> CHOOSE f : Fits(f, n)]
            h == [x \in S |-> A[rank[x] + 1][x]]
<1>3. \A n \in Nat : Fits(A[n], n)
  BY <1>2
<1>. HIDE DEF A
<1>4. h \in [S -> V]
  BY <1>3
<1>5. ASSUME NEW x \in S PROVE h[x] = H[<<h, x>>]
  <2>. DEFINE n == rank[x] + 1
  <2>1. n \in Nat /\ rank[x] < n /\ h[x] = A[n][x]
    OBVIOUS
  <2>0. Fits(A[n], n)
    <3>. HIDE DEF n, Fits
    <3>. QED  BY <1>3, <2>1
  <2>2. ASSUME NEW y \in S, rank[y] < rank[x] PROVE A[n][y] = h[y]
    <3>1. rank[y] + 1 \in Nat /\ rank[y] < rank[y] + 1 /\ rank[y] < n
      BY <2>2
    <3>2. Fits(A[rank[y] + 1], rank[y] + 1)
      <4>. HIDE DEF Fits
      <4>. QED  BY <1>3, <3>1
    <3>3. A[n][y] = A[rank[y] + 1][y]
      <4>. HIDE DEF Fits, n
      <4>. QED  BY <1>1, <2>1, <2>0, <3>1, <3>2
    <3>. QED  BY <3>3
  <2>3. H[<<A[n], x>>] = H[<<h, x>>]
    <3>. HIDE DEF h, n
    <3>. QED  BY <1>4, <2>0, <2>2
  <2>4. A[n][x] = H[<<A[n], x>>]
    <3>. HIDE DEF n
    <3>. QED  BY <2>0, <2>1
  <2>. QED  BY <2>1, <2>3, <2>4
<1>6. h = [x \in S |-> H[<<h, x>>]]
  <2>. HIDE DEF h
  <2>. QED  BY <1>4, <1>5
<1>. QED  BY <1>4, <1>6

------------------------------------------------------------------------------
(* The first error.                                                        *)

Errors == {"", "named", "escapes"}

LEMMA FirstErrorIs ==
  ASSUME NEW n \in Nat, NEW errors \in [1..n -> Errors]
  PROVE  /\ FirstError(errors) \in Errors
         /\ FirstError(errors) = "" <=> \A i \in 1..n : errors[i] = ""
         /\ FirstError(errors) # "" => \E i \in 1..n : errors[i] = FirstError(errors)
<1>. DEFINE raised == {i \in DOMAIN errors : errors[i] # ""}
            first == CHOOSE i \in raised : \A j \in raised : i <= j
<1>1. FirstError(errors) = IF raised = {} THEN "" ELSE errors[first]
  BY DEF FirstError
<1>2. CASE raised = {}
  BY <1>1, <1>2 DEF Errors
<1>3. CASE raised # {}
  <2>1. raised \in SUBSET Nat
    <3>1. DOMAIN errors = 1..n
      OBVIOUS
    <3>2. \A i \in 1..n : i \in Nat
      OBVIOUS
    <3>. QED  BY ONLY <3>1, <3>2
  <2>2. \E i \in raised : \A j \in raised : i <= j
    <3>. HIDE DEF raised
    <3>. QED  BY <1>3, <2>1, Least
  <2>3. first \in raised
    <3>. HIDE DEF raised
    <3>. QED  BY <2>2
  <2>. HIDE DEF first
  <2>4. first \in 1..n /\ errors[first] # "" /\ FirstError(errors) = errors[first]
    BY <1>1, <1>3, <2>3
  <2>. QED  BY <2>4
<1>. QED  BY <1>2, <1>3

(* Python's first error is of those that come before, if any is.           *)
LEMMA FirstErrorOf3 ==
  ASSUME NEW a \in Errors, NEW b \in Errors, NEW c \in Errors
  PROVE  /\ FirstError(<<a, b, c>>) \in Errors
         /\ FirstError(<<a, b, c>>) = "" <=> a = "" /\ b = "" /\ c = ""
         /\ FirstError(<<a, b, c>>) \in {"", a, b, c}
<1>. DEFINE e == <<a, b, c>>
<1>1. e \in [1..3 -> Errors] /\ e[1] = a /\ e[2] = b /\ e[3] = c
  OBVIOUS
<1>. HIDE DEF e
<1>2. /\ FirstError(e) \in Errors
      /\ FirstError(e) = "" <=> \A i \in 1..3 : e[i] = ""
      /\ FirstError(e) # "" => \E i \in 1..3 : e[i] = FirstError(e)
  BY <1>1, FirstErrorIs
<1>3. \A i \in 1..3 : i \in {1, 2, 3}
  OBVIOUS
<1>4. FirstError(e) = "" <=> a = "" /\ b = "" /\ c = ""
  <2>1. (\A i \in 1..3 : e[i] = "") <=> e[1] = "" /\ e[2] = "" /\ e[3] = ""
    BY <1>3
  <2>. QED  BY <1>1, <1>2, <2>1
<1>. QED  BY <1>1, <1>2, <1>3, <1>4 DEF e

------------------------------------------------------------------------------
(* The recursive functions of the loader are what their definitions say.   *)

ErrorStep(f, spec) ==
  IF OwnError(spec) # "" THEN OwnError(spec)
  ELSE FirstError([i \in DOMAIN Children(spec) |-> f[Children(spec)[i]]])

LeafStep(f, spec) ==
  IF Get(spec, "type", "") = "composite"
    THEN UNION {f[Children(spec)[i]] : i \in DOMAIN Children(spec)}
    ELSE {LeafOf(spec)}

NestedStep(f, spec) == {spec} \cup UNION {f[Children(spec)[i]] : i \in DOMAIN Children(spec)}

LEMMA ChildrenType ==
  ASSUME NEW spec \in Specs
  PROVE  /\ Len(Children(spec)) \in Nat
         /\ DOMAIN Children(spec) = 1..Len(Children(spec))
         /\ \A i \in DOMAIN Children(spec) :
              Children(spec)[i] \in Specs /\ Nesting[Children(spec)[i]] < Nesting[spec]
<1>1. /\ Children(spec) \in Seq(Specs)
      /\ \A i \in DOMAIN Children(spec) : Nesting[Children(spec)[i]] < Nesting[spec]
  BY SpecsAssumption
<1>2. PICK c : c = Children(spec)
  OBVIOUS
<1>3. Len(c) \in Nat /\ DOMAIN c = 1..Len(c) /\ \A i \in DOMAIN c : c[i] \in Specs
  BY <1>1, <1>2
<1>. QED  BY <1>1, <1>2, <1>3

LEMMA OwnErrorType == \A spec : OwnError(spec) \in Errors
  BY DEF OwnError, Raise, Errors

LEMMA CriterionErrorDef ==
  CriterionError = [spec \in Specs |-> ErrorStep(CriterionError, spec)]
<1>. DEFINE H == [p \in [Specs -> Errors] \X Specs |-> ErrorStep(p[1], p[2])]
<1>1. ASSUME NEW f \in [Specs -> Errors], NEW spec \in Specs
      PROVE  /\ ErrorStep(f, spec) \in Errors
             /\ H[<<f, spec>>] = ErrorStep(f, spec)
  <2>1. [i \in DOMAIN Children(spec) |-> f[Children(spec)[i]]] \in [1..Len(Children(spec)) -> Errors]
    BY ChildrenType
  <2>. QED  BY <2>1, ChildrenType, FirstErrorIs, OwnErrorType DEF ErrorStep
<1>2. ASSUME NEW spec \in Specs, NEW f \in [Specs -> Errors], NEW g \in [Specs -> Errors],
             \A y \in Specs : Nesting[y] < Nesting[spec] => f[y] = g[y]
      PROVE  ErrorStep(f, spec) = ErrorStep(g, spec)
  <2>1. [i \in DOMAIN Children(spec) |-> f[Children(spec)[i]]]
          = [i \in DOMAIN Children(spec) |-> g[Children(spec)[i]]]
    BY <1>2, ChildrenType
  <2>. QED  BY <2>1 DEF ErrorStep
<1>3. H \in [[Specs -> Errors] \X Specs -> Errors]
  BY <1>1
<1>. HIDE DEF H
<1>4. \E f \in [Specs -> Errors] : f = [spec \in Specs |-> H[<<f, spec>>]]
  <2>1. Errors # {}
    BY DEF Errors
  <2>2. \A x \in Specs : \A f, g \in [Specs -> Errors] :
          (\A y \in Specs : Nesting[y] < Nesting[x] => f[y] = g[y]) => H[<<f, x>>] = H[<<g, x>>]
    BY <1>1, <1>2
  <2>3. Nesting \in [Specs -> Nat]
    BY SpecsAssumption
  <2>4. Descends(Specs, Errors, Nesting, H)
    BY <1>3, <2>1, <2>2, <2>3 DEF Descends
  <2>. QED  BY <2>4, RecursiveFunction
<1>5. PICK f \in [Specs -> Errors] : f = [spec \in Specs |-> H[<<f, spec>>]]
  BY <1>4
<1>6. f = [spec \in Specs |-> ErrorStep(f, spec)]
  BY <1>1, <1>5
<1>7. CriterionError = CHOOSE g : g = [spec \in Specs |-> ErrorStep(g, spec)]
  BY DEF CriterionError, ErrorStep
<1>. QED  BY <1>6, <1>7

LEMMA BuildCriterionDef ==
  BuildCriterion = [spec \in Specs |-> LeafStep(BuildCriterion, spec)]
<1>. DEFINE V == SUBSET {LeafOf(spec) : spec \in Specs}
            H == [p \in [Specs -> V] \X Specs |-> LeafStep(p[1], p[2])]
<1>1. ASSUME NEW f \in [Specs -> V], NEW spec \in Specs
      PROVE  /\ LeafStep(f, spec) \in V
             /\ H[<<f, spec>>] = LeafStep(f, spec)
  <2>1. \A i \in DOMAIN Children(spec) : f[Children(spec)[i]] \in V
    <3>. HIDE DEF V
    <3>. QED  BY ChildrenType
  <2>2. LeafStep(f, spec) \in V
    BY <2>1 DEF LeafStep
  <2>. QED  BY <2>2
<1>2. ASSUME NEW spec \in Specs, NEW f \in [Specs -> V], NEW g \in [Specs -> V],
             \A y \in Specs : Nesting[y] < Nesting[spec] => f[y] = g[y]
      PROVE  LeafStep(f, spec) = LeafStep(g, spec)
  <2>1. \A i \in DOMAIN Children(spec) : f[Children(spec)[i]] = g[Children(spec)[i]]
    BY <1>2, ChildrenType
  <2>. QED  BY <2>1 DEF LeafStep
<1>. HIDE DEF V
<1>3. H \in [[Specs -> V] \X Specs -> V]
  BY <1>1
<1>. HIDE DEF H
<1>4. Descends(Specs, V, Nesting, H)
  <2>1. V # {}
    BY DEF V
  <2>2. \A x \in Specs : \A f, g \in [Specs -> V] :
          (\A y \in Specs : Nesting[y] < Nesting[x] => f[y] = g[y]) => H[<<f, x>>] = H[<<g, x>>]
    BY <1>1, <1>2
  <2>. QED  BY <1>3, <2>1, <2>2, SpecsAssumption DEF Descends
<1>5. PICK f \in [Specs -> V] : f = [spec \in Specs |-> H[<<f, spec>>]]
  BY <1>4, RecursiveFunction
<1>6. f = [spec \in Specs |-> LeafStep(f, spec)]
  BY <1>1, <1>5
<1>7. BuildCriterion = CHOOSE g : g = [spec \in Specs |-> LeafStep(g, spec)]
  BY DEF BuildCriterion, LeafStep
<1>. QED  BY <1>6, <1>7

LEMMA NestedDef == Nested = [spec \in Specs |-> NestedStep(Nested, spec)]
<1>. DEFINE V == SUBSET Specs
            H == [p \in [Specs -> V] \X Specs |-> NestedStep(p[1], p[2])]
<1>1. ASSUME NEW f \in [Specs -> V], NEW spec \in Specs
      PROVE  /\ NestedStep(f, spec) \in V
             /\ H[<<f, spec>>] = NestedStep(f, spec)
  <2>1. \A i \in DOMAIN Children(spec) : f[Children(spec)[i]] \in V
    <3>. HIDE DEF V
    <3>. QED  BY ChildrenType
  <2>2. NestedStep(f, spec) \in V
    BY <2>1 DEF NestedStep
  <2>. QED  BY <2>2
<1>2. ASSUME NEW spec \in Specs, NEW f \in [Specs -> V], NEW g \in [Specs -> V],
             \A y \in Specs : Nesting[y] < Nesting[spec] => f[y] = g[y]
      PROVE  NestedStep(f, spec) = NestedStep(g, spec)
  <2>1. \A i \in DOMAIN Children(spec) : f[Children(spec)[i]] = g[Children(spec)[i]]
    BY <1>2, ChildrenType
  <2>. QED  BY <2>1 DEF NestedStep
<1>. HIDE DEF V
<1>3. H \in [[Specs -> V] \X Specs -> V]
  BY <1>1
<1>. HIDE DEF H
<1>4. Descends(Specs, V, Nesting, H)
  <2>1. V # {}
    BY DEF V
  <2>2. \A x \in Specs : \A f, g \in [Specs -> V] :
          (\A y \in Specs : Nesting[y] < Nesting[x] => f[y] = g[y]) => H[<<f, x>>] = H[<<g, x>>]
    BY <1>1, <1>2
  <2>. QED  BY <1>3, <2>1, <2>2, SpecsAssumption DEF Descends
<1>5. PICK f \in [Specs -> V] : f = [spec \in Specs |-> H[<<f, spec>>]]
  BY <1>4, RecursiveFunction
<1>6. f = [spec \in Specs |-> NestedStep(f, spec)]
  BY <1>1, <1>5
<1>7. Nested = CHOOSE g : g = [spec \in Specs |-> NestedStep(g, spec)]
  BY DEF Nested, NestedStep
<1>. QED  BY <1>6, <1>7

------------------------------------------------------------------------------
(* A criterion and the loader's verdict on it.                             *)

LEMMA OwnErrorIs ==
  \A spec : /\ OwnError(spec) \in Errors
            /\ OwnError(spec) = "" <=> IsObject(spec) /\ Evaluable(spec)
            /\ OwnError(spec) = "escapes" <=> ~IsObject(spec)
<1>1. "" \notin DOMAIN Required
  BY DEF Required
<1>. QED  BY <1>1 DEF OwnError, Raise, Errors, Evaluable, Get

(* What is built of an evaluable criterion is a leaf that Orchestrator     *)
(* knows.                                                                  *)
LEMMA LeafOfType ==
  ASSUME NEW spec \in Specs, Evaluable(spec), Get(spec, "type", "") # "composite"
  PROVE  LeafOf(spec) \in Leaf
<1>1. /\ "type" \in DOMAIN spec
      /\ spec.type \in DOMAIN Required
      /\ Required[spec.type] \subseteq DOMAIN spec
      /\ spec.type = "delay" => spec.seconds # NoFloat
      /\ spec.type # "composite"
  BY DEF Evaluable, Get
<1>2. PICK t : t = spec.type
  OBVIOUS
<1>3. LeafOf(spec) = [key \in {"type"} \cup Required[t] |-> spec[key]]
  BY <1>2 DEF LeafOf
<1>4. t \in {"vlm", "always", "delay", "voice_keyword"}
  BY <1>1, <1>2 DEF Required
<1>5. CASE t \in {"vlm", "always"}
  <2>1. Required["vlm"] = {} /\ Required["always"] = {}
    BY DEF Required
  <2>2. LeafOf(spec) = [key \in {"type"} |-> t]
    BY <1>2, <1>3, <1>5, <2>1
  <2>3. [key \in {"type"} |-> t] \in [type : {t}]
    BY ONLY Z3
  <2>. QED  BY <1>5, <2>2, <2>3 DEF Leaf
<1>6. CASE t = "delay"
  <2>1. Required[t] = {"seconds"}
    BY <1>6 DEF Required
  <2>2. "seconds" \in DOMAIN spec
    BY <1>1, <1>2, <2>1
  <2>3. spec["seconds"] \in Nat \cup {NoFloat}
    BY <2>2, SpecsAssumption DEF Get
  <2>4. PICK n : n = spec["seconds"]
    OBVIOUS
  <2>5. n \in Nat
    BY <1>1, <1>2, <1>6, <2>3, <2>4
  <2>6. LeafOf(spec) = [key \in {"type", "seconds"} |-> IF key = "type" THEN t ELSE n]
    BY <1>2, <1>3, <2>1, <2>4
  <2>7. [key \in {"type", "seconds"} |-> IF key = "type" THEN t ELSE n]
          \in [type : {t}, seconds : {n}]
    BY ONLY Z3
  <2>. QED  BY <1>6, <2>5, <2>6, <2>7 DEF Leaf
<1>7. CASE t = "voice_keyword"
  <2>1. Required[t] = {"keywords"}
    BY <1>7 DEF Required
  <2>2. "keywords" \in DOMAIN spec
    BY <1>1, <1>2, <2>1
  <2>3. spec["keywords"] \in SUBSET STRING
    BY <2>2, SpecsAssumption DEF Get
  <2>4. PICK k : k = spec["keywords"]
    OBVIOUS
  <2>6. LeafOf(spec) = [key \in {"type", "keywords"} |-> IF key = "type" THEN t ELSE k]
    BY <1>2, <1>3, <2>1, <2>4
  <2>7. [key \in {"type", "keywords"} |-> IF key = "type" THEN t ELSE k]
          \in [type : {t}, keywords : {k}]
    BY ONLY Z3
  <2>. QED  BY <1>7, <2>3, <2>4, <2>6, <2>7 DEF Leaf
<1>. QED  BY <1>4, <1>5, <1>6, <1>7

(* What the verdict on a criterion says of it, at every depth.             *)
Judged(spec) ==
  /\ CriterionError[spec] \in Errors
  /\ Nested[spec] \in SUBSET Specs
  /\ CriterionError[spec] = "" <=> \A v \in Nested[spec] : IsObject(v) /\ Evaluable(v)
  /\ CriterionError[spec] = "escapes" => \E v \in Nested[spec] : ~IsObject(v)
  /\ CriterionError[spec] = "" => BuildCriterion[spec] \in SUBSET Leaf

LEMMA JudgedByChildren ==
  ASSUME NEW spec \in Specs,
         \A i \in DOMAIN Children(spec) : Judged(Children(spec)[i])
  PROVE  Judged(spec)
<1>. PICK c : c = Children(spec)
  OBVIOUS
<1>. PICK n : n = Len(c)
  OBVIOUS
<1>1. n \in Nat /\ DOMAIN c = 1..n /\ \A i \in 1..n : c[i] \in Specs /\ Judged(c[i])
  BY ChildrenType
<1>. PICK errors : errors = [i \in 1..n |-> CriterionError[c[i]]]
  OBVIOUS
<1>2. errors \in [1..n -> Errors] /\ \A i \in 1..n : errors[i] = CriterionError[c[i]]
  BY <1>1 DEF Judged
<1>3. CriterionError[spec] = IF OwnError(spec) # "" THEN OwnError(spec) ELSE FirstError(errors)
  <2>1. CriterionError[spec] = ErrorStep(CriterionError, spec)
    BY CriterionErrorDef
  <2>. QED  BY <1>1, <2>1 DEF ErrorStep
<1>4. Nested[spec] = {spec} \cup UNION {Nested[c[i]] : i \in 1..n}
  <2>1. Nested[spec] = NestedStep(Nested, spec)
    BY NestedDef
  <2>. QED  BY <1>1, <2>1 DEF NestedStep
<1>5. /\ FirstError(errors) \in Errors
      /\ FirstError(errors) = "" <=> \A i \in 1..n : errors[i] = ""
      /\ FirstError(errors) # "" => \E i \in 1..n : errors[i] = FirstError(errors)
  BY <1>1, <1>2, FirstErrorIs
<1>6. /\ OwnError(spec) \in Errors
      /\ OwnError(spec) = "" <=> IsObject(spec) /\ Evaluable(spec)
      /\ OwnError(spec) = "escapes" <=> ~IsObject(spec)
  BY OwnErrorIs
<1>7. CriterionError[spec] \in Errors
  BY <1>3, <1>5, <1>6
<1>8. Nested[spec] \in SUBSET Specs
  <2>1. \A i \in 1..n : Nested[c[i]] \in SUBSET Specs
    BY <1>1 DEF Judged
  <2>. QED  BY <1>4, <2>1
<1>9. CriterionError[spec] = "" <=> OwnError(spec) = "" /\ \A i \in 1..n : CriterionError[c[i]] = ""
  BY <1>2, <1>3, <1>5
<1>10. CriterionError[spec] = "" <=> \A v \in Nested[spec] : IsObject(v) /\ Evaluable(v)
  <2>1. (\A v \in Nested[spec] : IsObject(v) /\ Evaluable(v))
          <=> /\ IsObject(spec) /\ Evaluable(spec)
              /\ \A i \in 1..n : \A v \in Nested[c[i]] : IsObject(v) /\ Evaluable(v)
    BY <1>4
  <2>2. \A i \in 1..n : CriterionError[c[i]] = ""
                          <=> \A v \in Nested[c[i]] : IsObject(v) /\ Evaluable(v)
    BY <1>1 DEF Judged
  <2>. QED  BY <1>6, <1>9, <2>1, <2>2
<1>11. ASSUME CriterionError[spec] = "escapes" PROVE \E v \in Nested[spec] : ~IsObject(v)
  <2>1. CASE OwnError(spec) # ""
    BY <1>3, <1>4, <1>6, <1>11, <2>1
  <2>2. CASE OwnError(spec) = ""
    <3>1. PICK i \in 1..n : CriterionError[c[i]] = "escapes"
      BY <1>2, <1>3, <1>5, <1>11, <2>2
    <3>2. PICK v \in Nested[c[i]] : ~IsObject(v)
      BY <1>1, <3>1 DEF Judged
    <3>. QED  BY <1>4, <3>2
  <2>. QED  BY <2>1, <2>2
<1>12. ASSUME CriterionError[spec] = "" PROVE BuildCriterion[spec] \in SUBSET Leaf
  <2>1. BuildCriterion[spec] = LeafStep(BuildCriterion, spec)
    BY BuildCriterionDef
  <2>2. CASE Get(spec, "type", "") = "composite"
    <3>1. \A i \in 1..n : BuildCriterion[c[i]] \in SUBSET Leaf
      BY <1>1, <1>9, <1>12 DEF Judged
    <3>2. BuildCriterion[spec] = UNION {BuildCriterion[c[i]] : i \in 1..n}
      BY <1>1, <2>1, <2>2 DEF LeafStep
    <3>. QED  BY <3>1, <3>2
  <2>3. CASE Get(spec, "type", "") # "composite"
    <3>1. Evaluable(spec)
      BY <1>6, <1>9, <1>12
    <3>2. BuildCriterion[spec] = {LeafOf(spec)}
      BY <2>1, <2>3 DEF LeafStep
    <3>. QED  BY <2>3, <3>1, <3>2, LeafOfType
  <2>. QED  BY <2>2, <2>3
<1>. QED  BY <1>7, <1>8, <1>10, <1>11, <1>12 DEF Judged

LEMMA CriterionVerdict == \A spec \in Specs : Judged(spec)
<1>. DEFINE B == {spec \in Specs : ~Judged(spec)}
<1>. SUFFICES ASSUME B # {} PROVE FALSE
  OBVIOUS
<1>1. B \in SUBSET Specs
  OBVIOUS
<1>2. PICK x \in B : \A y \in Specs : Nesting[y] < Nesting[x] => y \notin B
  <2>1. Nesting \in [Specs -> Nat]
    BY SpecsAssumption
  <2>. HIDE DEF B
  <2>. QED  BY <1>1, <2>1, LeastRank
<1>3. x \in Specs /\ ~Judged(x)
  OBVIOUS
<1>4. \A i \in DOMAIN Children(x) : Judged(Children(x)[i])
  BY <1>2, <1>3, ChildrenType
<1>. QED  BY <1>3, <1>4, JudgedByChildren

------------------------------------------------------------------------------
(* A sub-task, and a file.                                                 *)

WellFormedSubtask(s) ==
  /\ IsObject(s) /\ "name" \in DOMAIN s
  /\ Get(Success(s), "timeout_s", 0) # NoFloat
  /\ \A v \in Nested[Success(s)] : IsObject(v) /\ Evaluable(v)

LEMMA SubtaskVerdict ==
  ASSUME NEW s, Success(s) \in Specs
  PROVE  /\ SubtaskError(s) \in Errors
         /\ SubtaskError(s) = "" <=> WellFormedSubtask(s)
         /\ SubtaskError(s) = "escapes" =>
              ~IsObject(s) \/ \E v \in Nested[Success(s)] : ~IsObject(v)
<1>1. Judged(Success(s))
  BY CriterionVerdict
<1>2. PICK a : a = Raise("name" \notin DOMAIN s)
  OBVIOUS
<1>3. PICK b : b = CriterionError[Success(s)]
  OBVIOUS
<1>4. PICK c : c = Raise(Get(Success(s), "timeout_s", 30) = NoFloat)
  OBVIOUS
<1>5. /\ a \in Errors /\ a # "escapes" /\ (a = "" <=> "name" \in DOMAIN s)
      /\ b \in Errors
      /\ c \in Errors /\ c # "escapes"
      /\ (c = "" <=> Get(Success(s), "timeout_s", 0) # NoFloat)
  <2>1. a \in Errors /\ a # "escapes" /\ (a = "" <=> "name" \in DOMAIN s)
    BY <1>2 DEF Errors, Raise
  <2>2. b \in Errors
    BY <1>1, <1>3 DEF Judged
  <2>3. c \in Errors /\ c # "escapes"
    BY <1>4 DEF Errors, Raise
  <2>4. c = "" <=> Get(Success(s), "timeout_s", 30) # NoFloat
    BY <1>4 DEF Raise
  <2>5. Get(Success(s), "timeout_s", 30) # NoFloat <=> Get(Success(s), "timeout_s", 0) # NoFloat
    BY DEF Get, NoFloat
  <2>. QED  BY <2>1, <2>2, <2>3, <2>4, <2>5
<1>6. /\ FirstError(<<a, b, c>>) \in Errors
      /\ FirstError(<<a, b, c>>) = "" <=> a = "" /\ b = "" /\ c = ""
      /\ FirstError(<<a, b, c>>) \in {"", a, b, c}
  BY <1>5, FirstErrorOf3
<1>7. SubtaskError(s) = IF ~IsObject(s) THEN "escapes" ELSE FirstError(<<a, b, c>>)
  BY <1>2, <1>3, <1>4 DEF SubtaskError
<1>8. SubtaskError(s) \in Errors
  BY <1>6, <1>7 DEF Errors
<1>9. b = "" <=> \A v \in Nested[Success(s)] : IsObject(v) /\ Evaluable(v)
  BY <1>1, <1>3 DEF Judged
<1>10. SubtaskError(s) = "" <=> WellFormedSubtask(s)
  BY <1>5, <1>6, <1>7, <1>9 DEF WellFormedSubtask
<1>11. b = "escapes" => \E v \in Nested[Success(s)] : ~IsObject(v)
  BY <1>1, <1>3 DEF Judged
<1>12. SubtaskError(s) = "escapes" => ~IsObject(s) \/ b = "escapes"
  BY <1>5, <1>6, <1>7
<1>. QED  BY <1>8, <1>10, <1>11, <1>12

LEMMA SubtaskType ==
  ASSUME NEW s, Success(s) \in Specs, WellFormedSubtask(s), Get(s, "name", "") \in STRING,
         \A hook \in Hooks : Get(s, hook, <<>>) \in Hook
  PROVE  LoadSubtask(s) \in SubTaskDef
<1>1. s.name \in STRING
  BY DEF WellFormedSubtask, Get
<1>2. /\ Get(s, "on_create", <<>>) \in Hook /\ Get(s, "on_start", <<>>) \in Hook
      /\ Get(s, "on_success", <<>>) \in Hook /\ Get(s, "on_fail", <<>>) \in Hook
  BY DEF Hooks
<1>3. BuildCriterion[Success(s)] \in SUBSET Leaf
  BY CriterionVerdict DEF Judged, WellFormedSubtask
<1>4. Get(Success(s), "timeout_s", 30) \in Nat
  <2>1. Get(Success(s), "timeout_s", 0) \in Nat \cup {NoFloat}
    BY SpecsAssumption
  <2>. QED  BY <2>1 DEF WellFormedSubtask, Get
<1>. QED  BY <1>1, <1>2, <1>3, <1>4 DEF LoadSubtask, SubTaskDef

LEMMA SubsType ==
  ASSUME NEW doc, Document(doc)
  PROVE  /\ Len(Subs(doc)) \in Nat
         /\ DOMAIN Subs(doc) = 1..Len(Subs(doc))
         /\ Range(Subs(doc)) = {Subs(doc)[i] : i \in 1..Len(Subs(doc))}
<1>. PICK subs : subs = Subs(doc)
  OBVIOUS
<1>1. subs \in Seq(Range(subs))
  BY DEF Document
<1>2. Len(subs) \in Nat /\ DOMAIN subs = 1..Len(subs)
  BY <1>1
<1>. QED  BY <1>2 DEF Range

(* The loader refuses exactly the files that are not well-formed, names    *)
(* every one that has objects where they belong, and makes of the others   *)
(* what Orchestrator assumes of a scenario.                                *)
LEMMA FileVerdict ==
  ASSUME NEW doc, Document(doc)
  PROVE  /\ FileError(doc) \in Errors
         /\ FileError(doc) = "" <=> WellFormed(doc)
         /\ FileError(doc) = "escapes" => ~Formed(doc)
         /\ FileError(doc) = "" => LoadScenario(doc) \in Scenario
<1>. PICK subs : subs = Subs(doc)
  OBVIOUS
<1>. PICK n : n = Len(subs)
  OBVIOUS
<1>1. n \in Nat /\ DOMAIN subs = 1..n /\ Range(subs) = {subs[i] : i \in 1..n}
  BY SubsType
<1>2. \A i \in 1..n : /\ Success(subs[i]) \in Specs
                      /\ Get(subs[i], "name", "") \in STRING
                      /\ \A hook \in Hooks : Get(subs[i], hook, <<>>) \in Hook
  BY <1>1 DEF Document
<1>. PICK errors : errors = [i \in 1..n |-> SubtaskError(subs[i])]
  OBVIOUS
<1>. PICK own : own = Raise("name" \notin DOMAIN doc)
  OBVIOUS
<1>. PICK all : all = errors \o <<own>>
  OBVIOUS
<1>3. errors \in Seq(Errors) /\ Len(errors) = n /\ \A i \in 1..n : errors[i] = SubtaskError(subs[i])
  <2>1. \A i \in 1..n : SubtaskError(subs[i]) \in Errors
    BY <1>2, SubtaskVerdict
  <2>. QED  BY <1>1, <2>1
<1>4. own \in {"", "named"} /\ (own = "" <=> "name" \in DOMAIN doc)
  BY DEF Raise
<1>5. /\ all \in [1..(n + 1) -> Errors]
      /\ \A i \in 1..n : all[i] = SubtaskError(subs[i])
      /\ all[n + 1] = own
  <2>1. own \in Errors
    BY <1>4 DEF Errors
  <2>2. all = Append(errors, own)
    BY <1>3, <2>1
  <2>3. all \in Seq(Errors) /\ Len(all) = n + 1
    BY <1>3, <2>1, <2>2
  <2>4. \A i \in 1..n : all[i] = errors[i]
    BY <1>1, <1>3, <2>1, <2>2
  <2>5. all[n + 1] = own
    BY <1>1, <1>3, <2>1, <2>2
  <2>6. all \in [1..(n + 1) -> Errors]
    BY ONLY <2>3, LenProperties
  <2>. QED  BY <1>3, <2>4, <2>5, <2>6
<1>6. /\ FirstError(all) \in Errors
      /\ FirstError(all) = "" <=> \A i \in 1..(n + 1) : all[i] = ""
      /\ FirstError(all) # "" => \E i \in 1..(n + 1) : all[i] = FirstError(all)
  <2>1. n + 1 \in Nat
    BY <1>1
  <2>. QED  BY <1>5, <2>1, FirstErrorIs
<1>7. FileError(doc) = IF ~IsObject(doc) THEN "escapes" ELSE FirstError(all)
  BY <1>1 DEF FileError
<1>8. FileError(doc) \in Errors
  BY <1>6, <1>7 DEF Errors
<1>9. \A i \in 1..(n + 1) : i \in 1..n \/ i = n + 1
  BY <1>1
<1>10. 1..n \subseteq 1..(n + 1) /\ n + 1 \in 1..(n + 1)
  BY <1>1
<1>11. FirstError(all) = ""
         <=> "name" \in DOMAIN doc /\ \A i \in 1..n : WellFormedSubtask(subs[i])
  <2>1. \A i \in 1..n : SubtaskError(subs[i]) = "" <=> WellFormedSubtask(subs[i])
    BY <1>2, SubtaskVerdict
  <2>2. FirstError(all) = "" <=> own = "" /\ \A i \in 1..n : SubtaskError(subs[i]) = ""
    <3>1. ASSUME own = "", \A i \in 1..n : SubtaskError(subs[i]) = "" PROVE FirstError(all) = ""
      <4>1. \A i \in 1..(n + 1) : all[i] = ""
        BY ONLY <1>5, <1>9, <3>1
      <4>. QED  BY <1>6, <4>1
    <3>2. ASSUME FirstError(all) = "" PROVE own = "" /\ \A i \in 1..n : SubtaskError(subs[i]) = ""
      <4>1. \A i \in 1..(n + 1) : all[i] = ""
        BY <1>6, <3>2
      <4>. QED  BY ONLY <1>5, <1>10, <4>1
    <3>. QED  BY <3>1, <3>2
  <2>. QED  BY <1>4, <2>1, <2>2
<1>12. Criteria(doc) = UNION {Nested[Success(subs[i])] : i \in 1..n}
  BY <1>1 DEF Criteria
<1>13. FileError(doc) = "" <=> WellFormed(doc)
  <2>1. FileError(doc) = ""
          <=> /\ IsObject(doc) /\ "name" \in DOMAIN doc
              /\ \A i \in 1..n : WellFormedSubtask(subs[i])
    BY <1>7, <1>11
  <2>2. WellFormed(doc)
          <=> /\ IsObject(doc) /\ "name" \in DOMAIN doc
              /\ \A i \in 1..n : WellFormedSubtask(subs[i])
    BY <1>1, <1>12 DEF WellFormed, Formed, WellFormedSubtask
  <2>. QED  BY <2>1, <2>2
<1>14. ASSUME FileError(doc) = "escapes" PROVE ~Formed(doc)
  <2>1. CASE ~IsObject(doc)
    BY <2>1 DEF Formed
  <2>2. CASE IsObject(doc)
    <3>1. PICK i \in 1..n : SubtaskError(subs[i]) = "escapes"
      <4>1. FirstError(all) = "escapes"
        BY <1>7, <1>14, <2>2
      <4>2. PICK i \in 1..(n + 1) : all[i] = "escapes"
        BY <1>6, <4>1
      <4>3. i # n + 1
        BY <1>4, <1>5, <4>2
      <4>. QED  BY ONLY <1>5, <1>9, <4>2, <4>3
    <3>2. ~IsObject(subs[i]) \/ \E v \in Nested[Success(subs[i])] : ~IsObject(v)
      BY <1>2, <3>1, SubtaskVerdict
    <3>. QED  BY <1>1, <1>12, <3>2 DEF Formed
  <2>. QED  BY <2>1, <2>2
<1>15. ASSUME FileError(doc) = "" PROVE LoadScenario(doc) \in Scenario
  <2>1. \A i \in 1..n : WellFormedSubtask(subs[i])
    BY <1>7, <1>11, <1>15
  <2>2. \A i \in 1..n : LoadSubtask(subs[i]) \in SubTaskDef
    BY <1>2, <2>1, SubtaskType
  <2>3. [i \in 1..n |-> LoadSubtask(subs[i])] \in Seq(SubTaskDef)
    BY <1>1, <2>2
  <2>4. Get(doc, "triggers", {}) \in SUBSET STRING
    BY DEF Document
  <2>. QED  BY <1>1, <2>3, <2>4 DEF LoadScenario, Scenario
<1>. QED  BY <1>8, <1>13, <1>14, <1>15

------------------------------------------------------------------------------
(* The start.                                                              *)

(* How far the loading has come, and what it found.                        *)
LInv ==
  /\ disk \in Seq(Documents)
  /\ loaded \in 0..Len(disk)
  /\ boot \in {"loading", "up", "named", "escapes"}
  /\ \A i \in 1..loaded : FileError(disk[i]) = ""
  /\ boot = "up" => loaded = Len(disk)
  /\ boot \in {"named", "escapes"} => loaded < Len(disk) /\ FileError(disk[loaded + 1]) = boot

LEMMA FilesOf ==
  ASSUME LInv
  PROVE  /\ Len(disk) \in Nat /\ DOMAIN disk = 1..Len(disk)
         /\ \A i \in 1..Len(disk) : disk[i] \in Documents /\ Document(disk[i])
<1>1. disk \in Seq(Documents)
  BY DEF LInv
<1>2. Len(disk) \in Nat /\ DOMAIN disk = 1..Len(disk) /\ \A i \in 1..Len(disk) : disk[i] \in Documents
  BY ONLY <1>1
<1>. QED  BY <1>2, DisksAssumption

LEMMA LoadFileLInv == ASSUME LInv, LoadFile PROVE LInv'
<1>. PICK error : error = FileError(disk[loaded + 1])
  OBVIOUS
<1>. PICK n : n = Len(disk)
  OBVIOUS
<1>0. n \in Nat /\ \A i \in 1..n : Document(disk[i])
  BY FilesOf
<1>1. /\ disk' = disk /\ disk \in Seq(Documents)
      /\ loaded \in Nat /\ loaded < n /\ loaded + 1 \in 1..n /\ loaded + 1 \in 0..n
  <2>1. loaded \in 0..n /\ loaded < n
    BY DEF LInv, LoadFile
  <2>2. disk' = disk /\ disk \in Seq(Documents)
    BY DEF LInv, LoadFile
  <2>. QED  BY <1>0, <2>1, <2>2
<1>2. error \in Errors
  BY <1>0, <1>1, FileVerdict
<1>3. CASE error = ""
  <2>1. loaded' = loaded + 1 /\ boot' = "loading"
    BY <1>3 DEF LoadFile
  <2>2. \A i \in 1..loaded' : FileError(disk'[i]) = ""
    <3>1. \A i \in 1..(loaded + 1) : i \in 1..loaded \/ i = loaded + 1
      BY <1>1
    <3>2. \A i \in 1..loaded : FileError(disk[i]) = ""
      BY DEF LInv
    <3>. QED  BY <1>1, <1>3, <2>1, <3>1, <3>2
  <2>. QED  BY <1>1, <2>1, <2>2 DEF LInv
<1>4. CASE error # ""
  <2>1. loaded' = loaded /\ boot' = error
    BY <1>4 DEF LoadFile
  <2>2. boot' \in {"named", "escapes"}
    BY <1>2, <1>4, <2>1 DEF Errors
  <2>. QED  BY <1>1, <2>1, <2>2 DEF LInv
<1>. QED  BY <1>3, <1>4

LEMMA LoadingInvariant == BSpec => []LInv
<1>1. BInit => LInv
  <2>1. ASSUME BInit PROVE disk \in Seq(Documents)
    BY <2>1, DisksAssumption DEF BInit
  <2>. QED  BY <2>1 DEF BInit, LInv
<1>2. LInv /\ [BNext]_bvars => LInv'
  <2>1. ASSUME LInv, ComeUp PROVE LInv'
    BY <2>1 DEF LInv, ComeUp
  <2>2. ASSUME LInv, UNCHANGED boots PROVE LInv'
    BY <2>2 DEF LInv, boots
  <2>. QED  BY <2>1, <2>2, LoadFileLInv DEF BNext, Run, bvars
<1>. QED  BY <1>1, <1>2, PTL DEF BSpec

(* No bad scenario runs, whatever the files hold: the node that came up    *)
(* has only criteria it can evaluate, however deep they nest, and with     *)
(* what it loaded meets the assumption the orchestrator's proofs rest on.  *)
THEOREM NothingBadRuns == BSpec => []NoBadScenarioRuns
<1>1. ASSUME LInv PROVE NoBadScenarioRuns
  <2>. SUFFICES ASSUME boot = "up"
                PROVE  /\ \A i \in DOMAIN disk : WellFormed(disk[i])
                       /\ Loaded \in Seq(Scenario)
    BY DEF NoBadScenarioRuns
  <2>. PICK n : n = Len(disk)
    OBVIOUS
  <2>1. n \in Nat /\ DOMAIN disk = 1..n /\ \A i \in 1..n : Document(disk[i])
    BY <1>1, FilesOf
  <2>2. \A i \in 1..n : FileError(disk[i]) = ""
    BY <1>1 DEF LInv
  <2>3. \A i \in 1..n : WellFormed(disk[i]) /\ LoadScenario(disk[i]) \in Scenario
    BY <2>1, <2>2, FileVerdict
  <2>4. [i \in 1..n |-> LoadScenario(disk[i])] \in Seq(Scenario)
    BY <2>1, <2>3
  <2>. QED  BY <2>1, <2>3, <2>4 DEF Loaded
<1>. QED  BY <1>1, LoadingInvariant, PTL

(* The offender is named, whatever the files hold.                         *)
THEOREM NamesOffender == BSpec => []OffenderIsNamed
<1>1. ASSUME LInv PROVE OffenderIsNamed
  <2>. SUFFICES ASSUME boot \in {"named", "escapes"}
                PROVE  /\ \A i \in 1..loaded : WellFormed(disk[i])
                       /\ ~WellFormed(disk[loaded + 1])
                       /\ boot = "escapes" => ~Formed(disk[loaded + 1])
    BY DEF OffenderIsNamed
  <2>. PICK n : n = Len(disk)
    OBVIOUS
  <2>. PICK l : l = loaded
    OBVIOUS
  <2>0. l \in 0..n /\ l < n
    BY <1>1 DEF LInv
  <2>1. FileError(disk[loaded + 1]) = boot /\ \A i \in 1..loaded : FileError(disk[i]) = ""
    BY <1>1 DEF LInv
  <2>2. n \in Nat /\ \A i \in 1..n : Document(disk[i])
    BY <1>1, FilesOf
  <2>3. \A i \in 1..loaded : i \in 1..n
    BY <2>0, <2>2
  <2>4. loaded + 1 \in 1..n
    BY <2>0, <2>2
  <2>5. \A i \in 1..loaded : WellFormed(disk[i])
    BY <2>1, <2>2, <2>3, FileVerdict
  <2>6. ~WellFormed(disk[loaded + 1]) /\ (boot = "escapes" => ~Formed(disk[loaded + 1]))
    BY <2>1, <2>2, <2>4, FileVerdict
  <2>. QED  BY <2>5, <2>6
<1>. QED  BY <1>1, LoadingInvariant, PTL

(* From its start on, the node is the orchestrator.                        *)
LEMMA StartRunsOrchestrator == BSpec => Spec
<1>1. BInit => Init
  BY DEF BInit
<1>2. [BNext]_bvars => [Next]_vars
  BY DEF BNext, LoadFile, ComeUp, Run, bvars
<1>. QED  BY <1>1, <1>2, PTL DEF BSpec, Spec

------------------------------------------------------------------------------
(* What ci.yml's check is good for.                                        *)

(* Its can_fail looks only at the type at the top of a criterion, and that *)
(* is enough.                                                              *)
LEMMA MayFailIsEnough ==
  ASSUME NEW s, Success(s) \in Specs, CanFail(LoadSubtask(s))
  PROVE  MayFail(s)
<1>. SUFFICES ASSUME Get(Success(s), "type", "") = "always" PROVE FALSE
  BY DEF MayFail
<1>. PICK spec : spec = Success(s)
  OBVIOUS
<1>1. spec.type = "always"
  BY DEF Get
<1>2. BuildCriterion[spec] = {LeafOf(spec)}
  <2>1. BuildCriterion[spec] = LeafStep(BuildCriterion, spec)
    BY BuildCriterionDef
  <2>. QED  BY <2>1 DEF LeafStep
<1>3. LeafOf(spec).type = "always"
  BY <1>1 DEF LeafOf
<1>4. LoadSubtask(s).criterion = {LeafOf(spec)}
  BY <1>2 DEF LoadSubtask
<1>. QED  BY <1>3, <1>4 DEF CanFail

(* With files that pass the check no failure of a sub-task goes unheard:   *)
(* the last thing it does reaches a connector.                             *)
THEOREM SaneFailuresAct == BSpec => FailureActs
<1>. DEFINE Failed == \E i \in DOMAIN task_status' : task_status'[i].state = "FAILED"
            AllSane == \A i \in DOMAIN disk : Sane(disk[i])
            Acts == cmds' # <<>> /\ cmds'[Len(cmds')].op = "dispatch"
<1>1. ASSUME LInv, IInv, Run, AllSane, Failed PROVE Acts
  <2>1. Next /\ Scenarios = Loaded
    BY <1>1 DEF Run
  <2>2. TickFail
    BY <1>1, <2>1, OnlyTimeoutFails
  <2>3. HasCurrent /\ CanFail(Current)
    BY <1>1, <2>2, Overdue DEF TickFail, TimesOut
  <2>4. active \in DOMAIN disk /\ Scenarios[active] = LoadScenario(disk[active])
    BY <1>1, <2>1, <2>3 DEF IInv, TypeOK, HasCurrent, Loaded
  <2>. PICK doc : doc = disk[active]
    OBVIOUS
  <2>5. Document(doc) /\ Sane(doc)
    BY <1>1, <2>4, FilesOf
  <2>. PICK s : s = Subs(doc)[index + 1]
    OBVIOUS
  <2>6. index + 1 \in DOMAIN Subs(doc) /\ Current = LoadSubtask(s)
    <3>1. Scenarios[active].sub_tasks = [i \in DOMAIN Subs(doc) |-> LoadSubtask(Subs(doc)[i])]
      BY <2>4 DEF LoadScenario
    <3>2. index \in Nat /\ index < Len(Scenarios[active].sub_tasks)
      <4>1. active \in DOMAIN Scenarios /\ index \in 0..Count(active) - 1
        BY <1>1, <2>3 DEF HasCurrent, IInv, TypeOK
      <4>2. Count(active) \in Nat
        BY <4>1, CountType
      <4>3. index \in Nat /\ index < Count(active)
        BY <4>1, <4>2
      <4>. QED  BY <4>3 DEF Count
    <3>3. Len(Scenarios[active].sub_tasks) = Len(Subs(doc))
      BY <2>5, <3>1, SubsType
    <3>4. index + 1 \in DOMAIN Subs(doc)
      BY <2>5, <3>2, <3>3, SubsType
    <3>. QED  BY <3>1, <3>4 DEF Current, SubTask
  <2>7. s \in Range(Subs(doc))
    BY <2>6 DEF Range
  <2>8. Success(s) \in Specs /\ SaneSubtask(s)
    BY <2>5, <2>7 DEF Document, Sane
  <2>9. MayFail(s)
    BY <2>3, <2>6, <2>8, MayFailIsEnough
  <2>10. /\ Current.on_fail = Get(s, "on_fail", <<>>)
         /\ Current.on_fail # <<>>
    BY <2>6, <2>8, <2>9 DEF LoadSubtask, SaneSubtask
  <2>. PICK last : last = Current.on_fail[Len(Current.on_fail)]
    OBVIOUS
  <2>11. HasConnector(last)
    <3>1. Current.on_fail \in Hook
      BY <1>1, <2>3, CurrentType DEF SubTaskDef
    <3>2. Len(Current.on_fail) \in DOMAIN Current.on_fail
      BY <2>10, <3>1 DEF Hook
    <3>3. last \in Range(Get(s, "on_fail", <<>>))
      BY <2>10, <3>2 DEF Range
    <3>. QED  BY <2>8, <3>3 DEF SaneSubtask, Hooks
  <2>12. cmds' # <<>> /\ cmds'[Len(cmds')] = Command(last)
    BY <1>1, <2>2, <2>10, FailureCommands
  <2>13. Command(last).op = "dispatch"
    BY <2>11 DEF Command
  <2>. QED  BY <2>12, <2>13
<1>2. LInv /\ IInv /\ [BNext]_bvars => [AllSane /\ Failed => Acts]_vars
  <2>1. LoadFile \/ ComeUp \/ UNCHANGED bvars => UNCHANGED vars
    BY DEF LoadFile, ComeUp, bvars
  <2>. HIDE DEF AllSane, Failed, Acts
  <2>. QED  BY <1>1, <2>1 DEF BNext
<1>3. BSpec => []IInv
  BY StartRunsOrchestrator, Invariant, PTL
<1>. QED  BY <1>2, <1>3, LoadingInvariant, PTL DEF BSpec, FailureActs
=============================================================================
