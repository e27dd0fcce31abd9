-------------------------- MODULE AlgorithmProofs ---------------------------
(***************************************************************************)
(* Proofs about the two algorithms that work alone on their data: the      *)
(* validation of a pipeline (PipelinePlan) and the filter of the output of *)
(* a step (Redaction).                                                     *)
(*                                                                         *)
(* The pipelines: whatever order the search takes, it finds a cycle        *)
(* exactly if there is one, and the rows of a compiled pipeline can be     *)
(* executed in an order that respects the stages.  The search is proved    *)
(* without induction over the graph.  Call a set of nodes tangled if each  *)
(* of them needs one of the set: a graph is well ordered if only the empty *)
(* set is tangled.  No node of a tangled set is ever marked as visited,    *)
(* because before that all it needs is; and when the search meets a node   *)
(* it is visiting, the part of its trail up to that node is tangled.       *)
(*                                                                         *)
(* The filter: a byte is copied only if every secret already differs from  *)
(* the input that begins with it, which no later byte can change.  A       *)
(* secret in the input therefore begins in a marker or in what is kept     *)
(* back.                                                                   *)
(***************************************************************************)
EXTENDS PipelinePlan, Redaction, FiniteSetTheorems, FunctionTheorems,
        NaturalsInduction, SequenceTheorems, WellFoundedInduction, TLAPS

-----------------------------------------------------------------------------
(* The inductive invariant of the validation.                              *)

\* The graph a number stands for.
ListAt(g) == IF g \in Stages THEN pipeline.stages[g].jobs ELSE pipeline.stages

\* Every node of the set needs one of the set.
Tangled(C) == \A n \in C : Graph[n] \cap C # {}

\* A visit that has not returned.
Frames == [node : Names, todo : SUBSET Names]

\* The types of the search.
PlanTypeOK ==
  /\ pipeline \in Pipelines
  /\ graphNo \in 1..Len(pipeline.stages) + 2
  /\ trail \in Seq(Frames)

\* The visits that have not returned are of nodes marked as visiting, each
\* once; what a visit is done with is visited; it waits for the one it called.
TrailOK ==
  /\ \A i \in DOMAIN trail :
       /\ StateOf(trail[i].node) = "visiting"
       /\ trail[i].todo \subseteq Following(trail[i].node)
       /\ \A n \in Following(trail[i].node) \ trail[i].todo : StateOf(n) = "visited"
       /\ \A k \in DOMAIN trail : trail[i].node = trail[k].node => i = k
       /\ i + 1 \in DOMAIN trail => trail[i].node \in trail[i + 1].todo
  /\ \A n \in Names : StateOf(n) = "visiting" => \E i \in DOMAIN trail : trail[i].node = n

\* Nothing tangled is visited.
VisitedOK ==
  \A C \in SUBSET DOMAIN Graph : Tangled(C) => \A n \in C : StateOf(n) # "visited"

\* What a pipeline is refused for.
Refused(list) ==
  \/ Len(list) = 0 \/ Cardinality(NamesOf(list)) < Len(list)
  \/ ~(UNION {list[i].needs : i \in DOMAIN list} \subseteq NamesOf(list))
  \/ ~WellOrdered(GraphOf(list))

\* The graphs searched so far are in order, or there is a reason to refuse.
ProblemsOK ==
  /\ ~problems =>
       /\ pipeline.fields
       /\ \A g \in 1..graphNo - 1 : ~PlainProblem(ListAt(g)) /\ WellOrdered(GraphOf(ListAt(g)))
  /\ problems => ~pipeline.fields \/ \E g \in 1..Len(pipeline.stages) + 1 : Refused(ListAt(g))
  /\ verdict = "compiled" => ~problems /\ graphNo = Len(pipeline.stages) + 2
  /\ verdict = "invalid" => problems

\* The inductive invariant.
PlanInv == PlanTypeOK /\ TrailOK /\ VisitedOK /\ ProblemsOK

-----------------------------------------------------------------------------
(* Lists and their graphs.                                                 *)

\* The documents a list may hold.
Documents(D) == \A d \in D : d.name \in Names /\ d.needs \in SUBSET Names

\* A set of numbers up to n has a largest one.
LEMMA Largest ==
  ASSUME NEW n \in Nat, NEW S \in SUBSET (1..n), S # {}
  PROVE  \E i \in S : \A j \in S : j <= i
<1> DEFINE T == {n - i : i \in S}
<1>1. T \subseteq Nat /\ T # {}
  <2>1. \A i \in S : n - i \in Nat
    OBVIOUS
  <2>2. PICK i \in S : TRUE
    OBVIOUS
  <2>3. n - i \in T
    OBVIOUS
  <2> QED BY <2>1, <2>3
<1>2. PICK t \in T : \A u \in T : ~(<<u, t>> \in OpToRel(<, Nat))
  BY <1>1, NatLessThanWellFounded, WFMin
<1>3. PICK i \in S : t = n - i
  OBVIOUS
<1>4. ASSUME NEW j \in S PROVE j <= i
  <2>1. n - j \in T /\ n - j \in Nat /\ t \in Nat
    BY <1>1
  <2>2. ~(n - j < t)
    BY <1>2, <2>1 DEF OpToRel
  <2> QED BY <1>3, <2>1, <2>2
<1> QED BY <1>4

\* The graph of a list takes what a name needs from an entry with that name.
LEMMA GraphEntry ==
  ASSUME NEW D, Documents(D), NEW list \in Seq(D)
  PROVE  /\ GraphOf(list) \in [NamesOf(list) -> SUBSET Names]
         /\ NamesOf(list) \subseteq Names
         /\ \A n \in NamesOf(list) :
              \E i \in DOMAIN list : list[i].name = n /\ GraphOf(list)[n] = list[i].needs
<1>1. DOMAIN list = 1..Len(list) /\ Len(list) \in Nat /\ \A i \in DOMAIN list : list[i] \in D
  OBVIOUS
<1>2. NamesOf(list) \subseteq Names
  BY <1>1 DEF NamesOf, Documents
<1>3. ASSUME NEW n \in NamesOf(list)
      PROVE  \E i \in DOMAIN list : list[i].name = n /\ GraphOf(list)[n] = list[i].needs
  <2> DEFINE S == {i \in DOMAIN list : list[i].name = n}
             IsLast(i) == list[i].name = n /\ \A j \in DOMAIN list : list[j].name = n => j <= i
  <2>1. S # {} /\ S \in SUBSET (1..Len(list))
    BY <1>1 DEF NamesOf
  <2>2. \E i \in S : \A j \in S : j <= i
    <3> HIDE DEF S
    <3> QED BY <1>1, <2>1, Largest
  <2>3. \E i \in DOMAIN list : IsLast(i)
    BY <2>2
  <2>4. PICK c : c = CHOOSE i \in DOMAIN list : IsLast(i)
    OBVIOUS
  <2>5. c \in DOMAIN list /\ IsLast(c)
    BY <2>3, <2>4
  <2>6. GraphOf(list)[n] = list[c].needs
    BY <2>4 DEF GraphOf
  <2> QED BY <2>5, <2>6
<1>4. DOMAIN GraphOf(list) = NamesOf(list) /\ GraphOf(list) = [n \in NamesOf(list) |-> GraphOf(list)[n]]
  BY DEF GraphOf
<1>5. \A n \in NamesOf(list) : GraphOf(list)[n] \in SUBSET Names
  BY <1>1, <1>3 DEF Documents
<1> QED BY <1>2, <1>3, <1>4, <1>5

\* A list has as many positions as entries.
LEMMA ListSize ==
  ASSUME NEW D, NEW list \in Seq(D)
  PROVE  IsFiniteSet(DOMAIN list) /\ Cardinality(DOMAIN list) = Len(list)
<1>1. DOMAIN list = 1..Len(list) /\ Len(list) \in Nat /\ 1 \in Int /\ Len(list) \in Int
  OBVIOUS
<1>2. /\ IsFiniteSet(1..Len(list))
      /\ Cardinality(1..Len(list)) = IF 1 > Len(list) THEN 0 ELSE Len(list) - 1 + 1
  BY <1>1, FS_Interval
<1> QED BY <1>1, <1>2

\* Without a repeated name the graph is the list.
LEMMA DistinctEntries ==
  ASSUME NEW D, Documents(D), NEW list \in Seq(D), Cardinality(NamesOf(list)) = Len(list)
  PROVE  /\ \A i, j \in DOMAIN list : list[i].name = list[j].name => i = j
         /\ \A i \in DOMAIN list : GraphOf(list)[list[i].name] = list[i].needs
<1>1. DOMAIN list = 1..Len(list) /\ Len(list) \in Nat /\ \A i \in DOMAIN list : list[i] \in D
  OBVIOUS
<1> DEFINE f == [i \in DOMAIN list |-> list[i].name]
<1>2. f \in Surjection(DOMAIN list, NamesOf(list))
  BY DEF NamesOf, Surjection
<1>3. IsFiniteSet(DOMAIN list) /\ Cardinality(DOMAIN list) = Len(list)
  BY ListSize
<1>4. f \in Injection(DOMAIN list, NamesOf(list))
  <2> HIDE DEF f
  <2> QED BY <1>2, <1>3, FS_SurjSameCardinalityImpliesInj
<1>5. \A i, j \in DOMAIN list : list[i].name = list[j].name => i = j
  <2>1. \A i, j \in DOMAIN list : f[i] = f[j] => i = j
    BY <1>4 DEF Injection, IsInjective
  <2> QED BY <2>1
<1>6. \A i \in DOMAIN list : list[i].name \in NamesOf(list)
  BY DEF NamesOf
<1> QED BY <1>5, <1>6, GraphEntry

\* A repeated name makes the names fewer than the entries.
LEMMA FewerNames ==
  ASSUME NEW D, NEW list \in Seq(D)
  PROVE  Cardinality(NamesOf(list)) \in Nat /\ Cardinality(NamesOf(list)) <= Len(list)
<1>1. DOMAIN list = 1..Len(list) /\ Len(list) \in Nat
  OBVIOUS
<1> DEFINE f == [i \in DOMAIN list |-> list[i].name]
<1>2. f \in Surjection(DOMAIN list, NamesOf(list))
  BY DEF NamesOf, Surjection
<1>3. IsFiniteSet(DOMAIN list) /\ Cardinality(DOMAIN list) = Len(list)
  BY ListSize
<1>4. IsFiniteSet(NamesOf(list)) /\ Cardinality(NamesOf(list)) <= Cardinality(DOMAIN list)
  <2> HIDE DEF f
  <2> QED BY <1>2, <1>3, FS_Surjection
<1> QED BY <1>3, <1>4, FS_CardinalityType

\* What is found without a search is a reason to refuse.
LEMMA PlainRefused ==
  ASSUME NEW D, Documents(D), NEW list \in Seq(D), PlainProblem(list) PROVE Refused(list)
<1>1. CASE Len(list) = 0
  BY <1>1 DEF Refused
<1>2. CASE Cardinality(NamesOf(list)) # Len(list)
  <2>1. Len(list) \in Nat
    OBVIOUS
  <2> QED BY <1>2, <2>1, FewerNames DEF Refused
<1>3. ASSUME NEW n \in NamesOf(list), n \in GraphOf(list)[n] PROVE Refused(list)
  <2>1. DOMAIN GraphOf(list) = NamesOf(list)
    BY DEF GraphOf
  <2>2. ~WellOrdered(GraphOf(list))
    <3>1. {n} \in SUBSET DOMAIN GraphOf(list) /\ {n} # {} /\ \A m \in {n} : GraphOf(list)[m] \cap {n} # {}
      BY <1>3, <2>1
    <3> QED BY <3>1 DEF WellOrdered
  <2> QED BY <2>2 DEF Refused
<1>4. ASSUME NEW n \in NamesOf(list), ~(GraphOf(list)[n] \subseteq NamesOf(list)) PROVE Refused(list)
  <2>1. PICK i \in DOMAIN list : GraphOf(list)[n] = list[i].needs
    BY GraphEntry
  <2> QED BY <1>4, <2>1 DEF Refused
<1> QED BY <1>1, <1>2, <1>3, <1>4 DEF PlainProblem

\* The lists of a pipeline hold documents.
LEMMA ListDocuments ==
  ASSUME pipeline \in Pipelines, NEW g
  PROVE  \E D : Documents(D) /\ ListAt(g) \in Seq(D)
<1>1. pipeline.stages \in Seq(StageDocs)
  BY PipelinesAssumption
<1>2. CASE g \in Stages
  <2>1. pipeline.stages[g] \in StageDocs
    BY <1>1, <1>2 DEF Stages
  <2>2. pipeline.stages[g].jobs \in Seq(JobDocs)
    BY <2>1 DEF StageDocs
  <2>3. Documents(JobDocs)
    BY DEF Documents, JobDocs
  <2> QED BY <1>2, <2>2, <2>3 DEF ListAt
<1>3. CASE g \notin Stages
  <2>1. Documents(StageDocs)
    BY DEF Documents, StageDocs
  <2> QED BY <1>1, <1>3, <2>1 DEF ListAt
<1> QED BY <1>2, <1>3

\* What a node needs.
LEMMA GraphIs ==
  ASSUME pipeline \in Pipelines
  PROVE  /\ List = ListAt(graphNo)
         /\ DOMAIN Graph \subseteq Names
         /\ \A n : Following(n) \in SUBSET Names
         /\ \A n \in DOMAIN Graph : Following(n) = Graph[n]
         /\ \A n : Following(n) # {} => n \in DOMAIN Graph
<1>1. List = ListAt(graphNo)
  BY DEF List, ListAt
<1>2. PICK D : Documents(D) /\ List \in Seq(D)
  BY <1>1, ListDocuments
<1>3. Graph \in [NamesOf(List) -> SUBSET Names] /\ NamesOf(List) \subseteq Names
  BY <1>2, GraphEntry DEF Graph
<1>4. DOMAIN Graph \subseteq Names /\ \A n \in DOMAIN Graph : Graph[n] \in SUBSET Names
  BY <1>3
<1> HIDE DEF Graph
<1> QED BY <1>1, <1>4 DEF Following

-----------------------------------------------------------------------------
(* The search.                                                             *)

\* Marking a node changes what is known of it alone.
LEMMA MarkIs ==
  ASSUME NEW node, NEW s, state' = Mark(node, s)
  PROVE  \A n : StateOf(n)' = IF n = node THEN s ELSE StateOf(n)
BY DEF Mark, StateOf

\* A step within the search of one graph.
LEMMA SameGraph ==
  ASSUME UNCHANGED <<pipeline, graphNo>>
  PROVE  /\ UNCHANGED Graph
         /\ \A n : Following(n)' = Following(n)
         /\ \A C : Tangled(C)' <=> Tangled(C)
         /\ \A g : ListAt(g)' = ListAt(g)
<1>1. UNCHANGED Graph
  BY DEF Graph, List, Stages
<1>2. \A g : ListAt(g)' = ListAt(g)
  BY DEF ListAt, Stages
<1> QED BY <1>1, <1>2 DEF Following, Tangled

\* Such a step finds no problem.
LEMMA SameProblems ==
  ASSUME ProblemsOK, UNCHANGED <<pipeline, graphNo, problems, verdict>> PROVE ProblemsOK'
BY SameGraph DEF ProblemsOK

\* A frame put before the others.
LEMMA Pushed ==
  ASSUME NEW t \in Seq(Frames), NEW fr \in Frames
  PROVE  /\ <<fr>> \o t \in Seq(Frames)
         /\ DOMAIN (<<fr>> \o t) = 1..Len(t) + 1
         /\ (<<fr>> \o t)[1] = fr
         /\ \A i \in DOMAIN t : (<<fr>> \o t)[i + 1] = t[i]
OBVIOUS

\* visit of a node that was not seen yet, from the loop over all nodes or from
\* the visit of a node that needs it.
LEMMA VisitStep ==
  ASSUME PlanInv, NEW node \in Names, Visit(node), trail # << >> => node \in Head(trail).todo
  PROVE  PlanInv'
<1>1. /\ StateOf(node) = "unseen" /\ state' = Mark(node, "visiting")
      /\ UNCHANGED <<pipeline, graphNo, problems, verdict>>
  BY DEF Visit, Entered
<1>2. PICK fr : fr = [node |-> node, todo |-> Following(node)]
  OBVIOUS
<1>3. fr \in Frames /\ fr.node = node /\ fr.todo = Following(node)
  BY <1>2, GraphIs DEF Frames, PlanInv, PlanTypeOK
<1>4. PICK u : u = trail'
  OBVIOUS
<1>5. /\ u \in Seq(Frames) /\ DOMAIN u = 1..Len(trail) + 1 /\ u[1] = fr
      /\ \A i \in DOMAIN trail : u[i + 1] = trail[i]
      /\ DOMAIN trail = 1..Len(trail) /\ Len(trail) \in Nat
  BY <1>2, <1>3, <1>4, Pushed DEF Visit, PlanInv, PlanTypeOK
<1>6. \A n : StateOf(n)' = IF n = node THEN "visiting" ELSE StateOf(n)
  BY <1>1, MarkIs
<1>7. PlanTypeOK' /\ ProblemsOK'
  BY <1>1, <1>4, <1>5, SameProblems DEF PlanInv, PlanTypeOK
<1>8. \A n : Following(n)' = Following(n)
  BY <1>1, SameGraph
<1>9. \A i \in DOMAIN trail : trail[i].node # node
  BY <1>1 DEF PlanInv, TrailOK
<1>10. ASSUME NEW i \in DOMAIN u
      PROVE  /\ StateOf(u[i].node)' = "visiting"
             /\ u[i].todo \subseteq Following(u[i].node)'
             /\ \A n \in Following(u[i].node)' \ u[i].todo : StateOf(n)' = "visited"
             /\ \A k \in DOMAIN u : u[i].node = u[k].node => i = k
             /\ i + 1 \in DOMAIN u => u[i].node \in u[i + 1].todo
  <2>1. \A k \in DOMAIN u : k = 1 \/ (k - 1 \in DOMAIN trail /\ u[k] = trail[k - 1])
    BY <1>5
  <2>2. CASE i = 1
    <3>1. \A k \in DOMAIN u : u[i].node = u[k].node => i = k
      BY <1>3, <1>5, <1>9, <2>1, <2>2
    <3>2. i + 1 \in DOMAIN u => u[i].node \in u[i + 1].todo
      <4>1. i + 1 \in DOMAIN u => trail # << >> /\ 1 \in DOMAIN trail /\ Head(trail) = trail[1]
        BY <1>5, <2>2 DEF PlanInv, PlanTypeOK
      <4> QED BY <1>3, <1>5, <2>2, <4>1
    <3> QED BY <1>3, <1>5, <1>6, <1>8, <2>2, <3>1, <3>2
  <2>3. CASE i # 1
    <3>1. PICK q \in DOMAIN trail : q = i - 1 /\ u[i] = trail[q] /\ q \in Nat /\ i \in Nat
      BY <1>5, <2>1, <2>3
    <3>2. /\ StateOf(trail[q].node) = "visiting"
          /\ trail[q].todo \subseteq Following(trail[q].node)
          /\ \A n \in Following(trail[q].node) \ trail[q].todo : StateOf(n) = "visited"
          /\ \A k \in DOMAIN trail : trail[q].node = trail[k].node => q = k
          /\ q + 1 \in DOMAIN trail => trail[q].node \in trail[q + 1].todo
      BY DEF PlanInv, TrailOK
    <3>3. ASSUME NEW k \in DOMAIN u, u[i].node = u[k].node PROVE i = k
      <4>1. k # 1
        BY <1>3, <1>5, <1>9, <3>1, <3>3
      <4>2. k - 1 \in DOMAIN trail /\ u[k] = trail[k - 1] /\ k \in Nat
        BY <1>5, <2>1, <4>1
      <4>3. q = k - 1
        BY <3>1, <3>2, <3>3, <4>2
      <4> QED BY <3>1, <4>2, <4>3
    <3>4. i + 1 \in DOMAIN u => q + 1 \in DOMAIN trail /\ u[i + 1] = trail[q + 1]
      BY <1>5, <3>1
    <3> QED BY <1>1, <1>6, <1>8, <3>1, <3>2, <3>3, <3>4
  <2> QED BY <2>2, <2>3
<1>11. ASSUME NEW n \in Names, StateOf(n)' = "visiting" PROVE \E i \in DOMAIN u : u[i].node = n
  <2>1. CASE n = node
    BY <1>3, <1>5, <2>1
  <2>2. CASE n # node
    <3>1. PICK q \in DOMAIN trail : trail[q].node = n
      BY <1>6, <1>11, <2>2 DEF PlanInv, TrailOK
    <3>2. q + 1 \in DOMAIN u /\ u[q + 1] = trail[q]
      BY <1>5
    <3> QED BY <3>1, <3>2
  <2> QED BY <2>1, <2>2
<1>12. TrailOK'
  BY <1>4, <1>10, <1>11 DEF TrailOK
<1>13. VisitedOK'
  BY <1>1, <1>6, SameGraph DEF PlanInv, VisitedOK
<1> QED BY <1>7, <1>12, <1>13 DEF PlanInv

\* A dependency that is visited is passed over.
LEMMA PassStep ==
  ASSUME PlanInv, NEW node \in Names, trail # << >>, StateOf(node) = "visited",
         trail' = [trail EXCEPT ![1].todo = @ \ {node}],
         UNCHANGED <<pipeline, graphNo, state, problems, verdict>>
  PROVE  PlanInv'
<1>1. PICK u : u = trail'
  OBVIOUS
<1>2. trail \in Seq(Frames) /\ 1 \in DOMAIN trail
  BY DEF PlanInv, PlanTypeOK
<1>3. /\ u \in Seq(Frames) /\ DOMAIN u = DOMAIN trail
      /\ \A i \in DOMAIN trail : u[i].node = trail[i].node
      /\ u[1].todo = trail[1].todo \ {node}
      /\ \A i \in DOMAIN trail : i # 1 => u[i] = trail[i]
  <2>1. PICK f : f = [trail[1] EXCEPT !.todo = @ \ {node}]
    OBVIOUS
  <2>2. trail[1] \in Frames
    BY <1>2
  <2>3. f \in Frames /\ f.node = trail[1].node /\ f.todo = trail[1].todo \ {node}
    BY <2>1, <2>2 DEF Frames
  <2>4. u = [trail EXCEPT ![1] = f]
    BY <1>1, <2>1
  <2> QED BY <1>2, <2>3, <2>4
<1>4. \A n : StateOf(n)' = StateOf(n)
  BY DEF StateOf
<1>5. \A n : Following(n)' = Following(n)
  BY SameGraph
<1>6. PlanTypeOK' /\ ProblemsOK'
  BY <1>1, <1>3, SameProblems DEF PlanInv, PlanTypeOK
<1>7. ASSUME NEW i \in DOMAIN u
      PROVE  /\ StateOf(u[i].node)' = "visiting"
             /\ u[i].todo \subseteq Following(u[i].node)'
             /\ \A n \in Following(u[i].node)' \ u[i].todo : StateOf(n)' = "visited"
             /\ \A k \in DOMAIN u : u[i].node = u[k].node => i = k
             /\ i + 1 \in DOMAIN u => u[i].node \in u[i + 1].todo
  <2>1. /\ StateOf(trail[i].node) = "visiting"
        /\ trail[i].todo \subseteq Following(trail[i].node)
        /\ \A n \in Following(trail[i].node) \ trail[i].todo : StateOf(n) = "visited"
        /\ \A k \in DOMAIN trail : trail[i].node = trail[k].node => i = k
        /\ i + 1 \in DOMAIN trail => trail[i].node \in trail[i + 1].todo
    BY <1>3 DEF PlanInv, TrailOK
  <2>2. u[i].node = trail[i].node /\ (u[i].todo = trail[i].todo \/ u[i].todo = trail[i].todo \ {node})
    BY <1>3
  <2>3. i + 1 \in DOMAIN u => u[i + 1] = trail[i + 1]
    <3>1. i \in 1..Len(trail)
      BY <1>2, <1>3
    <3> QED BY <1>3, <3>1
  <2> QED BY <1>3, <1>4, <1>5, <2>1, <2>2, <2>3
<1>8. ASSUME NEW n \in Names, StateOf(n)' = "visiting" PROVE \E i \in DOMAIN u : u[i].node = n
  BY <1>3, <1>4, <1>8 DEF PlanInv, TrailOK
<1>9. TrailOK'
  BY <1>1, <1>7, <1>8 DEF TrailOK
<1>10. VisitedOK'
  BY <1>4, SameGraph DEF PlanInv, VisitedOK
<1> QED BY <1>6, <1>9, <1>10 DEF PlanInv

\* A visit returns when everything its node needs is visited, so the node is
\* in no tangled set.
LEMMA ReturnStep ==
  ASSUME PlanInv, Return PROVE PlanInv'
<1>1. /\ trail # << >> /\ Head(trail).todo = {} /\ state' = Mark(Head(trail).node, "visited")
      /\ trail' = Tail(trail)
      /\ UNCHANGED <<pipeline, graphNo, problems, verdict>>
  BY DEF Return
<1>2. PICK u, node : u = trail' /\ node = Head(trail).node
  OBVIOUS
<1>3. /\ trail \in Seq(Frames) /\ DOMAIN trail = 1..Len(trail) /\ Len(trail) \in Nat
      /\ 1 \in DOMAIN trail /\ Head(trail) = trail[1]
  BY <1>1 DEF PlanInv, PlanTypeOK
<1>4. /\ u \in Seq(Frames) /\ DOMAIN u = 1..Len(trail) - 1
      /\ \A i \in DOMAIN u : i + 1 \in DOMAIN trail /\ u[i] = trail[i + 1] /\ i \in Nat
  BY <1>1, <1>2, <1>3
<1>5. \A n : StateOf(n)' = IF n = node THEN "visited" ELSE StateOf(n)
  BY <1>1, <1>2, MarkIs
<1>6. \A n : Following(n)' = Following(n)
  BY <1>1, SameGraph
<1>7. PlanTypeOK' /\ ProblemsOK'
  BY <1>1, <1>2, <1>4, SameProblems DEF PlanInv, PlanTypeOK
<1>8. \A q \in DOMAIN trail : trail[q].node = node => q = 1
  BY <1>2, <1>3 DEF PlanInv, TrailOK
<1>9. ASSUME NEW i \in DOMAIN u
      PROVE  /\ StateOf(u[i].node)' = "visiting"
             /\ u[i].todo \subseteq Following(u[i].node)'
             /\ \A n \in Following(u[i].node)' \ u[i].todo : StateOf(n)' = "visited"
             /\ \A k \in DOMAIN u : u[i].node = u[k].node => i = k
             /\ i + 1 \in DOMAIN u => u[i].node \in u[i + 1].todo
  <2>1. PICK q \in DOMAIN trail : q = i + 1 /\ u[i] = trail[q] /\ q \in Nat /\ i \in Nat /\ q # 1
    BY <1>4
  <2>2. /\ StateOf(trail[q].node) = "visiting"
        /\ trail[q].todo \subseteq Following(trail[q].node)
        /\ \A n \in Following(trail[q].node) \ trail[q].todo : StateOf(n) = "visited"
        /\ \A k \in DOMAIN trail : trail[q].node = trail[k].node => q = k
        /\ q + 1 \in DOMAIN trail => trail[q].node \in trail[q + 1].todo
    BY DEF PlanInv, TrailOK
  <2>3. u[i].node # node
    BY <1>8, <2>1
  <2>4. \A k \in DOMAIN u : u[i].node = u[k].node => i = k
    BY <1>4, <2>1, <2>2
  <2>5. i + 1 \in DOMAIN u => q + 1 \in DOMAIN trail /\ u[i + 1] = trail[q + 1]
    BY <1>4, <2>1
  <2> QED BY <1>5, <1>6, <2>1, <2>2, <2>3, <2>4, <2>5
<1>10. ASSUME NEW n \in Names, StateOf(n)' = "visiting" PROVE \E i \in DOMAIN u : u[i].node = n
  <2>1. StateOf(n) = "visiting" /\ n # node
    BY <1>5, <1>10
  <2>2. PICK q \in DOMAIN trail : trail[q].node = n
    BY <2>1 DEF PlanInv, TrailOK
  <2>3. q # 1
    BY <1>2, <1>3, <2>1, <2>2
  <2>4. q - 1 \in DOMAIN u /\ (q - 1) + 1 = q
    BY <1>3, <1>4, <2>3
  <2> QED BY <1>4, <2>2, <2>4
<1>11. TrailOK'
  BY <1>2, <1>9, <1>10 DEF TrailOK
<1>12. VisitedOK'
  <2> SUFFICES ASSUME NEW C \in SUBSET DOMAIN Graph, Tangled(C), node \in C PROVE FALSE
    BY <1>1, <1>5, SameGraph DEF PlanInv, VisitedOK
  <2>1. PICK n \in C : n \in Graph[node]
    BY DEF Tangled
  <2>2. n \in Following(node)
    BY <2>1, GraphIs DEF PlanInv, PlanTypeOK
  <2>3. StateOf(n) = "visited"
    BY <1>1, <1>2, <1>3, <2>2 DEF PlanInv, TrailOK
  <2> QED BY <2>3 DEF PlanInv, VisitedOK
<1> QED BY <1>7, <1>11, <1>12 DEF PlanInv

\* The search meets a node it is visiting only if there is a cycle: the trail
\* up to that node is tangled.
LEMMA CycleFound ==
  ASSUME PlanInv, Cyclic PROVE ~WellOrdered(Graph)
<1>1. trail \in Seq(Frames) /\ trail # << >> /\ 1 \in DOMAIN trail /\ Head(trail) = trail[1]
  BY DEF PlanInv, PlanTypeOK, Cyclic
<1>2. PICK node \in trail[1].todo : StateOf(node) = "visiting"
  BY <1>1 DEF Cyclic
<1>3. node \in Names
  <2>1. trail[1] \in Frames
    BY <1>1
  <2>2. trail[1].todo \in SUBSET Names
    BY <2>1 DEF Frames
  <2> QED BY <1>2, <2>2
<1>4. PICK k \in DOMAIN trail : trail[k].node = node
  BY <1>2, <1>3 DEF PlanInv, TrailOK
<1>5. DOMAIN trail = 1..Len(trail) /\ Len(trail) \in Nat /\ k \in Nat
  BY <1>1
<1> DEFINE C == {trail[i].node : i \in 1..k}
<1>6. ASSUME NEW n \in C PROVE n \in DOMAIN Graph /\ Graph[n] \cap C # {}
  <2>1. PICK i \in 1..k : n = trail[i].node
    OBVIOUS
  <2>2. i \in DOMAIN trail /\ trail[i].todo \subseteq Following(n)
    BY <1>5, <2>1 DEF PlanInv, TrailOK
  <2>3. \E m \in C : m \in trail[i].todo
    <3>1. CASE i = 1
      <4>1. node \in C
        BY <1>4, <1>5
      <4> QED BY <1>2, <3>1, <4>1
    <3>2. CASE i # 1
      <4>1. i - 1 \in 1..k /\ i - 1 \in DOMAIN trail /\ (i - 1) + 1 = i
        BY <1>5, <2>1, <3>2
      <4>2. trail[i - 1].node \in trail[i].todo
        BY <2>2, <4>1 DEF PlanInv, TrailOK
      <4> QED BY <4>1, <4>2
    <3> QED BY <3>1, <3>2
  <2>4. PICK m \in C : m \in Following(n)
    BY <2>2, <2>3
  <2>5. n \in DOMAIN Graph /\ Following(n) = Graph[n]
    BY <2>4, GraphIs DEF PlanInv, PlanTypeOK
  <2> QED BY <2>4, <2>5
<1>7. C # {}
  <2>1. 1 \in 1..k
    BY <1>4, <1>5
  <2>2. trail[1].node \in C
    BY <2>1
  <2> QED BY <2>2
<1> HIDE DEF C
<1> QED BY <1>6, <1>7 DEF WellOrdered

\* When every node is visited there is no cycle.
LEMMA NoCycle ==
  ASSUME PlanInv, Exhausted PROVE WellOrdered(Graph)
<1> SUFFICES ASSUME NEW C \in SUBSET DOMAIN Graph, C # {}, \A n \in C : Graph[n] \cap C # {}
             PROVE  FALSE
  BY DEF WellOrdered
<1> QED BY DEF PlanInv, VisitedOK, Tangled, Exhausted

\* The search of a graph ends with the right verdict on it.
LEMMA NextGraphStep ==
  ASSUME PlanInv, NextGraph PROVE PlanInv'
<1>1. /\ verdict = "open" /\ graphNo \in 1..Len(pipeline.stages) + 1 /\ (Cyclic \/ Exhausted)
      /\ problems' = (problems \/ Cyclic \/ PlainProblem(List))
      /\ graphNo' = graphNo + 1 /\ state' = << >> /\ trail' = << >>
      /\ UNCHANGED <<pipeline, verdict>>
  BY DEF NextGraph, Searching
<1>2. pipeline.stages \in Seq(StageDocs) /\ Len(pipeline.stages) \in Nat
  BY PipelinesAssumption DEF PlanInv, PlanTypeOK
<1>3. PlanTypeOK'
  <2>1. << >> \in Seq(Frames)
    OBVIOUS
  <2> QED BY <1>1, <1>2, <2>1 DEF PlanInv, PlanTypeOK
<1>4. TrailOK' /\ VisitedOK'
  <2>1. DOMAIN << >> = {}
    OBVIOUS
  <2>2. \A n : StateOf(n)' = "unseen"
    BY <1>1, <2>1 DEF StateOf
  <2> QED BY <1>1, <2>1, <2>2 DEF TrailOK, VisitedOK
<1>5. List = ListAt(graphNo) /\ Graph = GraphOf(ListAt(graphNo))
  BY GraphIs DEF PlanInv, PlanTypeOK, Graph
<1>6. \A g : ListAt(g)' = ListAt(g)
  BY <1>1 DEF ListAt, Stages
<1>7. ASSUME ~problems'
      PROVE  /\ pipeline.fields
             /\ \A g \in 1..graphNo : ~PlainProblem(ListAt(g)) /\ WellOrdered(GraphOf(ListAt(g)))
  <2>1. ~problems /\ ~Cyclic /\ ~PlainProblem(ListAt(graphNo))
    BY <1>1, <1>5, <1>7
  <2>2. WellOrdered(GraphOf(ListAt(graphNo)))
    BY <1>1, <1>5, <2>1, NoCycle
  <2>3. /\ pipeline.fields
        /\ \A g \in 1..graphNo - 1 : ~PlainProblem(ListAt(g)) /\ WellOrdered(GraphOf(ListAt(g)))
    BY <2>1 DEF PlanInv, ProblemsOK
  <2>4. \A g \in 1..graphNo : g = graphNo \/ g \in 1..graphNo - 1
    BY <1>1, <1>2
  <2> QED BY <2>1, <2>2, <2>3, <2>4
<1>8. ASSUME problems'
      PROVE  ~pipeline.fields \/ \E g \in 1..Len(pipeline.stages) + 1 : Refused(ListAt(g))
  <2>1. CASE problems
    BY <2>1 DEF PlanInv, ProblemsOK
  <2>2. CASE Cyclic
    <3>1. Refused(ListAt(graphNo))
      BY <1>5, <2>2, CycleFound DEF Refused
    <3> QED BY <1>1, <3>1
  <2>3. CASE PlainProblem(List)
    <3>1. PICK D : Documents(D) /\ ListAt(graphNo) \in Seq(D)
      BY ListDocuments DEF PlanInv, PlanTypeOK
    <3>2. Refused(ListAt(graphNo))
      BY <1>5, <2>3, <3>1, PlainRefused
    <3> QED BY <1>1, <3>2
  <2> QED BY <1>1, <1>8, <2>1, <2>2, <2>3
<1>9. ProblemsOK'
  <2>1. graphNo' - 1 = graphNo
    BY <1>1, <1>2
  <2> QED BY <1>1, <1>6, <1>7, <1>8, <2>1 DEF ProblemsOK
<1> QED BY <1>3, <1>4, <1>9 DEF PlanInv

\* The verdict is that of the searches.
LEMMA CompileStep ==
  ASSUME PlanInv, Compile PROVE PlanInv'
<1>1. /\ graphNo = Len(pipeline.stages) + 2
      /\ verdict' = IF problems THEN "invalid" ELSE "compiled"
      /\ UNCHANGED <<pipeline, graphNo, state, trail, problems>>
  BY DEF Compile
<1>2. PlanTypeOK' /\ TrailOK' /\ VisitedOK'
  <2>1. \A n : StateOf(n)' = StateOf(n)
    BY <1>1 DEF StateOf
  <2> QED BY <1>1, <2>1, SameGraph DEF PlanInv, PlanTypeOK, TrailOK, VisitedOK
<1>3. ProblemsOK'
  BY <1>1, SameGraph DEF PlanInv, ProblemsOK
<1> QED BY <1>2, <1>3 DEF PlanInv

\* Nothing is searched at first, and the fields alone are checked.
LEMMA PlanInitInv == PlanInit => PlanInv
<1> SUFFICES ASSUME PlanInit PROVE PlanInv
  OBVIOUS
<1>1. /\ pipeline \in Pipelines /\ graphNo = 1 /\ state = << >> /\ trail = << >>
      /\ problems = ~pipeline.fields /\ verdict = "open"
  BY DEF PlanInit, FieldProblem
<1>2. Len(pipeline.stages) \in Nat
  BY <1>1, PipelinesAssumption
<1>3. PlanTypeOK
  <2>1. << >> \in Seq(Frames)
    OBVIOUS
  <2> QED BY <1>1, <1>2, <2>1 DEF PlanTypeOK
<1>4. TrailOK /\ VisitedOK
  <2>1. DOMAIN << >> = {}
    OBVIOUS
  <2>2. \A n : StateOf(n) = "unseen"
    BY <1>1, <2>1 DEF StateOf
  <2> QED BY <1>1, <2>1, <2>2 DEF TrailOK, VisitedOK
<1>5. ProblemsOK
  <2>1. 1..graphNo - 1 = {}
    BY <1>1
  <2> QED BY <1>1, <2>1 DEF ProblemsOK
<1> QED BY <1>3, <1>4, <1>5 DEF PlanInv

\* Every step of the search keeps the invariant.
LEMMA PlanStep == PlanInv /\ [PlanNext]_planVars => PlanInv'
<1> SUFFICES ASSUME PlanInv, [PlanNext]_planVars PROVE PlanInv'
  OBVIOUS
<1>1. CASE UNCHANGED planVars
  <2>1. UNCHANGED <<pipeline, graphNo, state, trail, problems, verdict>>
    BY <1>1 DEF planVars
  <2>2. \A n : StateOf(n)' = StateOf(n)
    BY <2>1 DEF StateOf
  <2>3. PlanTypeOK' /\ TrailOK' /\ VisitedOK'
    BY <2>1, <2>2, SameGraph DEF PlanInv, PlanTypeOK, TrailOK, VisitedOK
  <2> QED BY <2>1, <2>3, SameProblems DEF PlanInv
<1>2. ASSUME NEW node, Root(node) PROVE PlanInv'
  <2>1. trail = << >> /\ node \in DOMAIN Graph /\ Visit(node)
    BY <1>2 DEF Root
  <2>2. node \in Names
    BY <2>1, GraphIs DEF PlanInv, PlanTypeOK
  <2> QED BY <2>1, <2>2, VisitStep
<1>3. ASSUME NEW node, Follow(node) PROVE PlanInv'
  <2>1. trail # << >> /\ node \in Head(trail).todo
    BY <1>3 DEF Follow
  <2>2. node \in Names
    <3>1. Head(trail) \in Frames
      BY <2>1 DEF PlanInv, PlanTypeOK
    <3>2. Head(trail).todo \in SUBSET Names
      BY <3>1 DEF Frames
    <3> QED BY <2>1, <3>2
  <2>3. CASE Visit(node)
    BY <2>1, <2>2, <2>3, VisitStep
  <2>4. CASE ~Visit(node)
    <3>1. /\ StateOf(node) = "visited" /\ trail' = [trail EXCEPT ![1].todo = @ \ {node}]
          /\ UNCHANGED <<pipeline, graphNo, state, problems, verdict>>
      BY <1>3, <2>4 DEF Follow
    <3> QED BY <2>1, <2>2, <3>1, PassStep
  <2> QED BY <2>3, <2>4
<1>4. CASE Return
  BY <1>4, ReturnStep
<1>5. CASE NextGraph
  BY <1>5, NextGraphStep
<1>6. CASE Compile
  BY <1>6, CompileStep
<1> QED BY <1>1, <1>2, <1>3, <1>4, <1>5, <1>6 DEF PlanNext

\* The invariant of the search holds in every reachable state.
THEOREM PlanInvariance == PlanSpec => []PlanInv
BY PlanInitInv, PlanStep, PTL DEF PlanSpec

-----------------------------------------------------------------------------
(* The rows of a compiled pipeline.                                        *)

\* What is known of a list of a compiled pipeline.
Sound(list) ==
  /\ Len(list) # 0 /\ Cardinality(NamesOf(list)) = Len(list)
  /\ DOMAIN GraphOf(list) = NamesOf(list)
  /\ \A i, j \in DOMAIN list : list[i].name = list[j].name => i = j
  /\ \A i \in DOMAIN list : list[i].name \in NamesOf(list) /\ GraphOf(list)[list[i].name] = list[i].needs
  /\ \A n \in NamesOf(list) : GraphOf(list)[n] \subseteq NamesOf(list)
  /\ WellOrdered(GraphOf(list))

\* Every list of a compiled pipeline was searched and found in order.
LEMMA CompiledLists ==
  ASSUME PlanInv, verdict = "compiled"
  PROVE  /\ pipeline.fields /\ Sound(pipeline.stages)
         /\ \A i \in Stages : Sound(pipeline.stages[i].jobs)
<1>1. pipeline.stages \in Seq(StageDocs) /\ Len(pipeline.stages) \in Nat /\ Stages = 1..Len(pipeline.stages)
  BY PipelinesAssumption DEF PlanInv, PlanTypeOK, Stages
<1>2. /\ pipeline.fields
      /\ \A g \in 1..Len(pipeline.stages) + 1 : ~PlainProblem(ListAt(g)) /\ WellOrdered(GraphOf(ListAt(g)))
  <2>1. graphNo - 1 = Len(pipeline.stages) + 1
    BY <1>1 DEF PlanInv, ProblemsOK
  <2> QED BY <2>1 DEF PlanInv, ProblemsOK
<1>3. ASSUME NEW g \in 1..Len(pipeline.stages) + 1 PROVE Sound(ListAt(g))
  <2>1. PICK list : list = ListAt(g)
    OBVIOUS
  <2>2. PICK D : Documents(D) /\ list \in Seq(D)
    BY <2>1, ListDocuments DEF PlanInv, PlanTypeOK
  <2>3. /\ Len(list) # 0 /\ Cardinality(NamesOf(list)) = Len(list)
        /\ \A n \in NamesOf(list) : GraphOf(list)[n] \subseteq NamesOf(list)
        /\ WellOrdered(GraphOf(list))
    BY <1>2, <2>1 DEF PlainProblem
  <2>4. /\ \A i, j \in DOMAIN list : list[i].name = list[j].name => i = j
        /\ \A i \in DOMAIN list : GraphOf(list)[list[i].name] = list[i].needs
    BY <2>2, <2>3, DistinctEntries
  <2>5. \A i \in DOMAIN list : list[i].name \in NamesOf(list)
    BY DEF NamesOf
  <2>6. DOMAIN GraphOf(list) = NamesOf(list)
    BY DEF GraphOf
  <2> QED BY <2>1, <2>3, <2>4, <2>5, <2>6 DEF Sound
<1>4. Len(pipeline.stages) + 1 \notin Stages /\ Stages \subseteq 1..Len(pipeline.stages) + 1
  BY <1>1
<1>5. ListAt(Len(pipeline.stages) + 1) = pipeline.stages /\ Len(pipeline.stages) + 1 \in 1..Len(pipeline.stages) + 1
  BY <1>1, <1>4 DEF ListAt
<1>6. \A i \in Stages : ListAt(i) = pipeline.stages[i].jobs
  BY DEF ListAt
<1> QED BY <1>2, <1>3, <1>4, <1>5, <1>6

\* The rows of one stage: a job waits for all jobs of the stages its stage
\* needs and for the jobs it names.
LEMMA RowIs ==
  ASSUME Sound(pipeline.stages), NEW i \in Stages, NEW n \in NamesOf(pipeline.stages[i].jobs),
         NEW s, s = pipeline.stages[i].name
  PROVE  /\ <<s, n>> \in JobKeys
         /\ Dependencies(<<s, n>>) =
              {k \in JobKeys : k[1] \in pipeline.stages[i].needs}
                \cup {<<s, m>> : m \in GraphOf(pipeline.stages[i].jobs)[n]}
<1>1. <<s, n>> \in JobKeys
  BY DEF JobKeys
<1>2. PICK c : c = CHOOSE j \in Stages : pipeline.stages[j].name = <<s, n>>[1]
  OBVIOUS
<1>3. c \in Stages /\ pipeline.stages[c].name = s
  BY <1>2
<1>4. c = i
  BY <1>3 DEF Sound, Stages
<1> QED BY <1>1, <1>2, <1>4 DEF Dependencies

\* A row is that of a job of a stage.
LEMMA KeyIs ==
  ASSUME NEW k \in JobKeys
  PROVE  \E i \in Stages : \E n \in NamesOf(pipeline.stages[i].jobs) : k = <<pipeline.stages[i].name, n>>
BY DEF JobKeys

\* Rows name rows.
LEMMA RowsKnown ==
  ASSUME Sound(pipeline.stages), \A i \in Stages : Sound(pipeline.stages[i].jobs), NEW k \in JobKeys
  PROVE  Dependencies(k) \subseteq JobKeys
<1>1. PICK i, n : i \in Stages /\ n \in NamesOf(pipeline.stages[i].jobs) /\ k = <<pipeline.stages[i].name, n>>
  BY KeyIs
<1>2. \A m \in GraphOf(pipeline.stages[i].jobs)[n] : <<pipeline.stages[i].name, m>> \in JobKeys
  <2>1. GraphOf(pipeline.stages[i].jobs)[n] \subseteq NamesOf(pipeline.stages[i].jobs)
    BY <1>1 DEF Sound
  <2> QED BY <1>1, <2>1, RowIs
<1>3. Dependencies(k) = {x \in JobKeys : x[1] \in pipeline.stages[i].needs}
                          \cup {<<pipeline.stages[i].name, m>> : m \in GraphOf(pipeline.stages[i].jobs)[n]}
  BY <1>1, RowIs
<1> QED BY <1>2, <1>3

\* The rows can be executed: in a set of rows take a stage that needs no other
\* stage of the set, and of its jobs one that needs no other of them.
LEMMA RowsOrdered ==
  ASSUME Sound(pipeline.stages), \A i \in Stages : Sound(pipeline.stages[i].jobs)
  PROVE  WellOrdered([k \in JobKeys |-> Dependencies(k)])
<1> SUFFICES ASSUME NEW C \in SUBSET JobKeys, C # {}
             PROVE  \E k \in C : Dependencies(k) \cap C = {}
  BY DEF WellOrdered
<1> DEFINE D == {k[1] : k \in C}
<1>1. PICK s \in D : GraphOf(pipeline.stages)[s] \cap D = {}
  <2>1. D # {}
    OBVIOUS
  <2>2. D \subseteq NamesOf(pipeline.stages)
    <3> SUFFICES ASSUME NEW k \in C PROVE k[1] \in NamesOf(pipeline.stages)
      OBVIOUS
    <3>1. PICK i, n : i \in Stages /\ n \in NamesOf(pipeline.stages[i].jobs) /\ k = <<pipeline.stages[i].name, n>>
      BY KeyIs
    <3> QED BY <3>1 DEF NamesOf, Stages
  <2> HIDE DEF D
  <2> QED BY <2>1, <2>2 DEF Sound, WellOrdered
<1>2. PICK k \in C : k[1] = s
  OBVIOUS
<1>3. PICK i, n : i \in Stages /\ n \in NamesOf(pipeline.stages[i].jobs) /\ k = <<pipeline.stages[i].name, n>>
  BY KeyIs
<1>4. pipeline.stages[i].name = s /\ GraphOf(pipeline.stages)[s] = pipeline.stages[i].needs
  BY <1>2, <1>3 DEF Sound, Stages
<1>5. PICK J : J = pipeline.stages[i].jobs
  OBVIOUS
<1> DEFINE E == {m \in NamesOf(J) : <<s, m>> \in C}
<1>6. PICK e \in E : GraphOf(J)[e] \cap E = {}
  <2>1. n \in E
    BY <1>3, <1>4, <1>5
  <2>2. E \subseteq NamesOf(J)
    OBVIOUS
  <2> HIDE DEF E
  <2> QED BY <1>3, <1>5, <2>1, <2>2 DEF Sound, WellOrdered
<1>7. <<s, e>> \in C /\ e \in NamesOf(J) /\ GraphOf(J)[e] \subseteq NamesOf(J)
  BY <1>3, <1>5, <1>6 DEF Sound
<1>8. Dependencies(<<s, e>>) = {x \in JobKeys : x[1] \in GraphOf(pipeline.stages)[s]}
                                 \cup {<<s, m>> : m \in GraphOf(J)[e]}
  BY <1>3, <1>4, <1>5, <1>7, RowIs
<1>9. ASSUME NEW x \in C, x \in Dependencies(<<s, e>>) PROVE FALSE
  <2>1. CASE x[1] \in GraphOf(pipeline.stages)[s]
    BY <1>1, <2>1
  <2>2. ASSUME NEW m \in GraphOf(J)[e], x = <<s, m>> PROVE FALSE
    BY <1>6, <1>7, <2>2
  <2> QED BY <1>8, <1>9, <2>1, <2>2
<1> QED BY <1>7, <1>9

\* A job comes after all jobs of the stages before its own: in a set that is
\* closed under the rows' dependencies, the stages all of whose jobs are in the
\* set are closed under the stages' dependencies, since every stage has a job.
LEMMA RowsFollowStages ==
  ASSUME Sound(pipeline.stages), \A i \in Stages : Sound(pipeline.stages[i].jobs),
         NEW k \in JobKeys, NEW l \in JobKeys, After(GraphOf(pipeline.stages), k[1], l[1])
  PROVE  After([x \in JobKeys |-> Dependencies(x)], k, l)
<1> SUFFICES ASSUME NEW C \in SUBSET JobKeys, Dependencies(k) \subseteq C,
                    \A x \in C : Dependencies(x) \subseteq C
             PROVE  l \in C
  BY DEF After
<1> DEFINE D == {s \in NamesOf(pipeline.stages) : \A x \in JobKeys : x[1] = s => x \in C}
<1>1. ASSUME NEW x \in JobKeys, Dependencies(x) \subseteq C PROVE GraphOf(pipeline.stages)[x[1]] \subseteq D
  <2>1. PICK i, n : i \in Stages /\ n \in NamesOf(pipeline.stages[i].jobs) /\ x = <<pipeline.stages[i].name, n>>
    BY KeyIs
  <2>2. /\ x[1] = pipeline.stages[i].name /\ x[1] \in NamesOf(pipeline.stages)
        /\ GraphOf(pipeline.stages)[x[1]] = pipeline.stages[i].needs
        /\ GraphOf(pipeline.stages)[x[1]] \subseteq NamesOf(pipeline.stages)
    BY <2>1 DEF Sound, Stages
  <2>3. {y \in JobKeys : y[1] \in pipeline.stages[i].needs} \subseteq C
    BY <1>1, <2>1, RowIs
  <2> QED BY <2>2, <2>3
<1>2. ASSUME NEW s \in D PROVE GraphOf(pipeline.stages)[s] \subseteq D
  <2>1. PICK i \in Stages : s = pipeline.stages[i].name
    BY DEF NamesOf, Stages
  <2>2. PICK n \in NamesOf(pipeline.stages[i].jobs) : TRUE
    <3>1. pipeline.stages[i].jobs # << >> /\ Len(pipeline.stages[i].jobs) # 0
      BY DEF Sound
    <3>2. Cardinality(NamesOf(pipeline.stages[i].jobs)) # 0
      BY <3>1 DEF Sound
    <3> QED BY <3>2, FS_EmptySet
  <2>3. <<s, n>> \in JobKeys
    BY <2>1, RowIs
  <2>4. <<s, n>> \in C
    BY <2>3
  <2> QED BY <1>1, <2>3, <2>4
<1>3. D \subseteq DOMAIN GraphOf(pipeline.stages) /\ GraphOf(pipeline.stages)[k[1]] \subseteq D
  BY <1>1 DEF Sound
<1>4. l[1] \in D
  <2> HIDE DEF D
  <2> QED BY <1>2, <1>3 DEF After
<1> QED BY <1>4

\* For every pipeline and every order of the search: it is compiled exactly if
\* it can be executed, and its rows keep the order of the stages.
THEOREM PlansSound == PlanSpec => []PlanSound
<1>1. PlanInv => PlanSound
  <2> SUFFICES ASSUME PlanInv PROVE PlanSound
    OBVIOUS
  <2> DEFINE lists == {pipeline.stages} \cup {pipeline.stages[i].jobs : i \in Stages}
             rows == [k \in JobKeys |-> Dependencies(k)]
             stages == GraphOf(pipeline.stages)
  <2>1. ASSUME verdict = "compiled"
        PROVE  /\ pipeline.fields
               /\ \A list \in lists : Cardinality(NamesOf(list)) = Len(list)
               /\ \A k \in JobKeys : rows[k] \subseteq JobKeys
               /\ WellOrdered(rows)
               /\ \A k, l \in JobKeys : After(stages, k[1], l[1]) => After(rows, k, l)
    <3>1. /\ pipeline.fields /\ Sound(pipeline.stages)
          /\ \A i \in Stages : Sound(pipeline.stages[i].jobs)
      BY <2>1, CompiledLists
    <3>2. \A list \in lists : Cardinality(NamesOf(list)) = Len(list)
      BY <3>1 DEF Sound
    <3>3. \A k \in JobKeys : rows[k] \subseteq JobKeys
      BY <3>1, RowsKnown
    <3>4. WellOrdered(rows)
      BY <3>1, RowsOrdered
    <3>5. ASSUME NEW k \in JobKeys, NEW l \in JobKeys, After(stages, k[1], l[1]) PROVE After(rows, k, l)
      BY <3>1, <3>5, RowsFollowStages
    <3> QED BY <3>1, <3>2, <3>3, <3>4, <3>5
  <2>2. ASSUME verdict = "invalid" PROVE ~pipeline.fields \/ \E list \in lists : Refused(list)
    <3>1. ~pipeline.fields \/ \E g \in 1..Len(pipeline.stages) + 1 : Refused(ListAt(g))
      BY <2>2 DEF PlanInv, ProblemsOK
    <3>2. \A g : ListAt(g) \in lists
      BY DEF ListAt
    <3> QED BY <3>1, <3>2
  <2> QED BY <2>1, <2>2 DEF PlanSound, Refused
<1> QED BY <1>1, PlanInvariance, PTL

-----------------------------------------------------------------------------
(* The inductive invariant of the filter.                                  *)

\* A piece of the log.
Pieces == [from : Nat, to : Nat, hidden : BOOLEAN]

\* No secret begins at position i, whatever is written later: each differs from
\* the input in a byte that is already there.
Cleared(i) ==
  \A s \in secrets : \E k \in 1..Len(s) : i + k - 1 <= Len(input) /\ s[k] # input[i + k - 1]

\* The types of the filter.
RedactTypeOK ==
  /\ secrets \in SecretSets
  /\ input \in Seq(Bytes)
  /\ retained \in 0..Len(input)
  /\ output \in Seq(Pieces)
  /\ draining \in BOOLEAN /\ closed \in BOOLEAN

\* A byte is copied where no secret begins; a marker stands for a secret, or
\* for the beginning of one behind which nothing can follow.
PieceOK(k) ==
  /\ output[k].from = (IF k = 1 THEN 1 ELSE output[k - 1].to + 1)
  /\ 1 <= output[k].from /\ output[k].from <= output[k].to /\ output[k].to <= Shown
  /\ ~output[k].hidden => output[k].from = output[k].to /\ Cleared(output[k].from)
  /\ output[k].hidden =>
       \/ TextOf(output[k]) \in secrets
       \/ closed /\ retained = 0 /\ k = Len(output) /\ Begins(TextOf(output[k]))

\* The pieces reach to what is kept back, and every position is in one of them.
CoveredOK ==
  /\ Shown = (IF output = << >> THEN 0 ELSE Last(output).to)
  /\ \A i \in 1..Shown : \E k \in DOMAIN output : i \in output[k].from..output[k].to

\* What is kept back while the filter waits is the beginning of a secret.
KeptOK == retained > 0 /\ ~draining => ~closed /\ Begins(Rest)

\* The inductive invariant of the filter.
RedactInv ==
  /\ RedactTypeOK
  /\ \A k \in DOMAIN output : PieceOK(k)
  /\ CoveredOK
  /\ KeptOK

-----------------------------------------------------------------------------
\* A text is a prefix of another if they agree as far as it goes (HasPrefix).
LEMMA PrefixPointwise ==
  ASSUME NEW B, NEW s \in Seq(B), NEW t \in Seq(B)
  PROVE  IsPrefix(s, t) <=> Len(s) <= Len(t) /\ \A k \in 1..Len(s) : s[k] = t[k]
<1>1. ASSUME Len(s) <= Len(t)
      PROVE  /\ SubSeq(s, 1, Len(s)) \in Seq(B) /\ Len(SubSeq(s, 1, Len(s))) = Len(s)
             /\ \A k \in 1..Len(s) : SubSeq(s, 1, Len(s))[k] = s[k]
             /\ SubSeq(t, 1, Len(s)) \in Seq(B) /\ Len(SubSeq(t, 1, Len(s))) = Len(s)
             /\ \A k \in 1..Len(s) : SubSeq(t, 1, Len(s))[k] = t[k]
  BY <1>1
<1>2. ASSUME Len(s) <= Len(t), \A k \in 1..Len(s) : s[k] = t[k]
      PROVE  SubSeq(s, 1, Len(s)) = SubSeq(t, 1, Len(s))
  BY <1>1, <1>2, SeqEqual
<1> QED BY <1>1, <1>2 DEF IsPrefix

\* What is kept back, byte by byte.
LEMMA RestFacts ==
  ASSUME RedactTypeOK
  PROVE  /\ Shown \in Nat /\ Shown + retained = Len(input)
         /\ Rest \in Seq(Bytes) /\ Len(Rest) = retained
         /\ \A k \in 1..retained : Rest[k] = input[Shown + k]
BY DEF RedactTypeOK, Shown, Rest

\* The secrets are texts, none of them empty (newRedactingWriter).
LEMMA SecretFacts ==
  ASSUME RedactTypeOK, NEW s \in secrets
  PROVE  s \in Seq(Bytes) /\ Len(s) \in Nat /\ Len(s) > 0
BY RedactionAssumption DEF RedactTypeOK

\* A piece of the input, byte by byte.
LEMMA TextFacts ==
  ASSUME NEW t \in Seq(Bytes), NEW a \in Nat, NEW b \in Nat, 1 <= a, a <= b, b <= Len(t)
  PROVE  /\ SubSeq(t, a, b) \in Seq(Bytes) /\ Len(SubSeq(t, a, b)) = b - a + 1
         /\ \A k \in 1..b - a + 1 : SubSeq(t, a, b)[k] = t[a + k - 1]
OBVIOUS

-----------------------------------------------------------------------------
(* The steps of the filter.                                                *)

\* A round of drain keeps the invariant if what it makes a piece of is one.
LEMMA ConsumeKeeps ==
  ASSUME RedactInv, draining, retained > 0,
         NEW n \in 1..retained, NEW hidden \in BOOLEAN, Consume(n, hidden),
         ~hidden => n = 1 /\ Cleared(Shown + 1),
         hidden => \/ SubSeq(input, Shown + 1, Shown + n) \in secrets
                   \/ /\ closed /\ n = retained
                      /\ Begins(SubSeq(input, Shown + 1, Shown + n))
  PROVE  RedactInv'
<1> DEFINE p == [from |-> Shown + 1, to |-> Shown + n, hidden |-> hidden]
<1>1. /\ RedactTypeOK /\ CoveredOK
      /\ \A k \in DOMAIN output : PieceOK(k)
  BY DEF RedactInv
<1>2. /\ Shown \in Nat /\ Shown + retained = Len(input) /\ Len(input) \in Nat
      /\ retained \in Nat /\ n \in Nat /\ output \in Seq(Pieces)
  BY <1>1, RestFacts DEF RedactTypeOK
<1>3. /\ output' = Append(output, p) /\ retained' = retained - n
      /\ secrets' = secrets /\ input' = input /\ draining' = draining /\ closed' = closed
  BY DEF Consume
<1>4. Shown' = Shown + n
  BY <1>2, <1>3 DEF Shown
<1>5. p \in Pieces
  BY <1>2 DEF Pieces
<1>6. /\ Len(output') = Len(output) + 1 /\ output'[Len(output) + 1] = p
      /\ \A k \in 1..Len(output) : output'[k] = output[k]
      /\ DOMAIN output' = 1..Len(output) + 1 /\ Len(output) \in Nat
      /\ output' # << >> /\ output' \in Seq(Pieces)
  BY <1>2, <1>3, <1>5
<1>7. RedactTypeOK'
  BY <1>1, <1>2, <1>3, <1>6 DEF RedactTypeOK
<1>8. ASSUME NEW k \in 1..Len(output) PROVE PieceOK(k)'
  <2>1. PieceOK(k) /\ output'[k] = output[k] /\ (k # 1 => output'[k - 1] = output[k - 1])
        /\ output[k] \in Pieces
    BY <1>1, <1>2, <1>6, <1>8
  <2>2. TextOf(output[k])' = TextOf(output[k]) /\ (Cleared(output[k].from) => Cleared(output[k].from)')
    <3>1. TextOf(output[k])' = SubSeq(input', output'[k].from, output'[k].to)
      BY DEF TextOf
    <3> QED BY <1>3, <2>1, <3>1, ZenonT(60) DEF TextOf, Cleared
  <2>3. output[k].hidden => TextOf(output[k]) \in secrets
    BY <2>1, <1>2 DEF PieceOK
  <2>4. /\ (output[k].from = (IF k = 1 THEN 1 ELSE output[k - 1].to + 1))'
        /\ (1 <= output[k].from /\ output[k].from <= output[k].to)'
    BY <2>1 DEF PieceOK
  <2>5. (output[k].to <= Shown)'
    BY <1>2, <1>4, <2>1 DEF PieceOK, Pieces
  <2>6. (~output[k].hidden => output[k].from = output[k].to /\ Cleared(output[k].from))'
    BY <2>1, <2>2 DEF PieceOK
  <2>7. (output[k].hidden => TextOf(output[k]) \in secrets)'
    BY <1>3, <2>1, <2>2, <2>3
  <2> QED BY <2>4, <2>5, <2>6, <2>7 DEF PieceOK
<1>9. ASSUME NEW k \in {Len(output) + 1} PROVE PieceOK(k)'
  <2>1. output # << >> => Len(output) > 0 /\ Last(output) = output[Len(output)]
    BY <1>2 DEF Last
  <2>2. p.from = (IF k = 1 THEN 1 ELSE output'[k - 1].to + 1) /\ output'[k] = p /\ k = Len(output')
    BY <1>1, <1>2, <1>6, <2>1, SMTT(30) DEF CoveredOK
  <2>3. Cleared(Shown + 1) => Cleared(output[k].from)'
    BY <1>3, <2>2 DEF Cleared
  <2>4. TextOf(output[k])' = SubSeq(input, Shown + 1, Shown + n)
    <3>1. TextOf(output[k])' = SubSeq(input', output'[k].from, output'[k].to)
      BY DEF TextOf
    <3> QED BY <1>3, <2>2, <3>1
  <2>5. Begins(SubSeq(input, Shown + 1, Shown + n)) => Begins(TextOf(output[k]))'
    BY <1>3, <2>4 DEF Begins
  <2>6. n = retained => retained' = 0
    BY <1>2, <1>3
  <2>7. 1 <= p.from /\ p.from <= p.to /\ p.to <= Shown'
    BY <1>2, <1>4
  <2>8. ~p.hidden => p.from = p.to
    BY <1>2
  <2>9. (output[k].from = (IF k = 1 THEN 1 ELSE output[k - 1].to + 1))'
    BY <2>2
  <2>10. output'[k].hidden = hidden
    BY <2>2
  <2> HIDE DEF p
  <2> QED BY <1>3, <2>2, <2>3, <2>4, <2>5, <2>6, <2>7, <2>8, <2>9, <2>10 DEF PieceOK
<1>10. CoveredOK'
  <2>1. Last(output)' = p
    BY <1>6 DEF Last
  <2>2. ASSUME NEW i \in 1..Shown' PROVE \E k \in DOMAIN output' : i \in output'[k].from..output'[k].to
    <3>1. CASE i <= Shown
      <4>1. PICK k \in DOMAIN output : i \in output[k].from..output[k].to
        BY <1>1, <1>2, <1>4, <3>1 DEF CoveredOK
      <4> QED BY <1>2, <1>6, <4>1
    <3>2. CASE i > Shown
      BY <1>2, <1>4, <1>6, <3>2, SMTT(30)
    <3> QED BY <1>2, <1>4, <3>1, <3>2
  <2> QED BY <1>4, <1>6, <2>1, <2>2 DEF CoveredOK
<1>11. KeptOK'
  BY <1>3 DEF KeptOK
<1>12. \A k \in DOMAIN output' : PieceOK(k)'
  BY <1>6, <1>8, <1>9
<1> QED BY <1>7, <1>10, <1>11, <1>12 DEF RedactInv

\* A round of drain: a secret, the beginning of one at the end, or a byte.
LEMMA DrainKeeps == ASSUME RedactInv, Drain PROVE RedactInv'
<1>1. RedactTypeOK
  BY DEF RedactInv
<1>2. draining /\ retained > 0 /\ (Prefixed => closed)
  BY DEF Drain
<1>3. /\ Shown \in Nat /\ Shown + retained = Len(input) /\ retained \in Nat /\ Len(input) \in Nat
      /\ Rest \in Seq(Bytes) /\ Len(Rest) = retained
      /\ \A k \in 1..retained : Rest[k] = input[Shown + k]
  BY <1>1, RestFacts DEF RedactTypeOK
<1>4. ASSUME NEW s \in Matches, Longest(s), Consume(Len(s), TRUE) PROVE RedactInv'
  <2>1. /\ s \in secrets /\ s \in Seq(Bytes) /\ Len(s) \in Nat /\ Len(s) > 0 /\ IsPrefix(s, Rest)
    BY <1>1, SecretFacts DEF Matches
  <2>2. Len(s) \in 1..retained /\ \A k \in 1..Len(s) : s[k] = Rest[k]
    BY <1>3, <2>1, PrefixPointwise
  <2> DEFINE u == SubSeq(input, Shown + 1, Shown + Len(s))
  <2>3. input \in Seq(Bytes) /\ Shown + 1 \in Nat /\ Shown + Len(s) \in Nat
        /\ 1 <= Shown + 1 /\ Shown + 1 <= Shown + Len(s) /\ Shown + Len(s) <= Len(input)
    BY <1>1, <1>3, <2>1, <2>2 DEF RedactTypeOK
  <2>4. /\ u \in Seq(Bytes) /\ Len(u) = (Shown + Len(s)) - (Shown + 1) + 1
        /\ \A k \in 1..(Shown + Len(s)) - (Shown + 1) + 1 : u[k] = input[(Shown + 1) + k - 1]
    BY <2>3, TextFacts
  <2>5. u \in Seq(Bytes) /\ Len(u) = Len(s) /\ \A k \in 1..Len(s) : u[k] = input[Shown + k]
    BY <1>3, <2>1, <2>4
  <2>6. \A k \in 1..Len(s) : u[k] = s[k]
    BY <1>3, <2>2, <2>5
  <2>7. u = s
    BY <2>1, <2>5, <2>6, SeqEqual
  <2> QED BY <1>2, <1>4, <2>1, <2>2, <2>7, ConsumeKeeps
<1>5. ASSUME Prefixed, Consume(retained, TRUE) PROVE RedactInv'
  <2>1. Shown + retained = Len(input) /\ retained \in 1..retained
    BY <1>2, <1>3
  <2>2. Begins(Rest)
    BY <1>5 DEF Prefixed, Begins
  <2>3. Begins(SubSeq(input, Shown + 1, Shown + retained))
    BY <2>1, <2>2 DEF Rest
  <2> QED BY <1>2, <1>5, <2>1, <2>3, ConsumeKeeps
<1>6. ASSUME Matches = {}, ~Prefixed, Consume(1, FALSE) PROVE RedactInv'
  <2>1. ASSUME NEW s \in secrets
        PROVE  \E k \in 1..Len(s) : (Shown + 1) + k - 1 <= Len(input) /\ s[k] # input[(Shown + 1) + k - 1]
    <3>1. s \in Seq(Bytes) /\ Len(s) \in Nat /\ Len(s) > 0
      BY <1>1, SecretFacts
    <3>2. ~IsPrefix(s, Rest) /\ ~(Len(Rest) < Len(s) /\ IsPrefix(Rest, s))
      BY <1>6 DEF Matches, Prefixed
    <3>3. PICK k \in 1..Len(s) : k <= retained /\ s[k] # Rest[k]
      BY <1>3, <3>1, <3>2, PrefixPointwise, SMTT(30)
    <3>4. (Shown + 1) + k - 1 = Shown + k /\ k \in 1..retained
      BY <1>3, <3>1, <3>3
    <3>5. Shown + k <= Len(input) /\ s[k] # input[Shown + k]
      BY <1>3, <3>3, <3>4
    <3> QED BY <3>3, <3>4, <3>5
  <2>2. Cleared(Shown + 1)
    BY <2>1 DEF Cleared
  <2>3. 1 \in 1..retained
    BY <1>2, <1>3
  <2> QED BY <1>2, <1>6, <2>2, <2>3, ConsumeKeeps
<1> QED BY <1>4, <1>5, <1>6 DEF Drain

\* drain returns only with what begins a secret.
LEMMA ReturnKeeps == ASSUME RedactInv, DrainReturns PROVE RedactInv'
<1>1. RedactTypeOK /\ CoveredOK /\ \A k \in DOMAIN output : PieceOK(k)
  BY DEF RedactInv
<1>2. /\ secrets' = secrets /\ input' = input /\ retained' = retained /\ output' = output
      /\ closed' = closed /\ draining' = FALSE
  BY DEF DrainReturns
<1>3. RedactTypeOK'
  BY <1>1, <1>2 DEF RedactTypeOK
<1>4. Shown' = Shown /\ Rest' = Rest
  BY <1>2 DEF Shown, Rest
<1>5. CoveredOK'
  BY <1>1, <1>2, <1>4 DEF CoveredOK, Last
<1>6. \A k \in DOMAIN output' : PieceOK(k)'
  BY <1>1, <1>2, <1>4 DEF PieceOK, TextOf, Begins, Cleared
<1>7. Prefixed => Begins(Rest)
  BY DEF Prefixed, Begins
<1>8. KeptOK'
  BY <1>2, <1>4, <1>7 DEF KeptOK, DrainReturns, Begins
<1> QED BY <1>3, <1>5, <1>6, <1>8 DEF RedactInv

\* Another byte does not change what was said of the bytes before.
LEMMA WriteKeeps == ASSUME RedactInv, NEW b \in Bytes, WriteByte(b) PROVE RedactInv'
<1>1. RedactTypeOK /\ CoveredOK /\ \A k \in DOMAIN output : PieceOK(k)
  BY DEF RedactInv
<1>2. /\ secrets' = secrets /\ input' = Append(input, b) /\ retained' = retained + 1
      /\ output' = output /\ closed' = closed /\ draining' = TRUE /\ closed = FALSE
  BY <1>1 DEF WriteByte, RedactTypeOK
<1>3. /\ input \in Seq(Bytes) /\ input' \in Seq(Bytes) /\ Len(input) \in Nat
      /\ Len(input') = Len(input) + 1 /\ \A i \in 1..Len(input) : input'[i] = input[i]
      /\ retained \in 0..Len(input)
  BY <1>1, <1>2 DEF RedactTypeOK
<1>4. RedactTypeOK'
  BY <1>1, <1>2, <1>3 DEF RedactTypeOK
<1>5. Shown' = Shown /\ Shown \in Nat /\ Shown <= Len(input)
  BY <1>2, <1>3 DEF Shown
<1>6. CoveredOK'
  BY <1>1, <1>2, <1>5 DEF CoveredOK, Last
<1>7. ASSUME NEW k \in DOMAIN output PROVE PieceOK(k)'
  <2>1. PieceOK(k) /\ output[k] \in Pieces
    BY <1>1, <1>7 DEF RedactTypeOK
  <2> DEFINE x == output[k].from
             y == output[k].to
  <2>2. x \in Nat /\ y \in Nat /\ 1 <= x /\ x <= y /\ y <= Len(input) /\ y <= Len(input')
    BY <1>3, <1>5, <2>1 DEF PieceOK, Pieces
  <2>3. SubSeq(input', x, y) = SubSeq(input, x, y)
    <3> HIDE DEF x, y
    <3>1. /\ SubSeq(input, x, y) \in Seq(Bytes) /\ Len(SubSeq(input, x, y)) = y - x + 1
          /\ \A i \in 1..y - x + 1 : SubSeq(input, x, y)[i] = input[x + i - 1]
      BY <1>3, <2>2, TextFacts
    <3>2. /\ SubSeq(input', x, y) \in Seq(Bytes) /\ Len(SubSeq(input', x, y)) = y - x + 1
          /\ \A i \in 1..y - x + 1 : SubSeq(input', x, y)[i] = input'[x + i - 1]
      BY <1>3, <2>2, TextFacts
    <3>3. \A i \in 1..y - x + 1 : SubSeq(input', x, y)[i] = SubSeq(input, x, y)[i]
      BY <1>3, <2>2, <3>1, <3>2
    <3> QED BY <2>2, <3>1, <3>2, <3>3, SeqEqual
  <2>4. ASSUME Cleared(x) PROVE Cleared(x)'
    <3> HIDE DEF x
    <3>1. ASSUME NEW s \in secrets'
          PROVE  \E i \in 1..Len(s) : x + i - 1 <= Len(input') /\ s[i] # input'[x + i - 1]
      <4>1. PICK i \in 1..Len(s) : x + i - 1 <= Len(input) /\ s[i] # input[x + i - 1]
        BY <1>2, <2>4, <3>1 DEF Cleared
      <4>2. Len(s) \in Nat
        BY <1>1, <1>2, <3>1, SecretFacts
      <4>3. x + i - 1 \in 1..Len(input)
        BY <1>3, <2>2, <4>1, <4>2
      <4> QED BY <1>3, <4>1, <4>2, <4>3
    <3>2. x' = x
      BY <1>2 DEF x
    <3> QED BY <3>1, <3>2 DEF Cleared
  <2>5. output[k].hidden => TextOf(output[k]) \in secrets
    BY <1>2, <2>1 DEF PieceOK
  <2>6. (TextOf(output[k]))' = TextOf(output[k])
    BY <1>2, <2>3 DEF TextOf
  <2> QED BY <1>2, <1>5, <2>1, <2>4, <2>5, <2>6 DEF PieceOK
<1>8. KeptOK'
  BY <1>2 DEF KeptOK
<1> QED BY <1>2, <1>4, <1>6, <1>7, <1>8 DEF RedactInv

\* Closing leaves the rest to the last drain.
LEMMA CloseKeeps == ASSUME RedactInv, CloseWriter PROVE RedactInv'
<1>1. RedactTypeOK /\ CoveredOK /\ \A k \in DOMAIN output : PieceOK(k)
  BY DEF RedactInv
<1>2. /\ secrets' = secrets /\ input' = input /\ retained' = retained /\ output' = output
      /\ closed' = TRUE /\ draining' = TRUE /\ ~closed
  BY DEF CloseWriter
<1>3. RedactTypeOK'
  BY <1>1, <1>2 DEF RedactTypeOK
<1>4. Shown' = Shown
  BY <1>2 DEF Shown
<1>5. CoveredOK'
  BY <1>1, <1>2, <1>4 DEF CoveredOK, Last
<1>6. \A k \in DOMAIN output' : PieceOK(k)'
  BY <1>1, <1>2, <1>4 DEF PieceOK, TextOf, Cleared
<1>7. KeptOK'
  BY <1>2 DEF KeptOK
<1> QED BY <1>3, <1>5, <1>6, <1>7 DEF RedactInv

\* What the filter has written, copied and hidden, and what it keeps back stays
\* in order (redactingWriter), for every set of secrets and every output.
THEOREM RedactInvariance == RedactSpec => []RedactInv
<1>1. ASSUME RedactInit PROVE RedactInv
  <2>1. /\ input = << >> /\ retained = 0 /\ output = << >> /\ secrets \in SecretSets
        /\ draining = FALSE /\ closed = FALSE
    BY <1>1 DEF RedactInit
  <2>2. RedactTypeOK /\ Shown = 0
    <3>1. Len(input) = 0 /\ input \in Seq(Bytes) /\ output \in Seq(Pieces)
      BY <2>1
    <3>2. Shown = 0 /\ retained \in 0..Len(input)
      BY <2>1, <3>1 DEF Shown
    <3> QED BY <2>1, <3>1, <3>2 DEF RedactTypeOK
  <2>3. DOMAIN output = {}
    BY <2>1
  <2> QED BY <2>1, <2>2, <2>3 DEF RedactInv, CoveredOK, KeptOK
<1>2. ASSUME RedactInv, [RedactNext]_redactVars PROVE RedactInv'
  <2>1. CASE UNCHANGED redactVars
    <3>1. /\ secrets' = secrets /\ input' = input /\ retained' = retained /\ output' = output
          /\ closed' = closed /\ draining' = draining
      BY <2>1 DEF redactVars
    <3>2. RedactTypeOK /\ CoveredOK /\ KeptOK /\ \A k \in DOMAIN output : PieceOK(k)
      BY <1>2 DEF RedactInv
    <3>3. Shown' = Shown /\ Rest' = Rest
      BY <3>1 DEF Shown, Rest
    <3>4. RedactTypeOK' /\ CoveredOK' /\ KeptOK'
      BY <3>1, <3>2, <3>3 DEF RedactTypeOK, CoveredOK, KeptOK, Last, Begins
    <3>5. \A k \in DOMAIN output' : PieceOK(k)'
      BY <3>1, <3>2, <3>3 DEF PieceOK, TextOf, Begins, Cleared
    <3> QED BY <3>4, <3>5 DEF RedactInv
  <2>2. CASE RedactNext
    BY <1>2, <2>2, DrainKeeps, ReturnKeeps, CloseKeeps, WriteKeeps DEF RedactNext
  <2> QED BY <1>2, <2>1, <2>2
<1> QED BY <1>1, <1>2, PTL DEF RedactSpec

\* A secret that is in the input is not in the log in full: its first byte is
\* kept back or hidden, because a byte is copied only where no secret begins.
LEMMA InvImpliesExact == RedactInv => RedactionExact
<1> SUFFICES ASSUME RedactInv PROVE RedactionExact
  OBVIOUS
<1>1. RedactTypeOK /\ CoveredOK /\ KeptOK /\ \A k \in DOMAIN output : PieceOK(k)
  BY DEF RedactInv
<1>2. ASSUME NEW s \in secrets, NEW i \in 1..Len(input) - Len(s) + 1,
             SubSeq(input, i, i + Len(s) - 1) = s
      PROVE  \E j \in i..i + Len(s) - 1 :
               j > Shown \/ \E p \in Range(output) : p.hidden /\ j \in p.from..p.to
  <2>1. s \in Seq(Bytes) /\ Len(s) \in Nat /\ Len(s) > 0
    BY <1>1, SecretFacts
  <2>2. input \in Seq(Bytes) /\ Len(input) \in Nat /\ Shown \in Nat
    BY <1>1, RestFacts DEF RedactTypeOK
  <2>3. i \in Nat /\ 1 <= i /\ i + Len(s) - 1 \in Nat /\ i <= i + Len(s) - 1 /\ i + Len(s) - 1 <= Len(input)
    BY <2>1, <2>2
  <2>4. i \in i..i + Len(s) - 1
    BY <2>3
  <2>5. CASE i > Shown
    BY <2>4, <2>5
  <2>6. CASE i <= Shown
    <3>1. PICK k \in DOMAIN output : i \in output[k].from..output[k].to
      BY <1>1, <2>2, <2>3, <2>6 DEF CoveredOK
    <3>2. PieceOK(k) /\ output[k] \in Pieces /\ output[k] \in Range(output)
      BY <1>1, <3>1 DEF RedactTypeOK, Range
    <3>3. CASE output[k].hidden
      BY <2>4, <3>1, <3>2, <3>3
    <3>4. CASE ~output[k].hidden
      <4>1. output[k].from = i /\ Cleared(i)
        BY <2>3, <3>1, <3>2, <3>4 DEF PieceOK, Pieces
      <4>2. PICK m \in 1..Len(s) : s[m] # input[i + m - 1]
        BY <4>1 DEF Cleared
      <4>3. \A m2 \in 1..(i + Len(s) - 1) - i + 1 :
              SubSeq(input, i, i + Len(s) - 1)[m2] = input[i + m2 - 1]
        BY <2>2, <2>3, TextFacts
      <4>4. m \in 1..(i + Len(s) - 1) - i + 1
        BY <2>1, <2>3
      <4> QED BY <1>2, <4>2, <4>3, <4>4
    <3> QED BY <3>3, <3>4
  <2> QED BY <2>2, <2>3, <2>5, <2>6
<1>3. ASSUME NEW k \in DOMAIN output
      PROVE  /\ output[k].from = (IF k = 1 THEN 1 ELSE output[k - 1].to + 1)
             /\ output[k].hidden =>
                  \/ TextOf(output[k]) \in secrets
                  \/ closed /\ k = Len(output) /\ Begins(TextOf(output[k]))
  BY <1>1, <1>3 DEF PieceOK
<1> QED BY <1>1, <1>2, <1>3 DEF RedactionExact, CoveredOK, KeptOK

\* For every set of secrets, every output of a step and every cut of it into
\* writes, the log is the input in order, without a secret in full and with
\* markers only for secrets (drain, Write, Close).
THEOREM RedactionAlwaysExact == RedactSpec => []RedactionExact
BY RedactInvariance, InvImpliesExact, PTL
=============================================================================
