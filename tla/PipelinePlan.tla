---------------------------- MODULE PipelinePlan ----------------------------
(***************************************************************************)
(* The compiler of pipelines (internal/pipeline) and the job rows a plan   *)
(* becomes (insertRun).  Validate searches each graph of a pipeline, the   *)
(* jobs of every stage and then the stages, for a cycle: a depth-first     *)
(* search that begins with the nodes in the order in which Go ranges over  *)
(* a map, which is any order.                                              *)
(*                                                                         *)
(* A pipeline is its stages, each with a name, the stages it depends on    *)
(* and its jobs, and the verdict `fields` on everything that is checked    *)
(* of each field alone (versions, names, images, sizes, timeouts).  The    *)
(* order within depends_on is left open.                                   *)
(***************************************************************************)
EXTENDS Integers, Sequences, FiniteSets

CONSTANTS
  Names,     \* of stages and jobs
  Pipelines  \* the documents that are compiled

JobDocs == [name : Names, needs : SUBSET Names]
StageDocs == [name : Names, needs : SUBSET Names, jobs : Seq(JobDocs)]

ASSUME PipelinesAssumption ==
  \A p \in Pipelines : p.fields \in BOOLEAN /\ p.stages \in Seq(StageDocs)

VARIABLES
  pipeline,  \* the document
  graphNo,   \* the graph that is searched: of a stage's jobs, then of the stages
  state,     \* what hasCycle knows of each node
  trail,     \* the calls of visit that have not returned, the innermost first
  problems,  \* whether a problem was found
  verdict    \* "open", "compiled" or "invalid"

planVars == <<pipeline, graphNo, state, trail, problems, verdict>>

Stages == DOMAIN pipeline.stages
NamesOf(list) == {list[i].name : i \in DOMAIN list}

\* stageDependencies, and deps of validateJobs: of two entries with one name
\* the later one counts.
GraphOf(list) ==
  [n \in NamesOf(list) |->
     list[CHOOSE i \in DOMAIN list :
            list[i].name = n /\ \A j \in DOMAIN list : list[j].name = n => j <= i].needs]

List == IF graphNo \in Stages THEN pipeline.stages[graphNo].jobs ELSE pipeline.stages
Graph == GraphOf(List)
Nodes == DOMAIN Graph \cup UNION {Graph[n] : n \in DOMAIN Graph}
Following(node) == IF node \in DOMAIN Graph THEN Graph[node] ELSE {}
StateOf(node) == IF node \in DOMAIN state THEN state[node] ELSE "unseen"

\* What Validate, validateJobs and validateDependencies find without a search.
PlainProblem(list) ==
  \/ Len(list) = 0
  \/ Cardinality(NamesOf(list)) # Len(list)
  \/ \E n \in NamesOf(list) : n \in GraphOf(list)[n] \/ ~(GraphOf(list)[n] \subseteq NamesOf(list))

\* What is checked of each field alone.
FieldProblem == ~pipeline.fields

PlanInit ==
  /\ pipeline \in Pipelines
  /\ graphNo = 1 /\ state = << >> /\ trail = << >>
  /\ problems = FieldProblem /\ verdict = "open"

Mark(node, s) == [n \in DOMAIN state \cup {node} |-> IF n = node THEN s ELSE state[n]]

\* The defect of a search that does not tell the nodes of its path from those
\* it has left.
MutantEntered(node) == Mark(node, "visited")

\* visit marks a node before it follows its dependencies.
Entered(node) == Mark(node, "visiting")

\* visit of a node that was not seen yet.
Visit(node) ==
  /\ StateOf(node) = "unseen"
  /\ state' = Entered(node)
  /\ trail' = <<[node |-> node, todo |-> Following(node)]>> \o trail
  /\ UNCHANGED <<pipeline, graphNo, problems, verdict>>

Searching == verdict = "open" /\ graphNo \in 1..Len(pipeline.stages) + 1

Root(node) == Searching /\ trail = << >> /\ node \in DOMAIN Graph /\ Visit(node)

\* The innermost visit takes the next dependency; one that is done is passed over.
Follow(node) ==
  /\ Searching /\ trail # << >> /\ node \in Head(trail).todo
  /\ \/ Visit(node)
     \/ /\ StateOf(node) = "visited"
        /\ trail' = [trail EXCEPT ![1].todo = @ \ {node}]
        /\ UNCHANGED <<pipeline, graphNo, state, problems, verdict>>

Return ==
  /\ Searching /\ trail # << >> /\ Head(trail).todo = {}
  /\ state' = Mark(Head(trail).node, "visited")
  /\ trail' = Tail(trail)
  /\ UNCHANGED <<pipeline, graphNo, problems, verdict>>

\* The search of one graph ends, with a cycle or with every node visited.
Cyclic == trail # << >> /\ \E node \in Head(trail).todo : StateOf(node) = "visiting"
Exhausted == trail = << >> /\ \A node \in DOMAIN Graph : StateOf(node) = "visited"

NextGraph ==
  /\ Searching /\ (Cyclic \/ Exhausted)
  /\ problems' = (problems \/ Cyclic \/ PlainProblem(List))
  /\ graphNo' = graphNo + 1 /\ state' = << >> /\ trail' = << >>
  /\ UNCHANGED <<pipeline, verdict>>

Compile ==
  /\ verdict = "open" /\ graphNo = Len(pipeline.stages) + 2
  /\ verdict' = IF problems THEN "invalid" ELSE "compiled"
  /\ UNCHANGED <<pipeline, graphNo, state, trail, problems>>

PlanNext ==
  \/ \E node \in Nodes : Root(node) \/ Follow(node)
  \/ Return \/ NextGraph \/ Compile

PlanSpec == PlanInit /\ [][PlanNext]_planVars

-----------------------------------------------------------------------------
(* The rows of a plan.                                                     *)

JobKeys == UNION {{<<pipeline.stages[i].name, n>> : n \in NamesOf(pipeline.stages[i].jobs)} : i \in Stages}

\* insertRun: a job waits for every job of the stages its stage depends on and
\* for the jobs it names of its own.
Dependencies(key) ==
  LET stage == CHOOSE i \in Stages : pipeline.stages[i].name = key[1]
  IN  {k \in JobKeys : k[1] \in pipeline.stages[stage].needs}
        \cup {<<key[1], n>> : n \in GraphOf(pipeline.stages[stage].jobs)[key[2]]}

-----------------------------------------------------------------------------
(* Orders, without a recursion: a node comes after every node that no set  *)
(* closed under needs can leave out, and an order is sound if every set of *)
(* nodes has one that needs none of the others or itself.                  *)

After(needs, a, b) ==
  \A C \in SUBSET DOMAIN needs :
    needs[a] \subseteq C /\ (\A n \in C : needs[n] \subseteq C) => b \in C

WellOrdered(needs) ==
  \A C \in SUBSET DOMAIN needs : C # {} => \E n \in C : needs[n] \cap C = {}

\* A pipeline is compiled exactly if it can be executed, in whatever order the
\* search meets the nodes (Validate, hasCycle).  The rows of a compiled one form
\* an acyclic graph without dangling dependencies, one row for each job, and a
\* job comes after all jobs of every stage its own stage depends on, directly or
\* through other stages, although rows name direct dependencies only (insertRun).
PlanSound ==
  LET lists == {pipeline.stages} \cup {pipeline.stages[i].jobs : i \in Stages}
      rows == [k \in JobKeys |-> Dependencies(k)]
      stages == GraphOf(pipeline.stages)
  IN  /\ verdict = "compiled" =>
           /\ pipeline.fields
           /\ \A list \in lists : Cardinality(NamesOf(list)) = Len(list)
           /\ \A k \in JobKeys : rows[k] \subseteq JobKeys
           /\ WellOrdered(rows)
           /\ \A k, l \in JobKeys : After(stages, k[1], l[1]) => After(rows, k, l)
      /\ verdict = "invalid" =>
           \/ ~pipeline.fields
           \/ \E list \in lists :
                \/ Len(list) = 0 \/ Cardinality(NamesOf(list)) < Len(list)
                \/ ~(UNION {list[i].needs : i \in DOMAIN list} \subseteq NamesOf(list))
                \/ ~WellOrdered(GraphOf(list))
=============================================================================
