--------------------------- MODULE MCControlPlane ---------------------------
(***************************************************************************)
(* Four parts of the system in one run: logins and their administration,   *)
(* the connections of projects to a provider, the compilation of their     *)
(* pipelines and the filter of the output of their jobs.  They share no    *)
(* variable.  What connects the first two, the rights of the administrator *)
(* and the login configuration in force, Connections changes freely        *)
(* (RightsChange, LoginReplaced); what a validation and a log take from    *)
(* the last two is whether a pipeline compiles and what is printed.  A     *)
(* behaviour is therefore followed in one part, while the others stay at a *)
(* fixed initial state.                                                    *)
(***************************************************************************)
EXTENDS Login, Connections, PipelinePlan, Redaction, TLC

VARIABLE side  \* the part whose steps are followed

MCProviderOf == [s \in Subjects |-> "github"]
MCOffered == {<<"admin", "instance">>}

Job(n, needs) == [name |-> n, needs |-> needs]
Stage(n, needs, jobs) == [name |-> n, needs |-> needs, jobs |-> jobs]
OneJob == <<Job("x", {})>>

\* Up to two jobs, among them repeated names and unknown dependencies.
JobLists ==
  {<< >>} \cup {<<Job("x", a)>> : a \in SUBSET {"x", "y"}}
    \cup {<<Job("x", a), Job(n, b)>> : n \in {"x", "y"}, a, b \in SUBSET {"x", "y"}}

\* Every job list in the first of two stages, and every graph of three stages.
MCPipelines ==
  {[fields |-> f, stages |-> <<Stage("a", a, jobs), Stage("b", b, OneJob)>>] :
     f \in BOOLEAN, jobs \in JobLists, a \in {{}, {"b"}}, b \in {{}, {"a"}}}
  \cup
  {[fields |-> TRUE, stages |-> <<Stage("a", a, OneJob), Stage("b", b, jobs), Stage("c", c, OneJob)>>] :
     jobs \in {<< >>, OneJob}, a, b, c \in SUBSET {"a", "b", "c"}}
  \cup {[fields |-> TRUE, stages |-> << >>]}

\* Two secrets of up to three bytes, which may overlap or begin alike.
Words == UNION {[1..n -> Bytes] : n \in 1..3}
MCSecretSets == {{s, t} : s, t \in Words}

Init ==
  /\ side \in {"login", "connections", "pipeline", "output"}
  /\ LoginInit /\ (side # "login" => managed)
  /\ ConnInit /\ (side # "connections" => provider = "github")
  /\ PlanInit /\ (side # "pipeline" => pipeline = [fields |-> TRUE, stages |-> << >>])
  /\ RedactInit /\ (side # "output" => secrets = {<<CHOOSE b \in Bytes : TRUE>>})

Next ==
  \/ side = "login" /\ LoginNext /\ UNCHANGED <<connVars, planVars, redactVars, side>>
  \/ side = "connections" /\ ConnNext /\ UNCHANGED <<loginVars, planVars, redactVars, side>>
  \/ side = "pipeline" /\ PlanNext /\ UNCHANGED <<loginVars, connVars, redactVars, side>>
  \/ side = "output" /\ RedactNext /\ UNCHANGED <<loginVars, connVars, planVars, side>>

Spec == Init /\ [][Next]_<<loginVars, connVars, planVars, redactVars, side>>

Symmetry == Permutations(Browsers) \cup Permutations(Subjects) \cup Permutations(Workers)
=============================================================================
