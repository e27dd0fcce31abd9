--------------------------- MODULE RunQueueProofs ---------------------------
(***************************************************************************)
(* Proofs about RunQueue, for every plan, pool of Runners and number of    *)
(* runs.                                                                   *)
(***************************************************************************)
EXTENDS RunQueue, FiniteSetTheorems, TLAPS

-----------------------------------------------------------------------------
(* The job graph.                                                          *)

\* The four properties of a row of jobStatus that transactions preserve.
Graph(s) ==
  /\ s \in [Keys -> JobStatuses]
  /\ Ordered(s)
  /\ BlockedInOrder(s)
  /\ SkippedForCause(s)
  /\ Whole(s)

\* The jobs insertRun writes form a sound graph with work to do.
LEMMA PlannedGraph ==
  /\ Graph(PlannedJobs)
  /\ \E k \in Keys : PlannedJobs[k] \in Unfinished
<1>1. PICK k \in Keys : TRUE
  BY KeysAssumption
<1>2. \A j \in Keys : PlannedJobs[j] \in Waiting
  BY DEF PlannedJobs, Waiting
<1>3. PlannedJobs \in [Keys -> JobStatuses]
  BY DEF PlannedJobs, JobStatuses, Unfinished, Waiting
<1>4. Ordered(PlannedJobs)
  BY DEF Ordered, PlannedJobs, Leased
<1>5. BlockedInOrder(PlannedJobs)
  BY DepsAssumption DEF BlockedInOrder, PlannedJobs
<1>6. SkippedForCause(PlannedJobs) /\ Whole(PlannedJobs)
  BY <1>2 DEF SkippedForCause, Whole, Waiting
<1> QED
  BY <1>1, <1>2, <1>3, <1>4, <1>5, <1>6 DEF Graph, Unfinished

\* A run without jobs is a sound graph.
LEMMA EmptyGraph == Graph(NoJobs)
BY DEF Graph, NoJobs, JobStatuses, Ordered, Leased, BlockedInOrder, SkippedForCause, Whole

\* A completion leaves a sound graph, and the failures it had before.
LEMMA CompletedGraph ==
  ASSUME NEW s, Graph(s), NEW k \in Keys, s[k] \in Leased, NEW result \in JobResults
  PROVE  LET t == Propagate([s EXCEPT ![k] = result], result)
         IN  /\ Graph(t)
             /\ \A j \in Keys : t[j] # "none"
             /\ t[k] = result
             /\ \A j \in Keys : s[j] = "failed" => t[j] = "failed"
             /\ \A j \in Keys : j # k /\ s[j] \in Leased => t[j] = s[j]
             /\ \A j \in Keys : t[j] \in Leased => j # k /\ s[j] = t[j]
<1> DEFINE u == [s EXCEPT ![k] = result]
           t == Propagate(u, result)
<1>1. /\ s \in [Keys -> JobStatuses]
      /\ u \in [Keys -> JobStatuses]
      /\ u[k] = result
      /\ \A j \in Keys : j # k => u[j] = s[j]
  BY DEF Graph, JobStatuses
<1>2. \A j \in Keys : s[j] # "none"
  BY DEF Graph, Whole, NoJobs, Leased
<1>3. \A d \in Deps[k] : s[d] = "succeeded"
  BY DEF Graph, Ordered
<1> HIDE DEF u
<1>4. CASE result = "succeeded"
  <2>1. t = [j \in Keys |-> IF u[j] = "blocked" /\ DependenciesMet(u, j) THEN "queued" ELSE u[j]]
    BY <1>4 DEF Propagate, Unblock
  <2> HIDE DEF t
  <2>2. t \in [Keys -> JobStatuses]
    BY <1>1, <2>1 DEF JobStatuses, Unfinished, Waiting
  <2>3. \A j \in Keys : t[j] = "succeeded" <=> u[j] = "succeeded"
    BY <2>1
  <2>4. Ordered(t)
    <3>1. \A j \in Keys : \A d \in Deps[j] : s[d] = "succeeded" => t[d] = "succeeded"
      BY <1>1, <1>4, <2>3, DepsAssumption
    <3> SUFFICES ASSUME NEW j \in Keys, t[j] \in {"queued", "succeeded", "failed"} \cup Leased,
                        NEW d \in Deps[j]
                 PROVE  t[d] = "succeeded"
      BY DEF Ordered
    <3>2. CASE u[j] = "blocked" /\ DependenciesMet(u, j)
      BY <3>2, <2>3, DepsAssumption DEF DependenciesMet
    <3>3. CASE ~(u[j] = "blocked" /\ DependenciesMet(u, j))
      <4>1. t[j] = u[j]
        BY <3>3, <2>1
      <4>2. CASE j = k
        BY <4>2, <1>3, <3>1
      <4>3. CASE j # k
        BY <4>1, <4>3, <1>1, <3>1 DEF Graph, Ordered
      <4> QED BY <4>2, <4>3
    <3> QED BY <3>2, <3>3
  <2>5. BlockedInOrder(t)
    <3> SUFFICES ASSUME NEW j \in Keys, t[j] = "blocked"
                 PROVE  /\ \E d \in Deps[j] : t[d] # "succeeded"
                        /\ \A i \in Keys : t[i] \notin {"none", "skipped", "failed", "canceled"}
      BY DEF BlockedInOrder
    <3>1. u[j] = "blocked" /\ ~ DependenciesMet(u, j)
      BY <2>1
    <3>2. s[j] = "blocked"
      BY <3>1, <1>1, <1>4
    <3>3. \A i \in Keys : s[i] \notin {"none", "skipped", "failed", "canceled"}
      BY <3>2 DEF Graph, BlockedInOrder
    <3>4. \A i \in Keys : t[i] \notin {"none", "skipped", "failed", "canceled"}
      BY <3>3, <2>1, <1>1, <1>4
    <3>5. \E d \in Deps[j] : t[d] # "succeeded"
      BY <3>1, <2>3, DepsAssumption DEF DependenciesMet
    <3> QED BY <3>4, <3>5
  <2>6. SkippedForCause(t)
    BY <2>1, <1>1, <1>4 DEF SkippedForCause, Graph, Leased
  <2>7. \A j \in Keys : t[j] # "none"
    BY <2>1, <1>1, <1>2, <1>4
  <2>8. /\ t[k] = result
        /\ \A j \in Keys : s[j] = "failed" => t[j] = "failed"
        /\ \A j \in Keys : j # k /\ s[j] \in Leased => t[j] = s[j]
        /\ \A j \in Keys : t[j] \in Leased => j # k /\ s[j] = t[j]
    BY <2>1, <1>1, <1>4 DEF Leased
  <2> QED BY <2>2, <2>4, <2>5, <2>6, <2>7, <2>8 DEF Graph, Whole, t, u
<1>5. CASE result \in {"failed", "canceled"}
  <2>1. t = [j \in Keys |-> IF u[j] \in Waiting THEN "skipped" ELSE u[j]]
    BY <1>5 DEF Propagate, Skip
  <2> HIDE DEF t
  <2>2. t \in [Keys -> JobStatuses]
    BY <1>1, <2>1 DEF JobStatuses, Unfinished
  <2>3. \A j \in Keys : s[j] = "succeeded" => t[j] = "succeeded"
    BY <2>1, <1>1 DEF Leased, Waiting
  <2>4. Ordered(t)
    <3> SUFFICES ASSUME NEW j \in Keys, t[j] \in {"queued", "succeeded", "failed"} \cup Leased,
                        NEW d \in Deps[j]
                 PROVE  t[d] = "succeeded"
      BY DEF Ordered
    <3>1. d \in Keys
      BY DepsAssumption
    <3>2. CASE j = k
      BY <3>1, <3>2, <1>3, <2>3
    <3>3. CASE j # k
      <4>1. t[j] = s[j]
        BY <3>3, <2>1, <1>1 DEF Waiting, Leased
      <4> QED BY <4>1, <3>1, <2>3 DEF Graph, Ordered
    <3> QED BY <3>2, <3>3
  <2>5. BlockedInOrder(t)
    BY <2>1, <1>1 DEF BlockedInOrder, Waiting
  <2>6. SkippedForCause(t)
    BY <2>1, <1>1, <1>5 DEF SkippedForCause, Waiting
  <2>7. \A j \in Keys : t[j] # "none"
    BY <2>1, <1>1, <1>2, <1>5
  <2>8. /\ t[k] = result
        /\ \A j \in Keys : s[j] = "failed" => t[j] = "failed"
        /\ \A j \in Keys : j # k /\ s[j] \in Leased => t[j] = s[j]
        /\ \A j \in Keys : t[j] \in Leased => j # k /\ s[j] = t[j]
    BY <2>1, <1>1, <1>5 DEF Leased, Waiting
  <2> QED BY <2>2, <2>4, <2>5, <2>6, <2>7, <2>8 DEF Graph, Whole, t, u
<1> QED BY <1>4, <1>5 DEF JobResults, t, u

\* Handing a job out, starting it and taking it back keep a graph sound.
LEMMA RelabeledGraph ==
  ASSUME NEW s, Graph(s), NEW k \in Keys, s[k] \in {"queued"} \cup Leased,
         NEW v \in {"queued"} \cup Leased
  PROVE  Graph([s EXCEPT ![k] = v])
<1> DEFINE t == [s EXCEPT ![k] = v]
<1>1. /\ t \in [Keys -> JobStatuses]
      /\ t[k] = v
      /\ \A j \in Keys : j # k => t[j] = s[j]
  BY DEF Graph, JobStatuses, Unfinished, Waiting
<1> HIDE DEF t
<1>2. \A j \in Keys : t[j] = "succeeded" <=> s[j] = "succeeded"
  BY <1>1 DEF Leased
<1>3. Ordered(t)
  BY <1>1, <1>2, DepsAssumption DEF Graph, Ordered
<1>4. BlockedInOrder(t)
  <2> SUFFICES ASSUME NEW j \in Keys, t[j] = "blocked"
               PROVE  /\ \E d \in Deps[j] : t[d] # "succeeded"
                      /\ \A i \in Keys : t[i] \notin {"none", "skipped", "failed", "canceled"}
    BY DEF BlockedInOrder
  <2>1. s[j] = "blocked"
    BY <1>1 DEF Leased
  <2>2. \E d \in Deps[j] : s[d] # "succeeded"
    BY <2>1 DEF Graph, BlockedInOrder
  <2>3. \A i \in Keys : s[i] \notin {"none", "skipped", "failed", "canceled"}
    BY <2>1 DEF Graph, BlockedInOrder
  <2> QED BY <1>1, <1>2, <2>2, <2>3, DepsAssumption DEF Leased
<1>5. SkippedForCause(t)
  BY <1>1 DEF Graph, SkippedForCause, Leased
<1>6. Whole(t)
  BY <1>1 DEF Graph, Whole, NoJobs, Leased
<1> QED BY <1>1, <1>3, <1>4, <1>5, <1>6 DEF Graph, t

\* A rerun of what did not succeed starts from a sound graph, with work to do
\* if some job had failed.
LEMMA ReusedGraph ==
  ASSUME NEW s, Graph(s), NEW k \in Keys, s[k] = "failed"
  PROVE  LET u == [j \in Keys |-> IF s[j] = "succeeded" THEN "succeeded" ELSE PlannedJobs[j]]
         IN  Graph(Unblock(u)) /\ \E j \in Keys : Unblock(u)[j] \in Unfinished
<1> DEFINE u == [j \in Keys |-> IF s[j] = "succeeded" THEN "succeeded" ELSE PlannedJobs[j]]
           t == Unblock(u)
<1>1. \A j \in Keys : u[j] = IF s[j] = "succeeded" THEN "succeeded"
                             ELSE IF Deps[j] = {} THEN "queued" ELSE "blocked"
  BY DEF PlannedJobs
<1>2. t = [j \in Keys |-> IF u[j] = "blocked" /\ DependenciesMet(u, j) THEN "queued" ELSE u[j]]
  BY DEF Unblock
<1> HIDE DEF t, u
<1>3. t \in [Keys -> {"succeeded", "queued", "blocked"}]
  BY <1>1, <1>2
<1>4. \A j \in Keys : t[j] = "succeeded" <=> s[j] = "succeeded"
  BY <1>1, <1>2
<1>5. Ordered(t)
  <2> SUFFICES ASSUME NEW j \in Keys, t[j] \in {"queued", "succeeded"}, NEW d \in Deps[j]
               PROVE  s[d] = "succeeded"
    BY <1>3, <1>4, DepsAssumption DEF Ordered, Leased
  <2>1. d \in Keys
    BY DepsAssumption
  <2>2. CASE s[j] = "succeeded"
    BY <2>2 DEF Graph, Ordered
  <2>3. CASE s[j] # "succeeded"
    <3>1. u[j] = "blocked" /\ DependenciesMet(u, j)
      BY <2>3, <1>1, <1>2
    <3> QED BY <3>1, <2>1, <1>1 DEF DependenciesMet
  <2> QED BY <2>2, <2>3
<1>6. BlockedInOrder(t)
  <2> SUFFICES ASSUME NEW j \in Keys, t[j] = "blocked"
               PROVE  \E d \in Deps[j] : t[d] # "succeeded"
    BY <1>3 DEF BlockedInOrder
  <2>1. ~ DependenciesMet(u, j)
    BY <1>2
  <2> QED BY <2>1, <1>1, <1>4, DepsAssumption DEF DependenciesMet
<1>7. SkippedForCause(t) /\ Whole(t)
  BY <1>3 DEF SkippedForCause, Whole
<1>8. t[k] \in Unfinished
  BY <1>3, <1>4 DEF Unfinished, Waiting
<1>9. t \in [Keys -> JobStatuses]
  BY <1>3 DEF JobStatuses, JobResults, Unfinished, Waiting
<1> QED BY <1>5, <1>6, <1>7, <1>8, <1>9 DEF Graph, t, u

\* Canceling every unfinished job leaves a sound graph.
LEMMA CanceledGraph ==
  ASSUME NEW s, Graph(s)
  PROVE  Graph([k \in Keys |-> IF s[k] \in Unfinished THEN "canceled" ELSE s[k]])
<1> DEFINE t == [k \in Keys |-> IF s[k] \in Unfinished THEN "canceled" ELSE s[k]]
<1>1. \A k \in Keys : t[k] = IF s[k] \in Unfinished THEN "canceled" ELSE s[k]
  OBVIOUS
<1>2. t \in [Keys -> JobStatuses]
  BY DEF Graph, JobStatuses, JobResults
<1> HIDE DEF t
<1>3. Ordered(t)
  BY <1>1, DepsAssumption DEF Graph, Ordered, Unfinished, Waiting, Leased
<1>4. BlockedInOrder(t)
  BY <1>1 DEF BlockedInOrder, Unfinished, Waiting
<1>5. SkippedForCause(t)
  <2> SUFFICES ASSUME NEW k \in Keys, t[k] = "skipped"
               PROVE  \E j \in Keys : t[j] \in {"failed", "canceled"}
    BY DEF SkippedForCause
  <2>1. s[k] = "skipped"
    BY <1>1
  <2>2. PICK j \in Keys : s[j] \in {"failed", "canceled"}
    BY <2>1 DEF Graph, SkippedForCause
  <2> QED BY <2>2, <1>1
<1>6. Whole(t)
  <2>1. CASE s = NoJobs
    <3>1. \A k \in Keys : t[k] = "none"
      BY <2>1, <1>1 DEF NoJobs, Unfinished, Waiting, Leased
    <3> QED BY <3>1, <1>2 DEF Whole, NoJobs
  <2>2. CASE \A k \in Keys : s[k] # "none"
    BY <2>2, <1>1 DEF Whole
  <2> QED BY <2>1, <2>2 DEF Graph, Whole
<1> QED BY <1>2, <1>3, <1>4, <1>5, <1>6 DEF Graph, t

\* What recovering the jobs S makes of a graph: s before, t after.
Recovered(s, t, S) ==
  /\ Graph(t)
  /\ \A k \in Keys : s[k] = "failed" => t[k] = "failed"
  /\ \A k \in S : s[k] = "running" => t[k] = "failed"
  /\ (\A k \in S : s[k] = "assigned") => \A k \in S : t[k] = "queued"
  /\ \A k \in Keys : s[k] \in Leased /\ k \notin S => t[k] = s[k]
  /\ \A k \in Keys : t[k] \in Leased => k \notin S /\ s[k] = t[k]
  /\ \A k \in Keys : s[k] \in JobResults \cup {"skipped"} => t[k] = s[k]

\* Recovery leaves a sound graph, in which lost jobs have failed.
LEMMA RecoveredGraph ==
  ASSUME NEW s, NEW t, NEW S, NEW late, S \subseteq Keys, Graph(s),
         \A k \in S : s[k] \in Leased, t = RecoveredJobs(s, S, late)
  PROVE  Recovered(s, t, S)
<1> DEFINE lost == {k \in S : s[k] = "running"}
<1>1. s \in [Keys -> JobStatuses]
  BY DEF Graph
<1>2. t = [k \in Keys |->
             IF k \in lost THEN "failed"
             ELSE IF k \in S THEN (IF k \in late \/ lost = {} THEN "queued" ELSE "skipped")
             ELSE IF lost = {} THEN s[k] ELSE IF s[k] \in Waiting THEN "skipped" ELSE s[k]]
  BY DEF RecoveredJobs, Skip
<1>3. t \in [Keys -> JobStatuses]
  BY <1>1, <1>2 DEF JobStatuses, JobResults, Unfinished, Waiting
<1>4. \A k \in S : s[k] \in Leased
  OBVIOUS
<1>5. \A k \in Keys : t[k] = "succeeded" <=> s[k] = "succeeded"
  BY <1>2, <1>4 DEF Leased, Waiting
<1>6. Ordered(t)
  <2> SUFFICES ASSUME NEW k \in Keys, t[k] \in {"queued", "succeeded", "failed"} \cup Leased,
                      NEW d \in Deps[k]
               PROVE  s[d] = "succeeded"
    BY <1>5, DepsAssumption DEF Ordered
  <2>1. s[k] \in {"queued", "succeeded", "failed"} \cup Leased
    BY <1>2, <1>4 DEF Leased, Waiting
  <2> QED BY <2>1 DEF Graph, Ordered
<1>7. BlockedInOrder(t)
  <2> SUFFICES ASSUME NEW k \in Keys, t[k] = "blocked"
               PROVE  /\ \E d \in Deps[k] : t[d] # "succeeded"
                      /\ \A j \in Keys : t[j] \notin {"none", "skipped", "failed", "canceled"}
    BY DEF BlockedInOrder
  <2>1. s[k] = "blocked" /\ lost = {}
    BY <1>2, <1>4 DEF Leased, Waiting
  <2>2. \E d \in Deps[k] : s[d] # "succeeded"
    BY <2>1 DEF Graph, BlockedInOrder
  <2>3. \A j \in Keys : s[j] \notin {"none", "skipped", "failed", "canceled"}
    BY <2>1 DEF Graph, BlockedInOrder
  <2>4. \A j \in Keys : t[j] \notin {"none", "skipped", "failed", "canceled"}
    BY <2>1, <2>3, <1>2
  <2> QED BY <2>2, <2>4, <1>5, DepsAssumption
<1>8. SkippedForCause(t)
  <2>1. CASE lost = {}
    <3>1. \A k \in Keys : t[k] \in {"skipped", "failed", "canceled"} <=> s[k] \in {"skipped", "failed", "canceled"}
      BY <2>1, <1>2, <1>4 DEF Leased
    <3>2. \A k \in Keys : t[k] = "skipped" <=> s[k] = "skipped"
      BY <2>1, <1>2, <1>4 DEF Leased
    <3> QED BY <3>1, <3>2 DEF Graph, SkippedForCause
  <2>2. CASE lost # {}
    <3>1. PICK k \in Keys : k \in lost
      BY <2>2
    <3> QED BY <3>1, <1>2 DEF SkippedForCause
  <2> QED BY <2>1, <2>2
<1>9. Whole(t)
  <2>1. CASE s = NoJobs
    <3>1. S = {}
      BY <2>1, <1>4 DEF NoJobs, Leased
    <3>2. t = s
      BY <3>1, <1>1, <1>2
    <3> QED BY <2>1, <3>2 DEF Whole
  <2>2. CASE \A k \in Keys : s[k] # "none"
    BY <2>2, <1>2 DEF Whole
  <2> QED BY <2>1, <2>2 DEF Graph, Whole
<1>10. /\ \A k \in Keys : s[k] = "failed" => t[k] = "failed"
       /\ \A k \in S : s[k] = "running" => t[k] = "failed"
       /\ (\A k \in S : s[k] = "assigned") => \A k \in S : t[k] = "queued"
       /\ \A k \in Keys : s[k] \in Leased /\ k \notin S => t[k] = s[k]
       /\ \A k \in Keys : t[k] \in Leased => k \notin S /\ s[k] = t[k]
       /\ \A k \in Keys : s[k] \in JobResults \cup {"skipped"} => t[k] = s[k]
  BY <1>2, <1>4 DEF Leased, Waiting, JobResults
<1> QED BY <1>3, <1>6, <1>7, <1>8, <1>9, <1>10 DEF Graph, Recovered

-----------------------------------------------------------------------------
(* The inductive invariant.                                                *)

\* The graph of every run is sound.
LEMMA SoundGraphs ==
  ASSUME IndInv, NEW r \in Runs
  PROVE  Graph(jobStatus[r])
BY DEF IndInv, TypeOK, RunInv, Graph

\* A step that leaves every run but r alone only has to establish RunInv(r).
LEMMA Frame ==
  ASSUME IndInv, TypeOK', NEW r \in Runs, RunInv(r)',
         \A q \in Runs : q # r =>
           /\ runStatus'[q] = runStatus[q] /\ kind'[q] = kind[q] /\ jobStatus'[q] = jobStatus[q]
           /\ owner'[q] = owner[q] /\ ttl'[q] = ttl[q] /\ final'[q] = final[q]
           /\ \A k \in Keys : <<q, k>> \in accepted => <<q, k>> \in accepted'
  PROVE  IndInv'
<1> SUFFICES ASSUME NEW q \in Runs, q # r
             PROVE  RunInv(q)'
  BY DEF IndInv
<1>1. RunInv(q)
  BY DEF IndInv
<1> QED BY <1>1 DEF RunInv, LeaseCoherent

\* Init.
LEMMA InitInd == Init => IndInv
<1> SUFFICES ASSUME Init PROVE IndInv
  OBVIOUS
<1>1. TypeOK
  <2>1. descriptor \in [Runners -> RunnerDescriptor]
    BY DescriptorsAssumption DEF Init
  <2> QED BY <2>1, LeaseTicksAssumption DEF Init, TypeOK, RunStatuses, AllKinds, NoJobs, JobStatuses
<1>2. ASSUME NEW r \in Runs PROVE RunInv(r)
  <2>1. jobStatus[r] = NoJobs /\ runStatus[r] = "absent" /\ final[r] = "none" /\ kind[r] = "bare"
    BY DEF Init
  <2>2. LeaseCoherent(r)
    BY DEF Init, LeaseCoherent, NoJobs, Leased
  <2> QED BY <2>1, <2>2, EmptyGraph DEF RunInv, Graph, Verdict
<1> QED BY <1>1, <1>2 DEF IndInv

\* Inserting a run: with a sound graph that has work to do, or failed and empty.
LEMMA InsertInd ==
  ASSUME IndInv, NEW r \in Runs, NEW c \in AllKinds, NEW status, NEW jobs,
         NEW request \in {<<>>} \cup (Runs \X Modes \X Requests),
         Graph(jobs), \A k \in Keys : jobs[k] \notin Leased,
         \/ status = "queued" /\ \E k \in Keys : jobs[k] \in Unfinished
         \/ status = "failed" /\ jobs = NoJobs,
         InsertRun(r, c, status, jobs, request)
  PROVE  IndInv'
<1>1. TypeOK /\ RunInv(r)
  BY DEF IndInv
<1>2. TypeOK'
  BY <1>1 DEF TypeOK, InsertRun, Graph, RunStatuses, TerminalRun, CommitState
<1>3. /\ runStatus'[r] = status /\ jobStatus'[r] = jobs /\ kind'[r] = c
      /\ owner'[r] = owner[r] /\ ttl'[r] = ttl[r]
  BY <1>1 DEF InsertRun, TypeOK
<1>4. final'[r] = IF c = "checkout" THEN CommitState(status) ELSE "none"
  <2>1. final[r] = "none"
    BY <1>1 DEF InsertRun, Fresh, RunInv, CommitState
  <2> QED BY <1>1, <2>1 DEF InsertRun, TypeOK
<1>5. LeaseCoherent(r)'
  <2>1. \A k \in Keys : ~ (ttl[r][k] > 0)
    BY <1>1 DEF InsertRun, Fresh, RunInv, LeaseCoherent, NoJobs, Leased
  <2> QED BY <1>3, <2>1 DEF LeaseCoherent, Leased
<1>6. RunInv(r)'
  BY <1>3, <1>4, <1>5 DEF RunInv, Graph, Verdict
<1> QED BY <1>1, <1>2, <1>6, Frame DEF InsertRun, TypeOK

\* Runs created from a plan, or failed for their configuration.
LEMMA CreateInd ==
  ASSUME IndInv, NEW r \in Runs, NEW c \in Kinds, CreateRun(r, c)
  PROVE  IndInv'
<1>1. \A k \in Keys : PlannedJobs[k] \notin Leased
  BY DEF PlannedJobs, Leased
<1> QED BY <1>1, InsertInd, PlannedGraph, KindsAssumption DEF CreateRun

\* A run that fails for its configuration.
LEMMA CreateFailedInd ==
  ASSUME IndInv, NEW r \in Runs, CreateFailedRun(r)
  PROVE  IndInv'
<1>1. \A k \in Keys : NoJobs[k] \notin Leased
  BY DEF NoJobs, Leased
<1> QED BY <1>1, InsertInd, EmptyGraph DEF CreateFailedRun, AllKinds

\* Reruns.
LEMMA RerunInd ==
  ASSUME IndInv, NEW o \in Runs, NEW n \in Runs, NEW mode \in Modes, NEW q \in Requests,
         RerunAuthorizedRun(o, n, mode, q)
  PROVE  IndInv'
<1> DEFINE jobs == RerunJobs(o, mode)
<1>1. kind[o] \in AllKinds /\ <<o, mode, q>> \in Runs \X Modes \X Requests
  BY DEF IndInv, TypeOK
<1>2. Graph(jobs) /\ \E k \in Keys : jobs[k] \in Unfinished
  <2>1. CASE mode = "full"
    BY <2>1, PlannedGraph DEF RerunJobs
  <2>2. CASE mode = "failed"
    <3>1. PICK k \in Keys : jobStatus[o][k] = "failed"
      BY <2>2 DEF RerunAuthorizedRun, IndInv, RunInv, Verdict
    <3> QED BY <2>2, <3>1, SoundGraphs, ReusedGraph DEF RerunJobs, Reused
  <2> QED BY <2>1, <2>2 DEF Modes
<1>3. \A k \in Keys : jobs[k] \notin Leased
  BY DEF RerunJobs, Reused, Unblock, PlannedJobs, Leased
<1> HIDE DEF jobs
<1>4. InsertRun(n, kind[o], "queued", jobs, <<o, mode, q>>)
  BY DEF RerunAuthorizedRun, jobs
<1> QED BY <1>1, <1>2, <1>3, <1>4, InsertInd

\* A claim.
LEMMA ClaimInd ==
  ASSUME IndInv, NEW w \in Runners, NEW r \in Runs, NEW k \in Keys, ClaimRunnerJob(w, r, k)
  PROVE  IndInv'
<1>1. TypeOK /\ RunInv(r)
  BY DEF IndInv
<1>2. TypeOK'
  BY <1>1, LeaseTicksAssumption DEF TypeOK, ClaimRunnerJob, RunStatuses, JobStatuses, Unfinished, Leased
<1>3. jobStatus[r][k] = "queued" /\ runStatus[r] \in {"queued", "running"}
  BY DEF ClaimRunnerJob, Matching, Claimable
<1>4. jobStatus'[r] = [jobStatus[r] EXCEPT ![k] = "assigned"] /\ runStatus'[r] = "running"
  BY <1>1 DEF ClaimRunnerJob, TypeOK
<1>5. Graph(jobStatus'[r])
  <2>1. Graph(jobStatus[r])
    BY SoundGraphs
  <2>2. jobStatus[r][k] \in {"queued"} \cup Leased /\ "assigned" \in {"queued"} \cup Leased
    BY <1>3 DEF Leased
  <2>3. Graph([jobStatus[r] EXCEPT ![k] = "assigned"])
    BY <2>1, <2>2, RelabeledGraph
  <2> QED BY <2>3, <1>4
<1>6. jobStatus'[r][k] \in Unfinished
  BY <1>1, <1>4 DEF TypeOK, Unfinished, Leased
<1>7. LeaseCoherent(r)'
  <2> SUFFICES ASSUME NEW j \in Keys
               PROVE  /\ jobStatus'[r][j] \in Leased => owner'[r][j] \in Runners
                      /\ jobStatus'[r][j] = "running" => <<r, j>> \in accepted'
                      /\ ttl'[r][j] > 0 => jobStatus'[r][j] \in Leased
    BY DEF LeaseCoherent
  <2>1. CASE j = k
    BY <2>1, <1>1, <1>4 DEF ClaimRunnerJob, TypeOK, Leased
  <2>2. CASE j # k
    BY <2>2, <1>1 DEF ClaimRunnerJob, TypeOK, RunInv, LeaseCoherent
  <2> QED BY <2>1, <2>2
<1>8. final'[r] = IF kind'[r] = "checkout" THEN CommitState(runStatus'[r]) ELSE "none"
  BY <1>1, <1>3, <1>4 DEF ClaimRunnerJob, RunInv, CommitState
<1>9. RunInv(r)'
  BY <1>4, <1>5, <1>6, <1>7, <1>8 DEF RunInv, Graph, Verdict
<1> QED BY <1>1, <1>2, <1>9, Frame DEF ClaimRunnerJob, TypeOK

\* A release.
LEMMA ReleaseInd ==
  ASSUME IndInv, NEW w \in Runners, NEW r \in Runs, NEW k \in Keys, ReleaseRunnerJob(w, r, k)
  PROVE  IndInv'
<1>1. TypeOK /\ RunInv(r)
  BY DEF IndInv
<1>2. TypeOK'
  BY <1>1, LeaseTicksAssumption DEF TypeOK, ReleaseRunnerJob, JobStatuses, Unfinished, Waiting
<1>3. jobStatus[r][k] = "assigned"
  BY DEF ReleaseRunnerJob
<1>4. jobStatus'[r] = [jobStatus[r] EXCEPT ![k] = "queued"]
  BY <1>1 DEF ReleaseRunnerJob, TypeOK
<1>5. Graph(jobStatus'[r])
  <2>1. Graph(jobStatus[r])
    BY SoundGraphs
  <2>2. jobStatus[r][k] \in {"queued"} \cup Leased /\ "queued" \in {"queued"} \cup Leased
    BY <1>3 DEF Leased
  <2>3. Graph([jobStatus[r] EXCEPT ![k] = "queued"])
    BY <2>1, <2>2, RelabeledGraph
  <2> QED BY <2>3, <1>4
<1>6. jobStatus'[r][k] \in Unfinished
  BY <1>1, <1>4 DEF TypeOK, Unfinished, Waiting
<1>7. LeaseCoherent(r)'
  <2> SUFFICES ASSUME NEW j \in Keys
               PROVE  /\ jobStatus'[r][j] \in Leased => owner'[r][j] \in Runners
                      /\ jobStatus'[r][j] = "running" => <<r, j>> \in accepted'
                      /\ ttl'[r][j] > 0 => jobStatus'[r][j] \in Leased
    BY DEF LeaseCoherent
  <2>1. CASE j = k
    BY <2>1, <1>1, <1>4 DEF ReleaseRunnerJob, TypeOK, Leased
  <2>2. CASE j # k
    BY <2>2, <1>1 DEF ReleaseRunnerJob, TypeOK, RunInv, LeaseCoherent
  <2> QED BY <2>1, <2>2
<1>8. Verdict(runStatus[r], jobStatus'[r])
  <2>1. jobStatus[r][k] \in Unfinished /\ jobStatus[r][k] # "succeeded" /\ jobStatus[r][k] # "none"
    BY <1>3 DEF Unfinished, Leased
  <2>2. runStatus[r] \notin {"succeeded", "canceled"}
    BY <2>1, <1>1 DEF RunInv, Verdict, Concluded
  <2>3. runStatus[r] = "failed" => \E j \in Keys : jobStatus[r][j] = "failed"
    BY <2>1, <1>1 DEF RunInv, Verdict, NoJobs
  <2> QED BY <2>2, <2>3, <1>1, <1>3, <1>4 DEF Verdict, TypeOK
<1>9. RunInv(r)'
  BY <1>1, <1>3, <1>5, <1>6, <1>7, <1>8 DEF RunInv, Graph, ReleaseRunnerJob, NoJobs
<1> QED BY <1>1, <1>2, <1>9, Frame DEF ReleaseRunnerJob, TypeOK

\* A start.
LEMMA StartInd ==
  ASSUME IndInv, NEW w \in Runners, NEW r \in Runs, NEW k \in Keys, StartRunnerJob(w, r, k)
  PROVE  IndInv'
<1>1. TypeOK /\ RunInv(r)
  BY DEF IndInv
<1>2. TypeOK'
  BY <1>1 DEF TypeOK, StartRunnerJob, JobStatuses, Unfinished, Leased
<1>3. jobStatus[r][k] \in Leased
  BY DEF StartRunnerJob, Holds
<1>4. jobStatus'[r] = [jobStatus[r] EXCEPT ![k] = "running"]
  BY <1>1 DEF StartRunnerJob, TypeOK
<1>5. Graph(jobStatus'[r])
  <2>1. Graph(jobStatus[r])
    BY SoundGraphs
  <2>2. jobStatus[r][k] \in {"queued"} \cup Leased /\ "running" \in {"queued"} \cup Leased
    BY <1>3 DEF Leased
  <2>3. Graph([jobStatus[r] EXCEPT ![k] = "running"])
    BY <2>1, <2>2, RelabeledGraph
  <2> QED BY <2>3, <1>4
<1>6. jobStatus'[r][k] \in Unfinished
  BY <1>1, <1>4 DEF TypeOK, Unfinished, Leased
<1>7. LeaseCoherent(r)'
  BY <1>1, <1>3, <1>4 DEF StartRunnerJob, TypeOK, RunInv, LeaseCoherent, Leased
<1>8. Verdict(runStatus[r], jobStatus'[r])
  <2>1. jobStatus[r][k] \in Unfinished /\ jobStatus[r][k] # "succeeded" /\ jobStatus[r][k] # "none"
    BY <1>3 DEF Unfinished, Leased
  <2>2. runStatus[r] \notin {"succeeded", "canceled"}
    BY <2>1, <1>1 DEF RunInv, Verdict, Concluded
  <2>3. runStatus[r] = "failed" => \E j \in Keys : j # k /\ jobStatus[r][j] = "failed"
    BY <2>1, <1>1, <1>3 DEF RunInv, Verdict, NoJobs, Leased
  <2> QED BY <2>2, <2>3, <1>1, <1>4 DEF Verdict, TypeOK
<1>9. RunInv(r)'
  BY <1>1, <1>3, <1>5, <1>6, <1>7, <1>8 DEF RunInv, Graph, StartRunnerJob, NoJobs, Leased
<1> QED BY <1>1, <1>2, <1>9, Frame DEF StartRunnerJob, TypeOK

\* Acknowledging, renewing, disabling and the clock touch no status.
LEMMA QuietInd ==
  ASSUME IndInv, TypeOK',
         UNCHANGED <<runStatus, kind, jobStatus, owner, final>>,
         accepted \subseteq accepted',
         \A r \in Runs, k \in Keys : ttl'[r][k] > 0 => ttl[r][k] > 0
  PROVE  IndInv'
BY DEF IndInv, RunInv, LeaseCoherent

\* Acknowledging a job only records the acceptance.
LEMMA AcknowledgeInd ==
  ASSUME IndInv, NEW w \in Runners, NEW r \in Runs, NEW k \in Keys, AcknowledgeRunnerJob(w, r, k)
  PROVE  IndInv'
<1>1. TypeOK'
  BY DEF IndInv, TypeOK, AcknowledgeRunnerJob
<1> QED BY <1>1, QuietInd DEF AcknowledgeRunnerJob

\* A heartbeat only replaces the descriptor and moves the deadlines of leased jobs.
LEMMA RenewInd ==
  ASSUME IndInv, NEW w \in Runners, NEW S, NEW d \in RunnerDescriptor, RenewRunnerLeases(w, S, d)
  PROVE  IndInv'
<1>1. TypeOK'
  BY LeaseTicksAssumption DEF IndInv, TypeOK, RenewRunnerLeases
<1>2. \A r \in Runs, k \in Keys : ttl'[r][k] > 0 => ttl[r][k] > 0
  BY DEF RenewRunnerLeases, Holds
<1> QED BY <1>1, <1>2, QuietInd DEF RenewRunnerLeases

\* Disabling a Runner touches no run.
LEMMA DisableInd ==
  ASSUME IndInv, NEW w \in Retirable, DisableRunner(w)
  PROVE  IndInv'
<1>1. TypeOK'
  BY SubsetsAssumption DEF IndInv, TypeOK, DisableRunner
<1> QED BY <1>1, QuietInd DEF DisableRunner

\* The clock only shortens leases.
LEMMA ElapseInd ==
  ASSUME IndInv, NEW r \in Runs, NEW k \in Keys, Elapse(r, k)
  PROVE  IndInv'
<1>1. TypeOK
  BY DEF IndInv
<1>2. ttl[r][k] \in 0..LeaseTicks /\ ttl[r][k] > 0
  BY <1>1 DEF TypeOK, Elapse
<1>3. ttl[r][k] - 1 \in 0..LeaseTicks
  BY <1>2, LeaseTicksAssumption
<1>4. ttl' = [ttl EXCEPT ![r] = [ttl[r] EXCEPT ![k] = ttl[r][k] - 1]]
  BY DEF Elapse
<1>5. TypeOK'
  BY <1>1, <1>3, <1>4 DEF TypeOK, Elapse
<1>6. \A q \in Runs, j \in Keys : ttl'[q][j] > 0 => ttl[q][j] > 0
  BY <1>1, <1>2, <1>4 DEF TypeOK
<1> QED BY <1>5, <1>6, QuietInd DEF Elapse

\* The final commit status written with the conclusion of a run.
LEMMA FinalWritten ==
  ASSUME TypeOK, NEW r \in Runs, RunInv(r), NEW status, EnqueueFinal(r, status)
  PROVE  /\ final'[r] = IF kind[r] = "checkout" THEN CommitState(status) ELSE "none"
         /\ \A q \in Runs : q # r => final'[q] = final[q]
BY DEF TypeOK, EnqueueFinal, RunInv

\* A leased job belongs to a run that is open or has failed.
LEMMA LeasedRun ==
  ASSUME IndInv, NEW r \in Runs, NEW k \in Keys, jobStatus[r][k] \in Leased
  PROVE  /\ runStatus[r] \in {"queued", "running", "failed"}
         /\ runStatus[r] = "failed" => \E j \in Keys : j # k /\ jobStatus[r][j] = "failed"
<1>1. TypeOK /\ RunInv(r)
  BY DEF IndInv
<1>2. /\ jobStatus[r][k] \in Unfinished
      /\ jobStatus[r][k] \notin {"none", "failed", "succeeded"}
  BY DEF Unfinished, Leased
<1>3. runStatus[r] \notin {"succeeded", "canceled", "absent"}
  BY <1>1, <1>2 DEF RunInv, Verdict, Concluded, NoJobs
<1>4. runStatus[r] = "failed" => \E j \in Keys : j # k /\ jobStatus[r][j] = "failed"
  BY <1>1, <1>2 DEF RunInv, Verdict, NoJobs
<1> QED BY <1>1, <1>3, <1>4 DEF TypeOK, RunStatuses, TerminalRun

\* The outcome of a concluded graph is a sound verdict.
LEMMA OutcomeSound ==
  ASSUME NEW s, Graph(s), \A k \in Keys : s[k] # "none", Concluded(s)
  PROVE  /\ Outcome(s) \in TerminalRun
         /\ Verdict(Outcome(s), s)
         /\ (\E k \in Keys : s[k] = "failed") => Outcome(s) = "failed"
<1>1. Outcome(s) \in TerminalRun
  BY DEF Outcome, TerminalRun
<1>2. Outcome(s) = "succeeded" => \A k \in Keys : s[k] = "succeeded"
  <2> SUFFICES ASSUME Outcome(s) = "succeeded", NEW k \in Keys
               PROVE  s[k] = "succeeded"
    OBVIOUS
  <2>1. \A j \in Keys : s[j] \notin {"failed", "canceled"}
    BY DEF Outcome
  <2>2. s[k] # "skipped"
    BY <2>1 DEF Graph, SkippedForCause
  <2> QED BY <2>1, <2>2 DEF Graph, JobStatuses, JobResults, Concluded
<1>3. Outcome(s) = "failed" => \E k \in Keys : s[k] = "failed"
  BY DEF Outcome
<1>4. (\E k \in Keys : s[k] = "failed") => Outcome(s) = "failed"
  BY DEF Outcome
<1> QED BY <1>1, <1>2, <1>3, <1>4 DEF Verdict

\* A completion.
LEMMA CompleteInd ==
  ASSUME IndInv, NEW w \in Runners, NEW r \in Runs, NEW k \in Keys, NEW result \in JobResults,
         CompleteRunnerJob(w, r, k, result)
  PROVE  IndInv'
<1> DEFINE s == jobStatus[r]
           t == Completed(r, k, result)
<1>1. TypeOK /\ RunInv(r) /\ Graph(s)
  BY SoundGraphs DEF IndInv
<1>2. s[k] \in Leased
  BY DEF CompleteRunnerJob, Holds
<1>3. /\ Graph(t)
      /\ \A j \in Keys : t[j] # "none"
      /\ \A j \in Keys : s[j] = "failed" => t[j] = "failed"
      /\ \A j \in Keys : t[j] \in Leased => j # k /\ s[j] = t[j]
      /\ \A j \in Keys : j # k /\ s[j] \in Leased => t[j] = s[j]
  BY <1>1, <1>2, CompletedGraph DEF Completed
<1> HIDE DEF t
<1>4. jobStatus' = [jobStatus EXCEPT ![r] = t] /\ jobStatus'[r] = t
  BY <1>1 DEF CompleteRunnerJob, TypeOK, t
<1>5. LeaseCoherent(r)'
  <2> SUFFICES ASSUME NEW j \in Keys
               PROVE  /\ t[j] \in Leased => owner[r][j] \in Runners
                      /\ t[j] = "running" => <<r, j>> \in accepted
                      /\ ttl'[r][j] > 0 => t[j] \in Leased
    BY <1>4 DEF LeaseCoherent, CompleteRunnerJob
  <2>1. LeaseCoherent(r)
    BY <1>1 DEF RunInv
  <2>2. ttl'[r][j] > 0 => j # k /\ ttl[r][j] > 0
    BY <1>1 DEF CompleteRunnerJob, TypeOK
  <2> QED BY <1>3, <2>1, <2>2 DEF LeaseCoherent, Leased
<1>6. CASE Concluded(t)
  <2>1. runStatus' = [runStatus EXCEPT ![r] = Outcome(t)] /\ EnqueueFinal(r, Outcome(t))
    BY <1>6 DEF CompleteRunnerJob, t
  <2>2. Outcome(t) \in TerminalRun /\ Verdict(Outcome(t), t)
    BY <1>3, <1>6, OutcomeSound
  <2>3. runStatus'[r] = Outcome(t)
    BY <1>1, <2>1 DEF TypeOK
  <2>4. TypeOK'
    BY <1>1, <1>3, <1>4, <2>1, <2>2, LeaseTicksAssumption
       DEF TypeOK, CompleteRunnerJob, EnqueueFinal, Graph, RunStatuses, TerminalRun, CommitState
  <2>5. RunInv(r)'
    BY <1>1, <1>3, <1>4, <1>5, <2>1, <2>2, <2>3, FinalWritten
       DEF RunInv, Graph, CompleteRunnerJob, TerminalRun
  <2> QED BY <1>1, <1>4, <2>1, <2>4, <2>5, Frame, FinalWritten DEF CompleteRunnerJob, TypeOK
<1>7. CASE ~ Concluded(t)
  <2>1. UNCHANGED <<runStatus, final>>
    BY <1>7 DEF CompleteRunnerJob, t
  <2>2. TypeOK'
    BY <1>1, <1>3, <1>4, <2>1, LeaseTicksAssumption DEF TypeOK, CompleteRunnerJob, Graph
  <2>3. Verdict(runStatus[r], t)
    BY <1>2, <1>3, LeasedRun DEF Verdict
  <2>4. runStatus[r] # "absent"
    BY <1>2, LeasedRun
  <2>5. \E j \in Keys : t[j] \in Unfinished
    BY <1>7 DEF Concluded
  <2>6. RunInv(r)'
    BY <1>1, <1>3, <1>4, <1>5, <2>1, <2>3, <2>4, <2>5 DEF RunInv, Graph, CompleteRunnerJob
  <2> QED BY <1>1, <1>4, <2>1, <2>2, <2>6, Frame DEF CompleteRunnerJob, TypeOK
<1> QED BY <1>6, <1>7

\* Recovery.
LEMMA RecoverInd ==
  ASSUME IndInv, NEW r \in Runs, NEW S \in SUBSET Keys, NEW late \in SUBSET Keys,
         RecoverExpiredRunnerLeases(r, S, late)
  PROVE  IndInv'
<1> DEFINE s == jobStatus[r]
           t == RecoveredJobs(s, S, late)
           back == {k \in S : s[k] = "assigned"}
<1>1. TypeOK /\ RunInv(r) /\ Graph(s)
  BY SoundGraphs DEF IndInv
<1>2. S # {} /\ \A k \in S : s[k] \in Leased /\ ttl[r][k] = 0
  BY DEF RecoverExpiredRunnerLeases, Expired
<1>3. /\ Graph(t)
      /\ \A k \in Keys : s[k] = "failed" => t[k] = "failed"
      /\ \A k \in S : s[k] = "running" => t[k] = "failed"
      /\ (\A k \in S : s[k] = "assigned") => \A k \in S : t[k] = "queued"
      /\ \A k \in Keys : s[k] \in Leased /\ k \notin S => t[k] = s[k]
      /\ \A k \in Keys : t[k] \in Leased => k \notin S /\ s[k] = t[k]
  <2>1. \A k \in S : s[k] \in Leased
    BY <1>2
  <2> HIDE DEF s, t
  <2>2. Graph(s)
    BY <1>1
  <2>3. t = RecoveredJobs(s, S, late)
    BY DEF t
  <2> HIDE DEF back
  <2>4. Recovered(s, t, S)
    BY <2>1, <2>2, <2>3, RecoveredGraph
  <2> QED BY <2>4 DEF Recovered
<1>4. jobStatus' = [jobStatus EXCEPT ![r] = t] /\ jobStatus'[r] = t
  BY <1>1 DEF RecoverExpiredRunnerLeases, TypeOK
<1>5. /\ owner' = [owner EXCEPT ![r] = [k \in Keys |-> IF k \in back THEN NoRunner ELSE owner[r][k]]]
      /\ accepted' = accepted \ ({r} \X back)
      /\ UNCHANGED <<kind, ttl, disabled, descriptor, pending, rerunKey>>
  BY DEF RecoverExpiredRunnerLeases
<1>6. \/ /\ S # back /\ runStatus' = [runStatus EXCEPT ![r] = "failed"]
         /\ EnqueueFinal(r, "failed")
      \/ /\ S = back /\ \A k \in Keys : t[k] \notin {"running"} \cup JobResults
         /\ runStatus' = [runStatus EXCEPT ![r] = "queued"] /\ UNCHANGED final
      \/ S = back /\ UNCHANGED <<runStatus, final>>
  BY DEF RecoverExpiredRunnerLeases
<1> HIDE DEF t
<1>7. LeaseCoherent(r)'
  <2> SUFFICES ASSUME NEW k \in Keys
               PROVE  /\ t[k] \in Leased => owner'[r][k] \in Runners
                      /\ t[k] = "running" => <<r, k>> \in accepted'
                      /\ ttl[r][k] > 0 => t[k] \in Leased
    BY <1>4, <1>5 DEF LeaseCoherent
  <2>1. LeaseCoherent(r)
    BY <1>1 DEF RunInv
  <2>2. owner'[r][k] = IF k \in back THEN NoRunner ELSE owner[r][k]
    BY <1>1, <1>5 DEF TypeOK
  <2>3. t[k] \in Leased => owner'[r][k] \in Runners
    BY <1>3, <2>1, <2>2 DEF LeaseCoherent
  <2>4. t[k] = "running" => <<r, k>> \in accepted'
    BY <1>3, <1>5, <2>1 DEF LeaseCoherent, Leased
  <2>5. ttl[r][k] > 0 => t[k] \in Leased
    <3> SUFFICES ASSUME ttl[r][k] > 0 PROVE t[k] \in Leased
      OBVIOUS
    <3>1. k \notin S
      BY <1>2
    <3>2. s[k] \in Leased
      BY <2>1 DEF LeaseCoherent
    <3> QED BY <1>3, <3>1, <3>2
  <2> QED BY <2>3, <2>4, <2>5
<1>8. PICK k \in Keys : k \in S
  BY <1>2
<1>9. /\ runStatus[r] \in {"queued", "running", "failed"}
      /\ runStatus[r] = "failed" => \E j \in Keys : s[j] = "failed"
  BY <1>2, <1>8, LeasedRun
<1>10. CASE /\ S # back /\ runStatus' = [runStatus EXCEPT ![r] = "failed"]
            /\ EnqueueFinal(r, "failed")
  <2>1. PICK j \in S : s[j] = "running"
    BY <1>2, <1>10 DEF Leased
  <2>2. t[j] = "failed"
    BY <1>3, <2>1
  <2>3. TypeOK'
    BY <1>1, <1>3, <1>4, <1>5, <1>10, RunnersAssumption
       DEF TypeOK, EnqueueFinal, Graph, RunStatuses, TerminalRun, CommitState
  <2>4. runStatus'[r] = "failed"
    BY <1>1, <1>10 DEF TypeOK
  <2>5. RunInv(r)'
    BY <1>1, <1>3, <1>4, <1>5, <1>7, <1>10, <2>1, <2>2, <2>4, FinalWritten DEF RunInv, Graph, Verdict
  <2> QED BY <1>1, <1>4, <1>5, <1>10, <2>3, <2>5, Frame, FinalWritten DEF TypeOK
<1>11. CASE /\ S = back /\ runStatus'[r] \in {"queued", runStatus[r]} /\ UNCHANGED final
            /\ (runStatus[r] = "failed" => runStatus'[r] = "failed")
            /\ \A q \in Runs : q # r => runStatus'[q] = runStatus[q]
            /\ runStatus' \in [Runs -> RunStatuses]
  <2>1. \A j \in S : t[j] = "queued"
    BY <1>3, <1>11
  <2>2. TypeOK'
    <3>1. owner' \in [Runs -> [Keys -> Runners \cup {NoRunner}]]
      BY <1>1, <1>5 DEF TypeOK
    <3>2. jobStatus' \in [Runs -> [Keys -> JobStatuses]]
      BY <1>1, <1>3, <1>4 DEF TypeOK, Graph
    <3>3. accepted' \subseteq Runs \X Keys
      BY <1>1, <1>5 DEF TypeOK
    <3> HIDE DEF s, back
    <3> QED BY <1>1, <1>5, <1>11, <3>1, <3>2, <3>3 DEF TypeOK
  <2>3. t[k] \in Unfinished
    BY <2>1, <1>8 DEF Unfinished, Waiting
  <2>4. Verdict(runStatus'[r], t)
    BY <1>3, <1>9, <1>11 DEF Verdict
  <2>5. CommitState(runStatus'[r]) = CommitState(runStatus[r])
    BY <1>9, <1>11 DEF CommitState
  <2>6. runStatus'[r] # "absent"
    BY <1>9, <1>11
  <2>7. RunInv(r)'
    BY <1>1, <1>3, <1>4, <1>5, <1>7, <1>11, <2>3, <2>4, <2>5, <2>6 DEF RunInv, Graph
  <2> QED BY <1>1, <1>4, <1>5, <1>11, <2>2, <2>7, Frame DEF TypeOK
<1>12. CASE /\ S = back /\ \A j \in Keys : t[j] \notin {"running"} \cup JobResults
            /\ runStatus' = [runStatus EXCEPT ![r] = "queued"] /\ UNCHANGED final
  <2>1. runStatus[r] # "failed"
    BY <1>3, <1>9, <1>12 DEF JobResults
  <2> QED BY <1>1, <1>11, <1>12, <2>1 DEF TypeOK, RunStatuses
<1>13. CASE S = back /\ UNCHANGED <<runStatus, final>>
  BY <1>1, <1>11, <1>13 DEF TypeOK
<1> QED BY <1>6, <1>10, <1>12, <1>13

\* Cancellation.
LEMMA CancelInd ==
  ASSUME IndInv, NEW r \in Runs, CancelAuthorizedRun(r)
  PROVE  IndInv'
<1> DEFINE s == jobStatus[r]
           t == [k \in Keys |-> IF s[k] \in Unfinished THEN "canceled" ELSE s[k]]
<1>1. TypeOK /\ RunInv(r) /\ Graph(s)
  BY SoundGraphs DEF IndInv
<1>2. Graph(t)
  BY <1>1, CanceledGraph
<1>3. Concluded(t) /\ \A k \in Keys : t[k] \notin Leased
  BY DEF Concluded, Unfinished, Waiting, Leased
<1>4. /\ jobStatus' = [jobStatus EXCEPT ![r] = t] /\ jobStatus'[r] = t
      /\ ttl' = [ttl EXCEPT ![r] = [k \in Keys |-> 0]] /\ ttl'[r] = [k \in Keys |-> 0]
      /\ runStatus' = [runStatus EXCEPT ![r] = "canceled"] /\ runStatus'[r] = "canceled"
      /\ EnqueueFinal(r, "canceled")
      /\ UNCHANGED <<kind, owner, accepted, disabled, descriptor, pending, rerunKey>>
  BY <1>1 DEF CancelAuthorizedRun, TypeOK
<1> HIDE DEF t
<1>5. TypeOK'
  BY <1>1, <1>2, <1>4, LeaseTicksAssumption
     DEF TypeOK, EnqueueFinal, Graph, RunStatuses, TerminalRun, CommitState
<1>6. LeaseCoherent(r)'
  BY <1>3, <1>4 DEF LeaseCoherent, Leased
<1>7. RunInv(r)'
  BY <1>1, <1>2, <1>3, <1>4, <1>6, FinalWritten DEF RunInv, Graph, Verdict
<1> QED BY <1>1, <1>4, <1>5, <1>7, Frame, FinalWritten DEF TypeOK

\* Every step preserves the invariant.
LEMMA NextInd == IndInv /\ [Next]_vars => IndInv'
<1> SUFFICES ASSUME IndInv, [Next]_vars PROVE IndInv'
  OBVIOUS
<1>1. CASE \E r \in Runs, c \in Kinds : CreateRun(r, c)
  BY <1>1, CreateInd
<1>2. CASE \E r \in Runs : CreateFailedRun(r)
  BY <1>2, CreateFailedInd
<1>3. CASE \E o, n \in Runs, mode \in Modes, q \in Requests : RerunAuthorizedRun(o, n, mode, q)
  BY <1>3, RerunInd
<1>4. CASE \E w \in Runners, r \in Runs, k \in Keys : ClaimRunnerJob(w, r, k)
  BY <1>4, ClaimInd
<1>5. CASE \E w \in Runners, r \in Runs, k \in Keys : ReleaseRunnerJob(w, r, k)
  BY <1>5, ReleaseInd
<1>6. CASE \E w \in Runners, r \in Runs, k \in Keys : AcknowledgeRunnerJob(w, r, k)
  BY <1>6, AcknowledgeInd
<1>7. CASE \E w \in Runners, r \in Runs, k \in Keys : StartRunnerJob(w, r, k)
  BY <1>7, StartInd
<1>8. CASE \E w \in Runners : \E S \in SUBSET Assigned(w), d \in Descriptors[w] :
             RenewRunnerLeases(w, S, d)
  BY <1>8, RenewInd, DescriptorsAssumption
<1>9. CASE \E w \in Runners, r \in Runs, k \in Keys, result \in JobResults :
             CompleteRunnerJob(w, r, k, result)
  BY <1>9, CompleteInd
<1>10. CASE \E r \in Runs, S \in SUBSET Keys, late \in SUBSET Keys :
              RecoverExpiredRunnerLeases(r, S, late)
  BY <1>10, RecoverInd
<1>11. CASE \E r \in Runs : CancelAuthorizedRun(r)
  BY <1>11, CancelInd
<1>12. CASE \E w \in Retirable : DisableRunner(w)
  BY <1>12, DisableInd
<1>13. CASE \E r \in Runs, k \in Keys : Elapse(r, k)
  BY <1>13, ElapseInd
<1>14. CASE UNCHANGED vars
  BY <1>14 DEF vars, IndInv, TypeOK, RunInv, LeaseCoherent
<1> QED
  BY <1>1, <1>2, <1>3, <1>4, <1>5, <1>6, <1>7, <1>8, <1>9, <1>10, <1>11, <1>12, <1>13, <1>14
  DEF Next

\* The invariant holds in every reachable state.
THEOREM Invariance == Spec => []IndInv
BY InitInd, NextInd, PTL DEF Spec

-----------------------------------------------------------------------------
(* The safety invariants.                                                  *)

\* The tables keep their types under every sequence of transactions.
THEOREM TypeCorrect == Spec => []TypeOK
<1>1. IndInv => TypeOK
  BY DEF IndInv
<1> QED BY <1>1, Invariance, PTL

\* No job is offered or executed before the jobs it depends on succeeded.
THEOREM DependenciesHold == Spec => []DependenciesRespected
<1>1. IndInv => DependenciesRespected
  BY DEF IndInv, RunInv, DependenciesRespected
<1> QED BY <1>1, Invariance, PTL

\* A blocked job always waits for a job that can still finish.
THEOREM NoJoinForgotten == Spec => []BlockedAwaitsWork
<1>1. IndInv => BlockedAwaitsWork
  <2> SUFFICES ASSUME IndInv, NEW r \in Runs, NEW k \in Keys, jobStatus[r][k] = "blocked"
               PROVE  \E d \in Deps[k] : jobStatus[r][d] \in Unfinished
    BY DEF BlockedAwaitsWork
  <2>1. PICK d \in Deps[k] : jobStatus[r][d] # "succeeded"
    BY DEF IndInv, RunInv, BlockedInOrder
  <2>2. d \in Keys
    BY DepsAssumption
  <2>3. jobStatus[r][d] \notin {"none", "skipped", "failed", "canceled"}
    BY <2>2 DEF IndInv, RunInv, BlockedInOrder
  <2>4. jobStatus[r][d] \in JobStatuses
    BY <2>2 DEF IndInv, TypeOK
  <2> QED BY <2>1, <2>3, <2>4 DEF JobStatuses, JobResults
<1> QED BY <1>1, Invariance, PTL

\* The verdict of a finished run is the verdict of its jobs.
THEOREM VerdictsSound == Spec => []VerdictSound
<1>1. IndInv => VerdictSound
  BY DEF IndInv, RunInv, VerdictSound
<1> QED BY <1>1, Invariance, PTL

\* A run that is not finished still has a job to finish.
THEOREM OpenRunsHaveWork == Spec => []OpenRunHasWork
<1>1. IndInv => OpenRunHasWork
  BY DEF IndInv, RunInv, OpenRunHasWork
<1> QED BY <1>1, Invariance, PTL

\* The final commit status in the outbox agrees with the run.
THEOREM OutboxAgreement == Spec => []OutboxAgrees
<1>1. IndInv => OutboxAgrees
  BY DEF IndInv, RunInv, OutboxAgrees, TypeOK, RunStatuses, TerminalRun, CommitState
<1> QED BY <1>1, Invariance, PTL

\* The completion of a job never contradicts a verdict reached before.
LEMMA OutcomeStable ==
  ASSUME IndInv, NEW r \in Runs, NEW k \in Keys, NEW result \in JobResults,
         jobStatus[r][k] \in Leased, Concluded(Completed(r, k, result))
  PROVE  runStatus[r] = "failed" => Outcome(Completed(r, k, result)) = "failed"
<1> DEFINE t == Completed(r, k, result)
<1>1. Graph(jobStatus[r])
  BY SoundGraphs
<1>2. /\ Graph(t)
      /\ \A j \in Keys : t[j] # "none"
      /\ \A j \in Keys : jobStatus[r][j] = "failed" => t[j] = "failed"
  BY <1>1, CompletedGraph DEF Completed
<1> HIDE DEF t
<1>3. runStatus[r] = "failed" => \E j \in Keys : t[j] = "failed"
  BY <1>2, LeasedRun
<1>4. (\E j \in Keys : t[j] = "failed") => Outcome(t) = "failed"
  BY DEF Outcome
<1> QED BY <1>3, <1>4 DEF t

\* Whatever a Runner reports for a job it holds can be recorded, and its loss too.
THEOREM ResultsAlwaysRecordable == Spec => []ResultsRecordable
<1>1. IndInv => ResultsRecordable
  <2> SUFFICES ASSUME IndInv, NEW r \in Runs, NEW k \in Keys, jobStatus[r][k] \in Leased
               PROVE  /\ \A result \in JobResults :
                           Concluded(Completed(r, k, result)) =>
                             FinalCompatible(r, Outcome(Completed(r, k, result)))
                      /\ FinalCompatible(r, "failed")
    BY DEF ResultsRecordable
  <2>1. runStatus[r] \in {"queued", "running", "failed"}
    BY LeasedRun
  <2>2. kind[r] = "checkout" => final[r] = CommitState(runStatus[r])
    BY DEF IndInv, RunInv
  <2>3. ASSUME NEW result \in JobResults, Concluded(Completed(r, k, result))
        PROVE  FinalCompatible(r, Outcome(Completed(r, k, result)))
    <3>1. CASE runStatus[r] = "failed"
      BY <2>2, <2>3, <3>1, OutcomeStable DEF FinalCompatible
    <3>2. CASE runStatus[r] \in {"queued", "running"}
      BY <2>2, <3>2 DEF FinalCompatible, CommitState
    <3> QED BY <2>1, <3>1, <3>2
  <2>4. FinalCompatible(r, "failed")
    BY <2>1, <2>2 DEF FinalCompatible, CommitState
  <2> QED BY <2>3, <2>4
<1> QED BY <1>1, Invariance, PTL

-----------------------------------------------------------------------------
(* What a step may never do.                                               *)

\* Leases that are live after a step were live before it, with the same owner.
LeasesShrink ==
  \A r \in Runs, k \in Keys :
    jobStatus'[r][k] \in Leased /\ ttl'[r][k] > 0 =>
      jobStatus[r][k] \in Leased /\ ttl[r][k] > 0 /\ owner'[r][k] = owner[r][k]

\* What every step but a claim keeps.
Kept == ResultsKept /\ VerdictKept /\ OwnersKept /\ LeasesShrink

\* Inserting a run leaves results, verdicts and leases of the others alone.
LEMMA InsertKept ==
  ASSUME IndInv, NEW r \in Runs, NEW c, NEW status, NEW jobs, NEW request,
         \A k \in Keys : jobs[k] \notin Leased,
         InsertRun(r, c, status, jobs, request)
  PROVE  Kept
<1>1. TypeOK /\ RunInv(r) /\ runStatus[r] = "absent"
  BY DEF IndInv, InsertRun, Fresh
<1>2. \A k \in Keys : jobStatus[r][k] = "none"
  BY <1>1 DEF RunInv, NoJobs
<1>3. jobStatus'[r] = jobs /\ \A q \in Runs : q # r => jobStatus'[q] = jobStatus[q]
  BY <1>1 DEF InsertRun, TypeOK
<1>4. \A q \in Runs : q # r => runStatus'[q] = runStatus[q]
  BY <1>1 DEF InsertRun, TypeOK
<1>5. owner' = owner /\ ttl' = ttl
  BY DEF InsertRun
<1>6. ResultsKept
  BY <1>2, <1>3 DEF ResultsKept, JobResults
<1>7. VerdictKept
  BY <1>1, <1>4 DEF VerdictKept, TerminalRun
<1>8. OwnersKept /\ LeasesShrink
  BY <1>3, <1>5 DEF OwnersKept, LeasesShrink
<1> QED BY <1>6, <1>7, <1>8 DEF Kept

\* The transactions that create a run keep what others have recorded.
LEMMA CreationKept ==
  ASSUME IndInv,
         \/ \E r \in Runs, c \in Kinds : CreateRun(r, c)
         \/ \E r \in Runs : CreateFailedRun(r)
         \/ \E o, n \in Runs, mode \in Modes, q \in Requests : RerunAuthorizedRun(o, n, mode, q)
  PROVE  Kept
<1>1. \A k \in Keys : PlannedJobs[k] \notin Leased /\ NoJobs[k] \notin Leased
  BY DEF PlannedJobs, NoJobs, Leased
<1>2. CASE \E r \in Runs, c \in Kinds : CreateRun(r, c)
  BY <1>1, <1>2, InsertKept DEF CreateRun
<1>3. CASE \E r \in Runs : CreateFailedRun(r)
  BY <1>1, <1>3, InsertKept DEF CreateFailedRun
<1>4. CASE \E o, n \in Runs, mode \in Modes, q \in Requests : RerunAuthorizedRun(o, n, mode, q)
  <2>1. PICK o \in Runs, n \in Runs, mode \in Modes, q \in Requests :
          RerunAuthorizedRun(o, n, mode, q)
    BY <1>4
  <2>2. \A k \in Keys : RerunJobs(o, mode)[k] \notin Leased
    BY DEF RerunJobs, Reused, Unblock, PlannedJobs, Leased
  <2>3. InsertRun(n, kind[o], "queued", RerunJobs(o, mode), <<o, mode, q>>)
    BY <2>1 DEF RerunAuthorizedRun
  <2> QED BY <2>2, <2>3, InsertKept
<1> QED BY <1>2, <1>3, <1>4

\* A claim takes no result, no verdict and no job that somebody holds.
LEMMA ClaimKept ==
  ASSUME IndInv, NEW w \in Runners, NEW r \in Runs, NEW k \in Keys, ClaimRunnerJob(w, r, k)
  PROVE  ResultsKept /\ VerdictKept
<1>1. TypeOK /\ jobStatus[r][k] = "queued" /\ runStatus[r] \in {"queued", "running"}
  BY DEF IndInv, ClaimRunnerJob, Matching, Claimable
<1>2. ResultsKept
  BY <1>1 DEF ResultsKept, ClaimRunnerJob, TypeOK, JobResults
<1>3. VerdictKept
  BY <1>1 DEF VerdictKept, ClaimRunnerJob, TypeOK, TerminalRun
<1> QED BY <1>2, <1>3

\* A release gives back a job that was never accepted.
LEMMA ReleaseKept ==
  ASSUME IndInv, NEW w \in Runners, NEW r \in Runs, NEW k \in Keys, ReleaseRunnerJob(w, r, k)
  PROVE  Kept
<1>1. TypeOK /\ jobStatus[r][k] = "assigned" /\ <<r, k>> \notin accepted
  BY DEF IndInv, ReleaseRunnerJob
<1>2. ResultsKept
  BY <1>1 DEF ResultsKept, ReleaseRunnerJob, TypeOK, JobResults
<1>3. VerdictKept
  BY DEF VerdictKept, ReleaseRunnerJob
<1>4. OwnersKept
  BY <1>1 DEF OwnersKept, ReleaseRunnerJob, TypeOK
<1>5. LeasesShrink
  BY <1>1 DEF LeasesShrink, ReleaseRunnerJob, TypeOK, Leased
<1> QED BY <1>2, <1>3, <1>4, <1>5 DEF Kept

\* A start keeps results, verdicts and owners.
LEMMA StartKept ==
  ASSUME IndInv, NEW w \in Runners, NEW r \in Runs, NEW k \in Keys, StartRunnerJob(w, r, k)
  PROVE  Kept
<1>1. TypeOK /\ jobStatus[r][k] \in Leased
  BY DEF IndInv, StartRunnerJob, Holds
<1>2. ResultsKept
  BY <1>1 DEF ResultsKept, StartRunnerJob, TypeOK, JobResults, Leased
<1>3. VerdictKept /\ OwnersKept
  BY DEF VerdictKept, OwnersKept, StartRunnerJob
<1>4. LeasesShrink
  BY <1>1 DEF LeasesShrink, StartRunnerJob, TypeOK
<1> QED BY <1>2, <1>3, <1>4 DEF Kept

\* A step that changes neither statuses nor owners keeps them.
LEMMA QuietKept ==
  ASSUME IndInv, UNCHANGED <<runStatus, jobStatus, owner>>,
         \A r \in Runs, k \in Keys : ttl'[r][k] > 0 => ttl[r][k] > 0
  PROVE  Kept
BY DEF Kept, ResultsKept, VerdictKept, OwnersKept, LeasesShrink

\* A completion ends one job and keeps all earlier results.
LEMMA CompleteKept ==
  ASSUME IndInv, NEW w \in Runners, NEW r \in Runs, NEW k \in Keys, NEW result \in JobResults,
         CompleteRunnerJob(w, r, k, result)
  PROVE  Kept
<1> DEFINE s == jobStatus[r]
           t == Completed(r, k, result)
<1>1. TypeOK /\ Graph(s) /\ s[k] \in Leased
  BY SoundGraphs DEF IndInv, CompleteRunnerJob, Holds
<1>2. /\ t[k] = result
      /\ \A j \in Keys : t[j] \in Leased => j # k /\ s[j] = t[j]
      /\ \A j \in Keys : j # k /\ s[j] \in Leased => t[j] = s[j]
  BY <1>1, CompletedGraph DEF Completed
<1>3. \A j \in Keys : s[j] \in JobResults \cup {"skipped"} => t[j] = s[j]
  BY <1>1 DEF Completed, Propagate, Unblock, Skip, Graph, JobResults, Leased, Waiting
<1> HIDE DEF t
<1>4. jobStatus'[r] = t /\ \A q \in Runs : q # r => jobStatus'[q] = jobStatus[q]
  BY <1>1 DEF CompleteRunnerJob, TypeOK, t
<1>5. ResultsKept
  BY <1>1, <1>2, <1>3, <1>4 DEF ResultsKept, Leased
<1>6. VerdictKept
  <2>1. CASE Concluded(t)
    <3>1. runStatus[r] = "failed" => Outcome(t) = "failed"
      BY <1>1, <2>1, OutcomeStable DEF t
    <3>2. runStatus' = [runStatus EXCEPT ![r] = Outcome(t)]
      BY <2>1 DEF CompleteRunnerJob, t
    <3>3. runStatus[r] \in {"queued", "running", "failed"}
      BY <1>1, LeasedRun
    <3> QED BY <1>1, <3>1, <3>2, <3>3 DEF VerdictKept, TerminalRun, TypeOK
  <2>2. CASE ~ Concluded(t)
    BY <2>2 DEF VerdictKept, CompleteRunnerJob, t
  <2> QED BY <2>1, <2>2
<1>7. OwnersKept
  BY DEF OwnersKept, CompleteRunnerJob
<1>8. \A q \in Runs, j \in Keys : ttl'[q][j] > 0 => ttl[q][j] > 0
  BY <1>1 DEF CompleteRunnerJob, TypeOK
<1>9. LeasesShrink
  BY <1>2, <1>4, <1>8 DEF LeasesShrink, CompleteRunnerJob
<1> QED BY <1>5, <1>6, <1>7, <1>9 DEF Kept

\* Recovery ends or requeues expired jobs and keeps all earlier results.
LEMMA RecoverKept ==
  ASSUME IndInv, NEW r \in Runs, NEW S \in SUBSET Keys, NEW late \in SUBSET Keys,
         RecoverExpiredRunnerLeases(r, S, late)
  PROVE  Kept
<1> DEFINE s == jobStatus[r]
           t == RecoveredJobs(s, S, late)
           back == {k \in S : s[k] = "assigned"}
<1>1. TypeOK /\ Graph(s)
  BY SoundGraphs DEF IndInv
<1>2. S # {} /\ \A k \in S : s[k] \in Leased /\ ttl[r][k] = 0
  BY DEF RecoverExpiredRunnerLeases, Expired
<1>3. Recovered(s, t, S)
  <2> HIDE DEF s
  <2> QED BY <1>1, <1>2, RecoveredGraph
<1>4. jobStatus'[r] = t /\ \A q \in Runs : q # r => jobStatus'[q] = jobStatus[q]
  BY <1>1 DEF RecoverExpiredRunnerLeases, TypeOK
<1>5. /\ \A k \in Keys : owner'[r][k] = IF k \in back THEN NoRunner ELSE owner[r][k]
      /\ \A q \in Runs : q # r => owner'[q] = owner[q]
      /\ ttl' = ttl
  BY <1>1 DEF RecoverExpiredRunnerLeases, TypeOK
<1>6. \/ runStatus' = [runStatus EXCEPT ![r] = "failed"]
      \/ /\ \A k \in Keys : t[k] \notin {"running"} \cup JobResults
         /\ runStatus' = [runStatus EXCEPT ![r] = "queued"]
      \/ UNCHANGED runStatus
  BY DEF RecoverExpiredRunnerLeases
<1> HIDE DEF t
<1>7. ResultsKept
  <2>1. \A k \in Keys : s[k] = "running" => t[k] \in {"running"} \cup JobResults
    BY <1>3 DEF Recovered, JobResults, Leased
  <2> QED BY <1>3, <1>4, <2>1 DEF ResultsKept, Recovered
<1>8. VerdictKept
  <2>1. PICK k \in Keys : k \in S
    BY <1>2
  <2>2. /\ runStatus[r] \in {"queued", "running", "failed"}
        /\ runStatus[r] = "failed" => \E j \in Keys : s[j] = "failed"
    BY <1>2, <2>1, LeasedRun
  <2>3. runStatus[r] = "failed" => \E j \in Keys : t[j] = "failed"
    BY <2>2, <1>3 DEF Recovered
  <2> QED BY <1>1, <1>6, <2>2, <2>3 DEF VerdictKept, TypeOK, TerminalRun, JobResults
<1>9. OwnersKept
  BY <1>2, <1>5 DEF OwnersKept
<1>10. LeasesShrink
  <2>1. \A k \in Keys : t[k] \in Leased => k \notin back /\ s[k] = t[k]
    BY <1>3 DEF Recovered
  <2> QED BY <1>4, <1>5, <2>1 DEF LeasesShrink
<1> QED BY <1>7, <1>8, <1>9, <1>10 DEF Kept

\* A cancellation keeps the results and the owners of the jobs.
LEMMA CancelKept ==
  ASSUME IndInv, NEW r \in Runs, CancelAuthorizedRun(r)
  PROVE  Kept
<1> DEFINE t == [k \in Keys |-> IF jobStatus[r][k] \in Unfinished THEN "canceled" ELSE jobStatus[r][k]]
<1>1. TypeOK /\ runStatus[r] \in {"queued", "running"}
  BY DEF IndInv, CancelAuthorizedRun
<1>2. jobStatus'[r] = t /\ \A q \in Runs : q # r => jobStatus'[q] = jobStatus[q]
  BY <1>1 DEF CancelAuthorizedRun, TypeOK
<1>3. \A q \in Runs : q # r => runStatus'[q] = runStatus[q] /\ ttl'[q] = ttl[q]
  BY <1>1 DEF CancelAuthorizedRun, TypeOK
<1>4. ResultsKept
  BY <1>2 DEF ResultsKept, JobResults, Unfinished, Waiting, Leased
<1>5. VerdictKept
  BY <1>1, <1>3 DEF VerdictKept, TerminalRun
<1>6. OwnersKept
  BY DEF OwnersKept, CancelAuthorizedRun
<1>7. LeasesShrink
  BY <1>2, <1>3 DEF LeasesShrink, CancelAuthorizedRun, Unfinished, Leased
<1> QED BY <1>4, <1>5, <1>6, <1>7 DEF Kept

\* A step keeps all of it, or is a claim.
LEMMA NextKept ==
  ASSUME IndInv, [Next]_vars
  PROVE  Kept \/ \E w \in Runners, r \in Runs, k \in Keys : ClaimRunnerJob(w, r, k)
<1>1. CASE \/ \E r \in Runs, c \in Kinds : CreateRun(r, c)
           \/ \E r \in Runs : CreateFailedRun(r)
           \/ \E o, n \in Runs, mode \in Modes, q \in Requests : RerunAuthorizedRun(o, n, mode, q)
  BY <1>1, CreationKept
<1>2. CASE \E w \in Runners, r \in Runs, k \in Keys : ReleaseRunnerJob(w, r, k)
  BY <1>2, ReleaseKept
<1>3. CASE \E w \in Runners, r \in Runs, k \in Keys : AcknowledgeRunnerJob(w, r, k)
  BY <1>3, QuietKept DEF AcknowledgeRunnerJob
<1>4. CASE \E w \in Runners, r \in Runs, k \in Keys : StartRunnerJob(w, r, k)
  BY <1>4, StartKept
<1>5. CASE \E w \in Runners : \E S \in SUBSET Assigned(w), d \in Descriptors[w] :
             RenewRunnerLeases(w, S, d)
  <2>1. \A r \in Runs, k \in Keys : ttl'[r][k] > 0 => ttl[r][k] > 0
    BY <1>5 DEF RenewRunnerLeases, Holds
  <2> QED BY <1>5, <2>1, QuietKept DEF RenewRunnerLeases
<1>6. CASE \E w \in Runners, r \in Runs, k \in Keys, result \in JobResults :
             CompleteRunnerJob(w, r, k, result)
  BY <1>6, CompleteKept
<1>7. CASE \E r \in Runs, S \in SUBSET Keys, late \in SUBSET Keys :
             RecoverExpiredRunnerLeases(r, S, late)
  BY <1>7, RecoverKept
<1>8. CASE \E r \in Runs : CancelAuthorizedRun(r)
  BY <1>8, CancelKept
<1>9. CASE \E w \in Retirable : DisableRunner(w)
  BY <1>9, QuietKept DEF DisableRunner
<1>10. CASE \E r \in Runs, k \in Keys : Elapse(r, k)
  <2>1. PICK r \in Runs, k \in Keys : Elapse(r, k)
    BY <1>10
  <2>2. \A q \in Runs, j \in Keys : ttl'[q][j] > 0 => ttl[q][j] > 0
    BY <2>1 DEF Elapse, IndInv, TypeOK
  <2> QED BY <2>1, <2>2, QuietKept DEF Elapse
<1>11. CASE UNCHANGED vars
  BY <1>11, QuietKept DEF vars
<1> QED
  BY <1>1, <1>2, <1>3, <1>4, <1>5, <1>6, <1>7, <1>8, <1>9, <1>10, <1>11 DEF Next

\* Finished work and verdicts: claims keep them too.
LEMMA NextKeepsResults == IndInv /\ [Next]_vars => ResultsKept /\ VerdictKept
BY NextKept, ClaimKept DEF Kept

\* Work that has started is never handed out again, and keeps its result.
THEOREM NeverRerun == Spec => StartedOnce
<1>1. IndInv /\ [Next]_vars => [ResultsKept]_vars
  BY NextKeepsResults
<1> QED BY <1>1, Invariance, PTL DEF Spec, StartedOnce

\* A finished run keeps its verdict.
THEOREM VerdictsFinal == Spec => VerdictFinal
<1>1. IndInv /\ [Next]_vars => [VerdictKept]_vars
  BY NextKeepsResults
<1> QED BY <1>1, Invariance, PTL DEF Spec, VerdictFinal

-----------------------------------------------------------------------------
(* Ownership.                                                              *)

\* A job that waits to be handed out belongs to nobody.
WaitingUnowned ==
  \A r \in Runs, k \in Keys : jobStatus[r][k] \in {"none"} \cup Waiting => owner[r][k] = NoRunner

\* A job that waits to be handed out has no owner, and every step keeps it so.
LEMMA WaitingUnownedStep == IndInv /\ WaitingUnowned /\ [Next]_vars => WaitingUnowned'
<1> SUFFICES ASSUME IndInv, WaitingUnowned, [Next]_vars PROVE WaitingUnowned'
  OBVIOUS
<1> USE DEF WaitingUnowned
<1>0. TypeOK
  BY DEF IndInv
<1>1. ASSUME NEW r \in Runs, NEW c, NEW status, NEW jobs, NEW request,
             InsertRun(r, c, status, jobs, request)
      PROVE  WaitingUnowned'
  <2>1. \A k \in Keys : jobStatus[r][k] = "none"
    BY <1>1 DEF IndInv, RunInv, InsertRun, Fresh, NoJobs
  <2>2. \A k \in Keys : owner[r][k] = NoRunner
    BY <2>1
  <2> QED BY <1>0, <1>1, <2>2 DEF InsertRun, TypeOK
<1>2. CASE \/ \E r \in Runs, c \in Kinds : CreateRun(r, c)
           \/ \E r \in Runs : CreateFailedRun(r)
           \/ \E o, n \in Runs, mode \in Modes, q \in Requests : RerunAuthorizedRun(o, n, mode, q)
  BY <1>1, <1>2 DEF CreateRun, CreateFailedRun, RerunAuthorizedRun
<1>3. CASE \E w \in Runners, r \in Runs, k \in Keys : ClaimRunnerJob(w, r, k)
  BY <1>0, <1>3 DEF ClaimRunnerJob, TypeOK, Waiting
<1>4. CASE \E w \in Runners, r \in Runs, k \in Keys : ReleaseRunnerJob(w, r, k)
  BY <1>0, <1>4 DEF ReleaseRunnerJob, TypeOK, Waiting
<1>5. CASE \E w \in Runners, r \in Runs, k \in Keys : StartRunnerJob(w, r, k)
  BY <1>0, <1>5 DEF StartRunnerJob, TypeOK, Waiting
<1>6. CASE \E w \in Runners, r \in Runs, k \in Keys, result \in JobResults :
             CompleteRunnerJob(w, r, k, result)
  <2>1. PICK w \in Runners, r \in Runs, k \in Keys, result \in JobResults :
          CompleteRunnerJob(w, r, k, result)
    BY <1>6
  <2>2. \A j \in Keys : Completed(r, k, result)[j] \in {"none"} \cup Waiting =>
                          jobStatus[r][j] \in {"none"} \cup Waiting
    BY <1>0 DEF Completed, Propagate, Unblock, Skip, Waiting, JobResults, TypeOK
  <2> QED BY <1>0, <2>1, <2>2 DEF CompleteRunnerJob, TypeOK
<1>7. CASE \E r \in Runs, S \in SUBSET Keys, late \in SUBSET Keys :
             RecoverExpiredRunnerLeases(r, S, late)
  <2>1. PICK r \in Runs, S \in SUBSET Keys, late \in SUBSET Keys :
          RecoverExpiredRunnerLeases(r, S, late)
    BY <1>7
  <2> DEFINE back == {k \in S : jobStatus[r][k] = "assigned"}
  <2>2. \A k \in S : jobStatus[r][k] \in Leased
    BY <2>1 DEF RecoverExpiredRunnerLeases, Expired
  <2>3. \A k \in Keys : RecoveredJobs(jobStatus[r], S, late)[k] \in {"none"} \cup Waiting =>
                          k \in back \/ jobStatus[r][k] \in {"none"} \cup Waiting
    BY <2>2 DEF RecoveredJobs, Skip, Waiting, Leased
  <2>4. /\ \A k \in Keys : owner'[r][k] = IF k \in back THEN NoRunner ELSE owner[r][k]
        /\ \A q \in Runs : q # r => owner'[q] = owner[q]
        /\ jobStatus'[r] = RecoveredJobs(jobStatus[r], S, late)
        /\ \A q \in Runs : q # r => jobStatus'[q] = jobStatus[q]
    BY <1>0, <2>1 DEF RecoverExpiredRunnerLeases, TypeOK
  <2> QED BY <2>3, <2>4
<1>8. CASE \E r \in Runs : CancelAuthorizedRun(r)
  BY <1>0, <1>8 DEF CancelAuthorizedRun, TypeOK, Waiting
<1>9. CASE UNCHANGED <<jobStatus, owner>>
  BY <1>9
<1> QED
  BY <1>2, <1>3, <1>4, <1>5, <1>6, <1>7, <1>8, <1>9
  DEF Next, AcknowledgeRunnerJob, RenewRunnerLeases, DisableRunner, Elapse, vars

\* A job never leaves a Runner that holds it, except to nobody and after its
\* lease is over or before it was accepted.
THEOREM NoTransfer == Spec => NoSilentTransfer
<1>1. Init => WaitingUnowned
  BY DEF Init, WaitingUnowned, NoJobs
<1>2. IndInv /\ WaitingUnowned /\ [Next]_vars => [OwnersKept]_vars
  <2> SUFFICES ASSUME IndInv, WaitingUnowned, [Next]_vars PROVE OwnersKept
    OBVIOUS
  <2>1. ASSUME NEW w \in Runners, NEW r \in Runs, NEW k \in Keys, ClaimRunnerJob(w, r, k)
        PROVE  OwnersKept
    <3>1. owner[r][k] = NoRunner
      BY <2>1 DEF WaitingUnowned, ClaimRunnerJob, Matching, Waiting
    <3> QED BY <2>1, <3>1, RunnersAssumption DEF OwnersKept, ClaimRunnerJob, IndInv, TypeOK
  <2> QED BY <2>1, NextKept DEF Kept
<1> QED BY <1>1, <1>2, WaitingUnownedStep, Invariance, PTL DEF Spec, NoSilentTransfer

-----------------------------------------------------------------------------
(* Capacity.                                                               *)

\* The live leases of a Runner are finitely many.
LEMMA LiveLeasesFinite ==
  ASSUME NEW w
  PROVE  IsFiniteSet(LiveLeases(w)) /\ Cardinality(LiveLeases(w)) \in Nat
<1>1. IsFiniteSet(Runs)
  BY RunLimitAssumption, FS_Interval DEF Runs
<1>2. IsFiniteSet(Runs \X Keys)
  BY <1>1, KeysAssumption, FS_Product
<1>3. LiveLeases(w) \in SUBSET (Runs \X Keys)
  BY DEF LiveLeases
<1>4. IsFiniteSet(LiveLeases(w))
  BY <1>2, <1>3, FS_Subset
<1> QED BY <1>4, FS_CardinalityType

\* Only a claim adds a live lease, and it counts them first.
LEMMA CapacityStep == IndInv /\ [Next]_vars => CapacityKept
<1> SUFFICES ASSUME IndInv, [Next]_vars, NEW v \in Runners, ~(LiveLeases(v)' \subseteq LiveLeases(v))
             PROVE  Cardinality(LiveLeases(v)') <= descriptor[v].capacity
  BY DEF CapacityKept
<1>1. IsFiniteSet(LiveLeases(v)) /\ Cardinality(LiveLeases(v)) \in Nat
  BY LiveLeasesFinite
<1>2. descriptor[v].capacity \in Nat
  BY DEF IndInv, TypeOK, RunnerDescriptor
<1>4. CASE Kept
  <2>1. LiveLeases(v)' \subseteq LiveLeases(v)
    BY <1>4 DEF Kept, LeasesShrink, LiveLeases
  <2> QED BY <2>1
<1>5. CASE \E w \in Runners, r \in Runs, k \in Keys : ClaimRunnerJob(w, r, k)
  <2>1. PICK w \in Runners, r \in Runs, k \in Keys : ClaimRunnerJob(w, r, k)
    BY <1>5
  <2>2. /\ \A q \in Runs, j \in Keys : <<q, j>> # <<r, k>> =>
             /\ jobStatus'[q][j] = jobStatus[q][j]
             /\ owner'[q][j] = owner[q][j] /\ ttl'[q][j] = ttl[q][j]
        /\ owner'[r][k] = w
    BY <2>1 DEF ClaimRunnerJob, IndInv, TypeOK
  <2>3. CASE v # w
    <3>1. LiveLeases(v)' \subseteq LiveLeases(v)
      BY <2>2, <2>3 DEF LiveLeases
    <3> QED BY <3>1
  <2>4. CASE v = w
    <3> DEFINE T == LiveLeases(v) \cup {<<r, k>>}
    <3>1. LiveLeases(v)' \subseteq T
      BY <2>2 DEF LiveLeases
    <3>2. Cardinality(LiveLeases(v)) < descriptor[v].capacity
      BY <2>1, <2>4 DEF ClaimRunnerJob
    <3>3. IsFiniteSet(T) /\ Cardinality(T) <= Cardinality(LiveLeases(v)) + 1 /\ Cardinality(T) \in Nat
      <4>1. /\ IsFiniteSet(T)
            /\ \/ Cardinality(T) = Cardinality(LiveLeases(v))
               \/ Cardinality(T) = Cardinality(LiveLeases(v)) + 1
        <5> HIDE DEF LiveLeases
        <5> QED BY <1>1, FS_AddElement
      <4> HIDE DEF T
      <4> QED BY <1>1, <4>1
    <3>4. IsFiniteSet(LiveLeases(v)') /\ Cardinality(LiveLeases(v)') <= Cardinality(T)
      BY <3>1, <3>3, FS_Subset
    <3>5. Cardinality(LiveLeases(v)') \in Nat
      BY <3>4, FS_CardinalityType
    <3> HIDE DEF T
    <3> QED BY <1>1, <1>2, <3>2, <3>3, <3>4, <3>5
  <2> QED BY <2>3, <2>4
<1> QED BY <1>4, <1>5, NextKept

\* A lease becomes live only within the capacity of the Runner's last heartbeat.
THEOREM CapacityHolds == Spec => CapacityRespected
<1>1. IndInv /\ [Next]_vars => [CapacityKept]_vars
  BY CapacityStep
<1> QED BY <1>1, Invariance, PTL DEF Spec, CapacityRespected
=============================================================================
