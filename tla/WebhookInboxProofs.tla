------------------------- MODULE WebhookInboxProofs -------------------------
(* Proofs about WebhookInbox, for any deliveries, workers and settings.    *)
EXTENDS WebhookInbox, TLAPS

\* The empty inbox satisfies the invariant.
LEMMA InitInd == Init => IndInv
  BY MaxAttemptsAssumption
  DEF Init, IndInv, TypeOK, RowsCoherent, JobsCoherent, RunIffProcessed, NoForkRuns, Jobs, Ended

\* The first delivery of an event is stored with its contents.
LEMMA ReceiveInd ==
  ASSUME IndInv, NEW d \in Deliveries, NEW p \in Payloads, ReceiveWebhook(d, p)
  PROVE  IndInv'
<1> USE SetsAssumption, MaxAttemptsAssumption DEF IndInv, ReceiveWebhook
<1>1. TypeOK' BY DEF TypeOK
<1>2. RowsCoherent' BY DEF TypeOK, RowsCoherent
<1>3. JobsCoherent' BY DEF TypeOK, JobsCoherent, Jobs
<1>4. RunIffProcessed' /\ NoForkRuns' BY DEF TypeOK, RunIffProcessed, NoForkRuns
<1> QED BY <1>1, <1>2, <1>3, <1>4

\* A claim counts an attempt and hands the stored contents to the worker.
LEMMA ClaimInd ==
  ASSUME IndInv, NEW w \in Workers, NEW d \in Deliveries, ClaimWebhook(w, d)
  PROVE  IndInv'
<1> USE SetsAssumption, MaxAttemptsAssumption DEF IndInv, ClaimWebhook
<1>1. payload[d] \in Payloads /\ attempts[d] + 1 \in Nat
  BY DEF TypeOK, RowsCoherent
<1>2. TypeOK' BY <1>1 DEF TypeOK, Jobs, Stages, Results, Ended
<1>3. RowsCoherent' BY DEF TypeOK, RowsCoherent
<1>4. JobsCoherent' BY <1>1 DEF TypeOK, JobsCoherent, Jobs
<1>5. RunIffProcessed' /\ NoForkRuns' BY DEF TypeOK, RunIffProcessed, NoForkRuns
<1> QED BY <1>2, <1>3, <1>4, <1>5

\* Finalizing ends the delivery of a worker that holds its lease, or gives it
\* back while attempts are left.
LEMMA FinalizeInd ==
  ASSUME IndInv, NEW w \in Workers, job[w] # Idle,
         NEW state \in {"ignored", "retry", "dead_letter"},
         state = "retry" => job[w].attempt < MaxAttempts,
         FinalizeWebhook(w, state)
  PROVE  IndInv'
<1> DEFINE d == job[w].item
<1> USE MaxAttemptsAssumption DEF IndInv
<1>1. d \in Deliveries
  BY DEF TypeOK, Jobs
<1>2. job' = [job EXCEPT ![w] = Idle] /\ UNCHANGED <<payload, attempts, run, wanted>>
  BY DEF FinalizeWebhook, Forget
<1>3. CASE HoldsLease(w)
  <2>1. /\ status' = [status EXCEPT ![d] = FinalStatus(state)]
        /\ status[d] = "processing" /\ attempts[d] = job[w].attempt
    BY <1>3 DEF FinalizeWebhook, HoldsLease
  <2>2. live' \subseteq live /\ ready' \subseteq ready
    BY <1>3 DEF FinalizeWebhook
  <2>3. TypeOK'
    BY <1>1, <1>2, <2>1, <2>2 DEF TypeOK, Jobs, FinalStatus, Ended
  <2>4. RowsCoherent'
    BY <1>1, <1>2, <2>1 DEF TypeOK, RowsCoherent, FinalStatus
  <2>5. JobsCoherent'
    BY <1>1, <1>2, <2>1 DEF TypeOK, Jobs, JobsCoherent, FinalStatus
  <2>6. RunIffProcessed' /\ NoForkRuns'
    BY <1>1, <1>2, <2>1 DEF TypeOK, RunIffProcessed, NoForkRuns, FinalStatus
  <2> QED BY <2>3, <2>4, <2>5, <2>6
<1>4. CASE ~HoldsLease(w)
  <2>1. UNCHANGED <<status, live, ready>>
    BY <1>4 DEF FinalizeWebhook
  <2> QED BY <1>2, <2>1
          DEF TypeOK, Jobs, RowsCoherent, JobsCoherent, RunIffProcessed, NoForkRuns
<1> QED BY <1>3, <1>4

\* Recovery gives a delivery back only while attempts are left.
LEMMA RecoverInd ==
  ASSUME IndInv, NEW d \in Deliveries, RecoverWebhookLeases(d)
  PROVE  IndInv'
<1> USE MaxAttemptsAssumption DEF IndInv, RecoverWebhookLeases, Lapsed, Exhausted
<1>1. TypeOK' BY DEF TypeOK, Ended
<1>2. RowsCoherent' BY DEF TypeOK, RowsCoherent
<1>3. JobsCoherent' BY DEF TypeOK, JobsCoherent, Jobs
<1>4. RunIffProcessed' /\ NoForkRuns' BY DEF TypeOK, RunIffProcessed, NoForkRuns
<1> QED BY <1>1, <1>2, <1>3, <1>4

\* A step that moves one worker to another stage and leaves the rows alone.
LEMMA StageInd ==
  ASSUME IndInv, NEW w \in Workers, job[w] # Idle, UNCHANGED <<table, wanted>>,
         NEW stage \in Stages, NEW result \in {"none"} \cup Results,
         job' = [job EXCEPT ![w].stage = stage, ![w].result = result],
         stage \in {"fetching", "fetched"} => job[w].event \notin Forks,
         stage = "fetched" => result \in Results
  PROVE  IndInv'
<1>1. job[w] \in [stage : Stages, item : Deliveries, attempt : Nat, event : Payloads,
                  result : {"none"} \cup Results]
  BY DEF IndInv, TypeOK, Jobs
<1>2. /\ job'[w] \in [stage : Stages, item : Deliveries, attempt : Nat, event : Payloads,
                      result : {"none"} \cup Results]
      /\ job'[w].stage = stage /\ job'[w].item = job[w].item
      /\ job'[w].event = job[w].event /\ job'[w].result = result
      /\ job' = [job EXCEPT ![w] = job'[w]]
  BY <1>1 DEF IndInv, TypeOK
<1>3. TypeOK' BY <1>2 DEF IndInv, TypeOK, Jobs, table
<1>4. JobsCoherent' BY <1>1, <1>2 DEF IndInv, TypeOK, JobsCoherent, table
<1>5. RowsCoherent' /\ RunIffProcessed' /\ NoForkRuns'
  BY DEF IndInv, RowsCoherent, RunIffProcessed, NoForkRuns, table
<1> QED BY <1>3, <1>4, <1>5 DEF IndInv

\* A commit creates the run and ends the delivery together.
LEMMA CommitInd ==
  ASSUME IndInv, NEW w \in Workers, NEW answered \in BOOLEAN, CommitWebhookRun(w, answered)
  PROVE  IndInv'
<1> DEFINE d == job[w].item
<1>1. /\ job[w] # Idle /\ job[w].stage = "fetched" /\ d \in Deliveries
      /\ job[w].result \in Results /\ payload[d] \in Payloads \ Forks
      /\ status[d] = "processing" /\ attempts[d] = job[w].attempt
  BY DEF CommitWebhookRun, Committable, HoldsLease, IndInv, TypeOK, Jobs, JobsCoherent, RowsCoherent, Idle
<1>2. /\ status' = [status EXCEPT ![d] = "processed"]
      /\ run' = [run EXCEPT ![d] = job[w].result]
      /\ live' \subseteq live
      /\ UNCHANGED <<payload, attempts, ready, wanted>>
  BY DEF CommitWebhookRun
<1>3. job'[w] = Idle \/ job'[w] = [job[w] EXCEPT !.stage = "failed"]
  BY DEF CommitWebhookRun, Forget, IndInv, TypeOK
<1>4. job' = [job EXCEPT ![w] = job'[w]]
  BY DEF CommitWebhookRun, Forget, IndInv, TypeOK
<1>5. TypeOK'
  BY <1>1, <1>2, <1>3, <1>4 DEF IndInv, TypeOK, Jobs, Stages, Ended
<1>6. RowsCoherent'
  BY <1>1, <1>2 DEF IndInv, TypeOK, RowsCoherent
<1>7. JobsCoherent'
  BY <1>1, <1>2, <1>3, <1>4 DEF IndInv, TypeOK, Jobs, Stages, JobsCoherent
<1>8. RunIffProcessed' /\ NoForkRuns'
  BY <1>1, <1>2 DEF IndInv, TypeOK, RunIffProcessed, NoForkRuns, Results
<1> QED BY <1>5, <1>6, <1>7, <1>8 DEF IndInv

\* Settings and the clock touch neither statuses nor workers.
LEMMA QuietInd ==
  ASSUME IndInv, UNCHANGED <<status, payload, attempts, run, job>>,
         wanted' \subseteq Payloads, live' \subseteq Deliveries, ready' \subseteq Deliveries
  PROVE  IndInv'
  BY DEF IndInv, TypeOK, RowsCoherent, JobsCoherent, RunIffProcessed, NoForkRuns

\* Whatever a worker does next keeps the invariant.
LEMMA WorkInd ==
  ASSUME IndInv, NEW w \in Workers, Work(w)
  PROVE  IndInv'
<1>0. ASSUME job[w].stage # "idle" PROVE job[w] # Idle
  BY <1>0 DEF Idle
<1>t. job[w] # Idle => job[w].result \in {"none"} \cup Results
  BY DEF IndInv, TypeOK, Jobs
<1>1. CASE ReadSettings(w)
  <2>1. job' = [job EXCEPT ![w].stage = IF Eligible(job[w].event) THEN "fetching" ELSE "ignoring",
                           ![w].result = job[w].result]
    BY <1>1, <1>0 DEF ReadSettings, IndInv, TypeOK, Jobs
  <2> QED BY <1>0, <1>1, <1>t, <2>1, StageInd DEF ReadSettings, Eligible, Stages
<1>2. CASE Ignore(w)
  BY <1>0, <1>2, FinalizeInd DEF Ignore
<1>3. CASE CommitRefused(w)
  <2>1. job' = [job EXCEPT ![w].stage = IF HoldsLease(w) THEN "invalid" ELSE "failed",
                           ![w].result = job[w].result]
    BY <1>3, <1>0 DEF CommitRefused, IndInv, TypeOK, Jobs
  <2> QED BY <1>0, <1>3, <1>t, <2>1, StageInd DEF CommitRefused, Stages
<1>4. CASE FinalizeFailure(w)
  <2>1. job[w] # Idle /\ job[w].attempt \in Nat
    BY <1>4, <1>0 DEF FinalizeFailure, IndInv, TypeOK, Jobs
  <2> QED BY <1>4, <2>1, FinalizeInd, MaxAttemptsAssumption DEF FinalizeFailure, Exhausted
<1>5. CASE Abandon(w)
  BY <1>5 DEF Abandon, Forget, table, IndInv, TypeOK, Jobs, RowsCoherent, JobsCoherent,
              RunIffProcessed, NoForkRuns
<1>6. ASSUME NEW result \in Results, FetchPipeline(w, result) PROVE IndInv'
  <2>1. job[w] # Idle /\ job[w].event \notin Forks
    BY <1>0, <1>6 DEF FetchPipeline, IndInv, JobsCoherent
  <2> QED BY <1>6, <2>1, StageInd DEF FetchPipeline, Stages
<1>7. ASSUME NEW answered \in BOOLEAN, CommitWebhookRun(w, answered) PROVE IndInv'
  BY <1>7, CommitInd
<1>8. ASSUME NEW stage \in {"failed", "invalid"}, Fail(w, stage) PROVE IndInv'
  <2>1. job' = [job EXCEPT ![w].stage = stage, ![w].result = job[w].result]
    BY <1>8, <1>0 DEF Fail, IndInv, TypeOK, Jobs
  <2> QED BY <1>0, <1>8, <1>t, <2>1, StageInd DEF Fail, Stages
<1> QED BY <1>1, <1>2, <1>3, <1>4, <1>5, <1>6, <1>7, <1>8 DEF Work

\* Every step of the inbox preserves the invariant.
LEMMA NextInd == IndInv /\ [Next]_vars => IndInv'
<1> SUFFICES ASSUME IndInv, [Next]_vars PROVE IndInv'
  OBVIOUS
<1>1. CASE UNCHANGED vars
  BY <1>1, QuietInd DEF vars, IndInv, TypeOK
<1>2. ASSUME NEW d \in Deliveries, LeaseLapses(d) \/ BackoffOver(d) PROVE IndInv'
  BY <1>2, QuietInd DEF LeaseLapses, BackoffOver, IndInv, TypeOK
<1>3. ASSUME NEW S \in SUBSET Payloads, UpdateProjectAutomation(S) PROVE IndInv'
  BY <1>3, QuietInd DEF UpdateProjectAutomation, table, IndInv, TypeOK
<1> QED BY <1>1, <1>2, <1>3, ReceiveInd, ClaimInd, WorkInd, RecoverInd DEF Next

\* The invariant holds in every reachable state.
THEOREM Invariance == Spec => []IndInv
  BY InitInd, NextInd, PTL DEF Spec

\* A delivery has a run exactly when it counts as processed.
THEOREM ProcessedHasRun == Spec => []RunIffProcessed
<1>1. IndInv => RunIffProcessed
  BY DEF IndInv
<1> QED BY <1>1, Invariance, PTL

\* No run comes from another repository's pull request.
THEOREM ForksNeverRun == Spec => []NoForkRuns
<1>1. IndInv => NoForkRuns
  BY DEF IndInv
<1> QED BY <1>1, Invariance, PTL

\* A delivery is claimed at most MaxAttempts times.
THEOREM BoundedAttempts == Spec => []AttemptsBounded
<1>1. IndInv => AttemptsBounded
  BY DEF IndInv, RowsCoherent, AttemptsBounded
<1> QED BY <1>1, Invariance, PTL

-----------------------------------------------------------------------------
(* The end of a delivery is final.                                         *)

\* Finalizing changes the row only under a live lease, so no ended delivery.
LEMMA FinalizeKept ==
  ASSUME IndInv, NEW w \in Workers, job[w] # Idle, NEW state, FinalizeWebhook(w, state)
  PROVE  EndKept
<1>1. job[w].item \in Deliveries
  BY DEF IndInv, TypeOK, Jobs
<1>2. CASE HoldsLease(w)
  BY <1>1, <1>2 DEF FinalizeWebhook, HoldsLease, EndKept, IndInv, TypeOK, Ended
<1>3. CASE ~HoldsLease(w)
  BY <1>3 DEF FinalizeWebhook, EndKept
<1> QED BY <1>2, <1>3

\* A commit changes the row only under a live lease too.
LEMMA CommitKept ==
  ASSUME IndInv, NEW w \in Workers, NEW answered \in BOOLEAN, CommitWebhookRun(w, answered)
  PROVE  EndKept
<1>1. job[w].item \in Deliveries /\ status[job[w].item] = "processing"
  BY DEF CommitWebhookRun, Committable, HoldsLease, IndInv, TypeOK, Jobs, Idle
<1> QED BY <1>1 DEF CommitWebhookRun, EndKept, IndInv, TypeOK, Ended

\* Every step keeps the deliveries that have ended.
LEMMA NextEndKept == IndInv /\ [Next]_vars => EndKept
<1> SUFFICES ASSUME IndInv, [Next]_vars PROVE EndKept
  OBVIOUS
<1>1. CASE UNCHANGED <<status, payload, run>>
  BY <1>1 DEF EndKept
<1>2. ASSUME NEW d \in Deliveries, NEW p \in Payloads, ReceiveWebhook(d, p) PROVE EndKept
  BY <1>2 DEF ReceiveWebhook, EndKept, IndInv, TypeOK, Ended
<1>3. ASSUME NEW w \in Workers, NEW d \in Deliveries, ClaimWebhook(w, d) PROVE EndKept
  BY <1>3 DEF ClaimWebhook, EndKept, IndInv, TypeOK, Ended
<1>4. ASSUME NEW d \in Deliveries, RecoverWebhookLeases(d) PROVE EndKept
  BY <1>4 DEF RecoverWebhookLeases, Lapsed, EndKept, IndInv, TypeOK, Ended
<1>5. ASSUME NEW w \in Workers, Work(w) PROVE EndKept
  <2>1. CASE Ignore(w) \/ FinalizeFailure(w)
    BY <2>1, FinalizeKept DEF Ignore, FinalizeFailure, Idle
  <2>2. ASSUME NEW answered \in BOOLEAN, CommitWebhookRun(w, answered) PROVE EndKept
    BY <2>2, CommitKept
  <2> QED BY <1>1, <1>5, <2>1, <2>2
          DEF Work, ReadSettings, CommitRefused, Abandon, FetchPipeline, Fail, table
<1> QED BY <1>1, <1>2, <1>3, <1>4, <1>5
        DEF Next, vars, table, LeaseLapses, BackoffOver, UpdateProjectAutomation

\* The end of a delivery, its run and its contents never change again.
THEOREM EndsOnce == Spec => EndedOnce
  BY NextEndKept, Invariance, PTL DEF Spec, EndedOnce

\* Only a commit creates a run, and Gitee's commit checks the settings again.
LEMMA NextCreatedAsWanted == IndInv /\ [Next]_vars => CreatedAsWanted
<1> SUFFICES ASSUME IndInv, [Next]_vars PROVE CreatedAsWanted
  OBVIOUS
<1>1. CASE UNCHANGED run
  BY <1>1 DEF CreatedAsWanted
<1>2. ASSUME NEW w \in Workers, NEW answered \in BOOLEAN, CommitWebhookRun(w, answered)
      PROVE  CreatedAsWanted
  <2>1. /\ job[w].item \in Deliveries
        /\ payload[job[w].item] \in Gitee => payload[job[w].item] \in wanted
    BY <1>2 DEF CommitWebhookRun, Committable, StillEligible, Eligible, IndInv, TypeOK, Jobs,
                JobsCoherent, Idle
  <2> QED BY <1>2, <2>1 DEF CommitWebhookRun, CreatedAsWanted, IndInv, TypeOK
<1> QED BY <1>1, <1>2
        DEF Next, vars, table, Work, ReceiveWebhook, ClaimWebhook, RecoverWebhookLeases, LeaseLapses,
            BackoffOver, UpdateProjectAutomation, ReadSettings, Ignore, FinalizeWebhook, CommitRefused,
            FinalizeFailure, Abandon, FetchPipeline, Fail

\* Gitee creates no run for automation that was turned off meanwhile.
THEOREM SettingsHonoured == Spec => NoStaleTrigger
  BY NextCreatedAsWanted, Invariance, PTL DEF Spec, NoStaleTrigger
=============================================================================
