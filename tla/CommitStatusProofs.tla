------------------------- MODULE CommitStatusProofs -------------------------
(* Proofs about CommitStatusOutbox, for any runs and attempt limits.       *)
EXTENDS CommitStatusOutbox, TLAPS

-----------------------------------------------------------------------------
(* The rows, for any number of workers and either provider.                *)

\* The jobs of workers that are not idle.
Busy == [stage : Stages, item : Items, attempt : 1..AttemptLimit, check : Nat,
         seen : {"none", "pending"} \cup Finals]

\* A worker that is past its claim has a row and an attempt.
LEMMA BusyJob ==
  ASSUME TypeOK, NEW w \in Workers, job[w].stage \in Stages
  PROVE  job[w] \in Busy /\ job[w] # Idle
  BY DEF TypeOK, Jobs, Busy, Stages, Idle

\* The state of a row is one the provider can show.
LEMMA StateType ==
  ASSUME TypeOK, NEW i \in Items
  PROVE  State(i) \in {"none", "pending"} \cup Finals
  BY DEF TypeOK, State, Items

\* The empty outbox satisfies the invariant.
LEMMA InitRow == Init => RowInv
  BY AttemptsAssumption, WorkersAssumption
  DEF Init, RowInv, TypeOK, LeasePaired, Jobs, Items

\* Steps that change neither the lease nor the status of a row.
LEMMA QuietRow ==
  ASSUME RowInv, UNCHANGED <<delivery, outcome, attempts, lease>>,
         live' \subseteq live, expired' \subseteq Items,
         job' \in [Workers -> Jobs], checks' \in [Runs -> Nat],
         shown' \in [Runs -> {"none", "pending"} \cup Finals]
  PROVE  RowInv'
  BY DEF RowInv, TypeOK, LeasePaired

\* A worker moves to another stage.
LEMMA StageType ==
  ASSUME TypeOK, NEW w \in Workers, job[w].stage \in Stages, NEW stage \in Stages
  PROVE  [job EXCEPT ![w].stage = stage] \in [Workers -> Jobs]
  BY BusyJob DEF TypeOK, Jobs, Busy

\* A worker becomes idle.
LEMMA IdleType ==
  ASSUME TypeOK, NEW w
  PROVE  [job EXCEPT ![w] = Idle] \in [Workers -> Jobs]
  BY DEF TypeOK, Jobs

\* A row that is given up by its worker or by recovery has no lease any more.
LEMMA UnleaseRow ==
  ASSUME RowInv, NEW i \in Items, NEW state \in {"queued"} \cup Settled, Unlease(i),
         delivery' = [delivery EXCEPT ![i] = state],
         UNCHANGED <<outcome, attempts, expired, checks, shown>>, job' \in [Workers -> Jobs]
  PROVE  RowInv'
<1>1. TypeOK' BY DEF RowInv, TypeOK, Unlease, Settled
<1>2. LeasePaired' BY DEF RowInv, TypeOK, LeasePaired, Unlease, Settled
<1> QED BY <1>1, <1>2 DEF RowInv

\* Every step preserves the invariant of the rows.
LEMMA NextRow == RowInv /\ [Next]_vars => RowInv'
<1> SUFFICES ASSUME RowInv, [Next]_vars PROVE RowInv'
  OBVIOUS
<1> USE DEF RowInv
<1>1. CASE UNCHANGED vars
  BY <1>1, QuietRow DEF vars, TypeOK
<1>2. ASSUME NEW r \in Runs, EnqueuePending(r) PROVE RowInv'
  BY <1>2 DEF EnqueuePending, TypeOK, LeasePaired, Items
<1>3. ASSUME NEW r \in Runs, NEW state \in Finals, EnqueueFinal(r, state) PROVE RowInv'
  BY <1>3 DEF EnqueueFinal, TypeOK, LeasePaired, Items
<1>4. ASSUME NEW w \in Workers, NEW i \in Items, ClaimCommitStatus(w, i) PROVE RowInv'
  <2>1. attempts[i] + 1 \in 1..AttemptLimit
    BY <1>4, AttemptsAssumption DEF ClaimCommitStatus, TypeOK
  <2>2. TypeOK'
    BY <1>4, <2>1 DEF ClaimCommitStatus, TypeOK, Jobs, Stages
  <2>3. LeasePaired'
    BY <1>4, WorkersAssumption DEF ClaimCommitStatus, TypeOK, LeasePaired
  <2> QED BY <2>2, <2>3
<1>5. ASSUME NEW i \in Items, RecoverCommitStatusLeases(i) PROVE RowInv'
  BY <1>5, UnleaseRow DEF RecoverCommitStatusLeases, Settled, TypeOK
<1>6. ASSUME NEW i \in Items, ReplayCommitStatus(i) PROVE RowInv'
  BY <1>6, AttemptsAssumption DEF ReplayCommitStatus, TypeOK, LeasePaired
<1>7. ASSUME NEW w \in Workers, FinishCommitStatus(w) PROVE RowInv'
  <2>1. job[w] \in Busy /\ job[w].item \in Items /\ job' \in [Workers -> Jobs]
    BY <1>7, BusyJob, IdleType DEF FinishCommitStatus, Forget, Stages, Busy
  <2> QED BY <1>7, <2>1, UnleaseRow, QuietRow DEF FinishCommitStatus, Settled, TypeOK
<1>8. ASSUME NEW w \in Workers, NEW late \in BOOLEAN, RescheduleCommitStatus(w, late) PROVE RowInv'
  <2>1. job[w] \in Busy /\ job[w].item \in Items /\ job' \in [Workers -> Jobs]
    BY <1>8, BusyJob, IdleType DEF RescheduleCommitStatus, Forget, Stages, Busy
  <2> QED BY <1>8, <2>1, UnleaseRow, QuietRow DEF RescheduleCommitStatus, Settled, TypeOK
<1>9. ASSUME NEW w \in Workers, Refuse(w) \/ Unreachable(w) PROVE RowInv'
  BY <1>9, StageType, QuietRow DEF Refuse, Unreachable, rows, Stages, TypeOK
<1>10. ASSUME NEW w \in Workers, NEW answer \in Answers, DeliverGitHub(w, answer) PROVE RowInv'
  <2>1. job[w] \in Busy /\ job[w].item \in Items /\ job' \in [Workers -> Jobs]
    BY <1>10, BusyJob, StageType DEF DeliverGitHub, Stages, Answers, Busy
  <2>2. shown' \in [Runs -> {"none", "pending"} \cup Finals]
    BY <1>10, <2>1, StateType DEF DeliverGitHub, TypeOK, Items
  <2> QED BY <1>10, <2>1, <2>2, QuietRow DEF DeliverGitHub, rows, TypeOK
<1>11. ASSUME NEW w \in Workers, LookupCheck(w) PROVE RowInv'
  <2>1. job[w] \in Busy /\ job[w].item[1] \in Runs
    BY <1>11, BusyJob DEF LookupCheck, Stages, Busy, Items
  <2>2. checks[job[w].item[1]] \in Nat /\ shown[job[w].item[1]] \in {"none", "pending"} \cup Finals
    BY <2>1 DEF TypeOK
  <2>3. job'[w] \in Busy
    BY <1>11, <2>1, <2>2 DEF LookupCheck, TypeOK, Busy, Stages
  <2>4. job' = [job EXCEPT ![w] = job'[w]]
    BY <1>11 DEF LookupCheck, TypeOK
  <2>5. job' \in [Workers -> Jobs]
    BY <2>3, <2>4 DEF TypeOK, Jobs, Busy
  <2> QED BY <1>11, <2>5, QuietRow DEF LookupCheck, rows, TypeOK
<1>12. ASSUME NEW w \in Workers, NEW answer \in Answers, ReportCheck(w, answer) PROVE RowInv'
  <2>1. job[w] \in Busy /\ job[w].item \in Items /\ job' \in [Workers -> Jobs]
    BY <1>12, BusyJob, StageType DEF ReportCheck, Stages, Answers, Busy
  <2>2. shown' \in [Runs -> {"none", "pending"} \cup Finals] /\ checks' \in [Runs -> Nat]
    BY <1>12, <2>1, StateType DEF ReportCheck, TypeOK, Items
  <2> QED BY <1>12, <2>1, <2>2, QuietRow DEF ReportCheck, rows, TypeOK
<1>13. ASSUME NEW w \in Workers, Abandon(w) PROVE RowInv'
  BY <1>13, IdleType, QuietRow DEF Abandon, Forget, rows, TypeOK
<1>14. ASSUME NEW i \in Items, LeaseLapses(i) \/ BackoffOver(i) \/ Expire(i) PROVE RowInv'
  BY <1>14, QuietRow DEF LeaseLapses, BackoffOver, Expire, TypeOK
<1> QED BY <1>1, <1>2, <1>3, <1>4, <1>5, <1>6, <1>7, <1>8, <1>9, <1>10, <1>11, <1>12, <1>13, <1>14
        DEF Next

\* The invariant of the rows holds in every reachable state.
THEOREM RowInvariance == Spec => []RowInv
  BY InitRow, NextRow, PTL DEF Spec

\* Exactly the rows being processed have a lease holder, so that no transaction
\* is aborted by the constraints of the table.
THEOREM LeasesPaired == Spec => []LeasePaired
<1>1. RowInv => LeasePaired
  BY DEF RowInv
<1> QED BY <1>1, RowInvariance, PTL

\* Every step leaves delivered rows delivered.
LEMMA NextDeliveredKept == RowInv /\ [Next]_vars => DeliveredKept
<1> SUFFICES ASSUME RowInv, [Next]_vars PROVE DeliveredKept
  OBVIOUS
<1> USE DEF RowInv
<1>1. CASE UNCHANGED delivery
  BY <1>1 DEF DeliveredKept
<1>2. ASSUME NEW r \in Runs, EnqueuePending(r) \/ \E state \in Finals : EnqueueFinal(r, state)
      PROVE  DeliveredKept
  BY <1>2 DEF EnqueuePending, EnqueueFinal, DeliveredKept, TypeOK, Items
<1>3. ASSUME NEW i \in Items, RecoverCommitStatusLeases(i) \/ ReplayCommitStatus(i) PROVE DeliveredKept
  BY <1>3 DEF RecoverCommitStatusLeases, Recoverable, ReplayCommitStatus, DeliveredKept, TypeOK
<1>4. ASSUME NEW w \in Workers, NEW i \in Items, ClaimCommitStatus(w, i) PROVE DeliveredKept
  BY <1>4 DEF ClaimCommitStatus, FirstCandidate, Candidate, DeliveredKept, TypeOK
<1>5. ASSUME NEW w \in Workers, FinishCommitStatus(w) PROVE DeliveredKept
  BY <1>5, BusyJob DEF FinishCommitStatus, DeliveredKept, TypeOK, Busy, Stages
<1>6. ASSUME NEW w \in Workers, NEW late \in BOOLEAN, RescheduleCommitStatus(w, late) PROVE DeliveredKept
  BY <1>6, BusyJob DEF RescheduleCommitStatus, Owned, DeliveredKept, TypeOK, Busy, Stages
<1> QED BY <1>1, <1>2, <1>3, <1>4, <1>5, <1>6
        DEF Next, vars, rows, Refuse, Unreachable, LookupCheck, Abandon, DeliverGitHub, ReportCheck,
            LeaseLapses, BackoffOver, Expire

\* A row whose delivery was recorded is never reopened, for any number of workers.
THEOREM DeliveredForGood == Spec => DeliveredStays
  BY NextDeliveredKept, RowInvariance, PTL DEF Spec, DeliveredStays

-----------------------------------------------------------------------------
(* Gitee's checks, reported by a single worker.                            *)

\* Only one worker delivers Gitee's checks.
OneGiteeWorker == Provider = "gitee" /\ \A v, w \in Workers : v = w

\* What the invariant says of the provider and of the worker.
Known == OutcomeShown /\ WorkerKnows /\ FinalShown

\* Steps that report nothing: no row appears or vanishes, a final row becomes
\* delivered only if it is shown, and a worker that goes on knows no more.
LEMMA QuietCheck ==
  ASSUME CheckInv, UNCHANGED <<outcome, checks, shown>>,
         \A i \in Items : delivery'[i] = "absent" <=> delivery[i] = "absent",
         \A r \in Runs : delivery'[<<r, "final">>] = "delivered" =>
           delivery[<<r, "final">>] = "delivered" \/ shown[r] = outcome[r],
         \A w \in Workers : \/ job'[w] = Idle \/ job'[w] = job[w]
                            \/ /\ job'[w].item \in Items /\ delivery[job'[w].item] # "absent"
                               /\ job'[w].stage \notin {"found", "ok"}
  PROVE  Known'
<1>1. OutcomeShown'
  BY DEF CheckInv, OutcomeShown, Items
<1>2. FinalShown'
  BY DEF CheckInv, FinalShown
<1>3. ASSUME NEW w \in Workers, job'[w] # Idle, job'[w] = job[w], job[w] \in Busy
      PROVE  /\ delivery'[job'[w].item] # "absent"
             /\ job'[w].stage = "found" =>
                  job'[w].check = checks'[job'[w].item[1]] /\ job'[w].seen = shown'[job'[w].item[1]]
             /\ job'[w].stage = "ok" /\ job'[w].item[2] = "final" =>
                  shown'[job'[w].item[1]] = outcome'[job'[w].item[1]]
  BY <1>3 DEF CheckInv, WorkerKnows, Busy
<1>4. \A w \in Workers : job[w] # Idle => job[w] \in Busy
  BY DEF CheckInv, RowInv, TypeOK, Jobs, Busy
<1>5. WorkerKnows'
  BY <1>3, <1>4 DEF WorkerKnows
<1> QED BY <1>1, <1>2, <1>5 DEF Known

\* The empty outbox satisfies the invariant.
LEMMA InitCheck == Init => CheckInv
  BY InitRow DEF Init, CheckInv, OutcomeShown, WorkerKnows, FinalShown, Items

\* A new final row is not shown yet, and no worker has it.
LEMMA EnqueueFinalKnown ==
  ASSUME CheckInv, NEW r \in Runs, NEW state \in Finals, EnqueueFinal(r, state)
  PROVE  Known'
<1> USE DEF CheckInv
<1>1. /\ delivery' = [delivery EXCEPT ![<<r, "final">>] = "queued"]
      /\ outcome' = [outcome EXCEPT ![r] = state]
      /\ job' = job /\ checks' = checks /\ shown' = shown
      /\ outcome[r] = "none" /\ delivery[<<r, "final">>] = "absent"
  BY DEF EnqueueFinal, OutcomeShown
<1>2. OutcomeShown'
  BY <1>1 DEF OutcomeShown, RowInv, TypeOK, Items, Finals
<1>3. FinalShown'
  BY <1>1 DEF FinalShown, RowInv, TypeOK, Items
<1>4. ASSUME NEW w \in Workers, job[w] # Idle
      PROVE  /\ delivery'[job[w].item] # "absent"
             /\ job[w].stage = "ok" /\ job[w].item[2] = "final" =>
                  shown[job[w].item[1]] = outcome'[job[w].item[1]]
  <2>1. job[w].item \in Items /\ delivery[job[w].item] # "absent"
    BY <1>4 DEF WorkerKnows, RowInv, TypeOK, Jobs
  <2>2. job[w].item = <<job[w].item[1], job[w].item[2]>> /\ job[w].item[1] \in Runs
    BY <2>1 DEF Items
  <2> QED BY <1>1, <1>4, <2>1, <2>2 DEF WorkerKnows, RowInv, TypeOK
<1>5. WorkerKnows'
  BY <1>1, <1>4 DEF WorkerKnows
<1> QED BY <1>2, <1>3, <1>5 DEF Known

\* The worker's report is what Gitee shows, unless it is a pending status of a
\* run whose final one is there already.
LEMMA ReportKnown ==
  ASSUME OneGiteeWorker, CheckInv, NEW w \in Workers, NEW answer \in Answers, ReportCheck(w, answer)
  PROVE  Known'
<1> USE DEF CheckInv
<1> DEFINE i == job[w].item
           r == job[w].item[1]
<1>1. job[w] \in Busy /\ job[w].stage = "found" /\ i \in Items /\ r \in Runs /\ i = <<r, i[2]>>
      /\ i[2] \in {"pending", "final"}
  BY BusyJob DEF ReportCheck, RowInv, Stages, Busy, Items
<1>2. job[w].check = checks[r] /\ job[w].seen = shown[r] /\ delivery[i] # "absent"
  BY <1>1, BusyJob DEF WorkerKnows, RowInv, Stages
<1>3. job' = [job EXCEPT ![w].stage = answer] /\ delivery' = delivery /\ outcome' = outcome
  BY DEF ReportCheck, rows
<1>4. job'[w].item = i /\ job'[w].stage = answer /\ answer # "found" /\ \A v \in Workers : v = w
  BY <1>1, <1>3 DEF RowInv, TypeOK, Answers, OneGiteeWorker, Busy
<1>5. CASE AlreadyCompleted(w)
  <2>1. checks' = checks /\ shown' = shown
    BY <1>5 DEF ReportCheck
  <2>2. i[2] = "pending"
    BY <1>1, <1>2, <1>5 DEF AlreadyCompleted, State, OutcomeShown, RowInv, TypeOK, Finals
  <2>3. OutcomeShown' /\ FinalShown'
    BY <1>3, <2>1 DEF OutcomeShown, FinalShown
  <2>4. WorkerKnows'
    BY <1>2, <1>3, <1>4, <2>2 DEF WorkerKnows
  <2> QED BY <2>3, <2>4 DEF Known
<1>6. CASE ~AlreadyCompleted(w)
  <2>1. /\ checks' = [checks EXCEPT ![r] = IF checks[r] = 0 THEN checks[r] + 1 ELSE checks[r]]
        /\ shown' = [shown EXCEPT ![r] = State(i)]
    BY <1>2, <1>6 DEF ReportCheck
  <2>2. State(i) = IF i[2] = "pending" THEN "pending" ELSE outcome[r]
    BY DEF State
  <2>3. i[2] = "final" => outcome[r] # "none"
    BY <1>1, <1>2, SMTT(30) DEF OutcomeShown
  <2>4. shown'[r] = State(i) /\ checks'[r] # 0 /\ \A q \in Runs : q # r => shown'[q] = shown[q] /\ checks'[q] = checks[q]
    BY <1>1, <2>1 DEF RowInv, TypeOK
  <2>5. OutcomeShown'
    <3>1. State(i) # "none" /\ State(i) \in {"pending", outcome[r]}
      BY <1>1, <2>2, <2>3
    <3> HIDE DEF i, r
    <3> SUFFICES ASSUME NEW q \in Runs
                 PROVE  /\ delivery[<<q, "final">>] = "absent" <=> outcome[q] = "none"
                        /\ shown'[q] \in {"none", "pending", outcome[q]}
                        /\ checks'[q] = 0 <=> shown'[q] = "none"
      BY <1>3 DEF OutcomeShown
    <3> QED BY <2>4, <3>1 DEF OutcomeShown
  <2>6. delivery[<<r, "final">>] = "delivered" => i[2] = "final"
    BY <1>1, <1>2, <1>6 DEF AlreadyCompleted, State, FinalShown, OutcomeShown, RowInv, TypeOK
  <2>7. FinalShown'
    BY <1>1, <1>3, <2>2, <2>4, <2>6 DEF FinalShown
  <2>8. WorkerKnows'
    BY <1>2, <1>3, <1>4, <2>2, <2>4 DEF WorkerKnows
  <2> QED BY <2>5, <2>7, <2>8 DEF Known
<1> QED BY <1>5, <1>6

\* Every step preserves the invariant of Gitee's checks.
LEMMA NextCheck ==
  ASSUME OneGiteeWorker, CheckInv, [Next]_vars
  PROVE  CheckInv'
<1> USE DEF CheckInv
<1>0. RowInv'
  BY NextRow
<1> SUFFICES Known'
  BY <1>0 DEF Known
<1>1. CASE UNCHANGED vars
  BY <1>1, QuietCheck DEF vars
<1>2. ASSUME NEW r \in Runs, EnqueuePending(r) PROVE Known'
  <2>1. /\ delivery' = [delivery EXCEPT ![<<r, "pending">>] = "queued"]
        /\ outcome' = outcome /\ job' = job /\ checks' = checks /\ shown' = shown
    BY <1>2 DEF EnqueuePending
  <2>2. \A q \in Runs : delivery'[<<q, "final">>] = delivery[<<q, "final">>]
    BY <2>1 DEF RowInv, TypeOK, Items
  <2>3. OutcomeShown' /\ FinalShown'
    BY <2>1, <2>2 DEF OutcomeShown, FinalShown
  <2>4. \A w \in Workers : job[w] # Idle => delivery'[job[w].item] # "absent"
    BY <2>1 DEF WorkerKnows, RowInv, TypeOK, Jobs
  <2>5. WorkerKnows'
    BY <2>1, <2>4 DEF WorkerKnows
  <2> QED BY <2>3, <2>5 DEF Known
<1>3. ASSUME NEW r \in Runs, NEW state \in Finals, EnqueueFinal(r, state) PROVE Known'
  BY <1>3, EnqueueFinalKnown
<1>4. ASSUME NEW w \in Workers, NEW i \in Items, ClaimCommitStatus(w, i) PROVE Known'
  <2>1. \A j \in Items : /\ delivery'[j] = "absent" <=> delivery[j] = "absent"
                         /\ delivery'[j] = "delivered" => delivery[j] = "delivered"
    BY <1>4 DEF ClaimCommitStatus, FirstCandidate, Candidate, RowInv, TypeOK
  <2>2. job'[w].item = i /\ job'[w].stage = "claimed" /\ delivery[i] # "absent"
    BY <1>4 DEF ClaimCommitStatus, FirstCandidate, Candidate, RowInv, TypeOK
  <2>3. \A v \in Workers : v # w => job'[v] = job[v]
    BY <1>4 DEF ClaimCommitStatus, RowInv, TypeOK
  <2>4. UNCHANGED <<outcome, checks, shown>>
    BY <1>4 DEF ClaimCommitStatus
  <2> QED BY <2>1, <2>2, <2>3, <2>4, QuietCheck DEF Items
<1>5. ASSUME NEW i \in Items, RecoverCommitStatusLeases(i) \/ ReplayCommitStatus(i) PROVE Known'
  <2>1. \A j \in Items : /\ delivery'[j] = "absent" <=> delivery[j] = "absent"
                         /\ delivery'[j] = "delivered" => delivery[j] = "delivered"
    BY <1>5 DEF RecoverCommitStatusLeases, Recoverable, ReplayCommitStatus, RowInv, TypeOK
  <2>2. UNCHANGED <<outcome, job, checks, shown>>
    BY <1>5 DEF RecoverCommitStatusLeases, ReplayCommitStatus
  <2> QED BY <2>1, <2>2, QuietCheck DEF Items
<1>6. ASSUME NEW w \in Workers, FinishCommitStatus(w) PROVE Known'
  <2>1. job[w] \in Busy /\ job[w] # Idle /\ job[w].stage = "ok" /\ job[w].item \in Items
    BY <1>6, BusyJob DEF FinishCommitStatus, RowInv, Stages, Busy
  <2>2. delivery[job[w].item] # "absent"
    BY <2>1 DEF WorkerKnows
  <2>3. \A r \in Runs : job[w].item = <<r, "final">> => shown[r] = outcome[r]
    BY <2>1 DEF WorkerKnows
  <2>4. delivery' \in {delivery, [delivery EXCEPT ![job[w].item] = "delivered"]}
    BY <1>6 DEF FinishCommitStatus
  <2>5. \A j \in Items : delivery'[j] = "absent" <=> delivery[j] = "absent"
    BY <2>1, <2>2, <2>4 DEF RowInv, TypeOK
  <2>6. \A r \in Runs : delivery'[<<r, "final">>] = "delivered" =>
          delivery[<<r, "final">>] = "delivered" \/ shown[r] = outcome[r]
    BY <2>1, <2>3, <2>4 DEF RowInv, TypeOK, Items
  <2>7. UNCHANGED <<outcome, checks, shown>> /\ \A v \in Workers : job'[v] = Idle \/ job'[v] = job[v]
    BY <1>6 DEF FinishCommitStatus, Forget, RowInv, TypeOK
  <2> QED BY <2>5, <2>6, <2>7, QuietCheck
<1>7. ASSUME NEW w \in Workers, NEW late \in BOOLEAN, RescheduleCommitStatus(w, late) PROVE Known'
  <2>1. job[w] \in Busy /\ job[w] # Idle /\ job[w].item \in Items
    BY <1>7, BusyJob DEF RescheduleCommitStatus, RowInv, Stages, Busy
  <2>2. delivery[job[w].item] # "absent"
    BY <2>1 DEF WorkerKnows
  <2>3. \/ delivery' = delivery
        \/ \E state \in {"dead", "queued"} : delivery' = [delivery EXCEPT ![job[w].item] = state]
    BY <1>7 DEF RescheduleCommitStatus
  <2>4. \A j \in Items : /\ delivery'[j] = "absent" <=> delivery[j] = "absent"
                         /\ delivery'[j] = "delivered" => delivery[j] = "delivered"
    BY <2>1, <2>2, <2>3 DEF RowInv, TypeOK
  <2>5. UNCHANGED <<outcome, checks, shown>> /\ \A v \in Workers : job'[v] = Idle \/ job'[v] = job[v]
    BY <1>7 DEF RescheduleCommitStatus, Forget, RowInv, TypeOK
  <2> QED BY <2>4, <2>5, QuietCheck DEF Items
<1>8. ASSUME NEW w \in Workers, Refuse(w) \/ Unreachable(w) PROVE Known'
  <2>1. job[w] \in Busy /\ job[w] # Idle
    BY <1>8, BusyJob DEF Refuse, Unreachable, RowInv, Stages
  <2>2. \E stage \in {"invalid", "failed"} : job' = [job EXCEPT ![w].stage = stage]
    BY <1>8 DEF Refuse, Unreachable
  <2>3. job'[w].item = job[w].item /\ job'[w].stage \in {"invalid", "failed"}
    BY <2>1, <2>2 DEF RowInv, TypeOK, Busy
  <2>4. job[w].item \in Items /\ delivery[job[w].item] # "absent"
    BY <2>1 DEF WorkerKnows, Busy
  <2>5. \A v \in Workers : v # w => job'[v] = job[v]
    BY <2>2 DEF RowInv, TypeOK
  <2>6. UNCHANGED <<delivery, outcome, checks, shown>>
    BY <1>8 DEF Refuse, Unreachable, rows
  <2> QED BY <2>3, <2>4, <2>5, <2>6, QuietCheck
<1>9. ASSUME NEW w \in Workers, LookupCheck(w) PROVE Known'
  <2>1. job[w] \in Busy /\ job[w] # Idle /\ \A v \in Workers : v = w
    BY <1>9, BusyJob DEF LookupCheck, RowInv, Stages, OneGiteeWorker
  <2>2. UNCHANGED <<delivery, outcome, checks, shown>>
    BY <1>9 DEF LookupCheck, rows
  <2>3. /\ job'[w].item = job[w].item /\ job'[w].stage = "found"
        /\ job'[w].check = checks[job[w].item[1]] /\ job'[w].seen = shown[job[w].item[1]]
    BY <1>9, <2>1 DEF LookupCheck, RowInv, TypeOK, Busy
  <2>4. delivery[job[w].item] # "absent"
    BY <2>1 DEF WorkerKnows
  <2>5. WorkerKnows'
    BY <2>1, <2>2, <2>3, <2>4 DEF WorkerKnows
  <2>6. OutcomeShown' /\ FinalShown'
    BY <2>2 DEF OutcomeShown, FinalShown
  <2> QED BY <2>5, <2>6 DEF Known
<1>10. ASSUME NEW w \in Workers, NEW answer \in Answers, ReportCheck(w, answer) PROVE Known'
  BY <1>10, ReportKnown
<1>11. ASSUME NEW w \in Workers, Abandon(w) PROVE Known'
  <2>1. UNCHANGED <<delivery, outcome, checks, shown>> /\ \A v \in Workers : job'[v] = Idle \/ job'[v] = job[v]
    BY <1>11 DEF Abandon, Forget, rows, RowInv, TypeOK
  <2> QED BY <2>1, QuietCheck
<1>12. ASSUME NEW i \in Items, LeaseLapses(i) \/ BackoffOver(i) \/ Expire(i) PROVE Known'
  BY <1>12, QuietCheck DEF LeaseLapses, BackoffOver, Expire
<1>13. \A w \in Workers, answer \in Answers : ~DeliverGitHub(w, answer)
  BY DEF OneGiteeWorker, DeliverGitHub
<1> QED BY <1>1, <1>2, <1>3, <1>4, <1>5, <1>6, <1>7, <1>8, <1>9, <1>10, <1>11, <1>12, <1>13 DEF Next

\* The invariant of Gitee's checks holds in every reachable state.
THEOREM CheckInvariance ==
  ASSUME OneGiteeWorker
  PROVE  Spec => []CheckInv
  BY InitCheck, NextCheck, PTL DEF Spec

\* With one worker, a final status recorded as delivered is what Gitee shows,
\* although requests whose answer was lost are repeated in any order.
THEOREM FinalStatusShown ==
  ASSUME OneGiteeWorker
  PROVE  Spec => []FinalShown
<1>1. CheckInv => FinalShown
  BY DEF CheckInv
<1> QED BY <1>1, CheckInvariance, PTL
=============================================================================
