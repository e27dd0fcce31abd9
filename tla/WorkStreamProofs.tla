-------------------------- MODULE WorkStreamProofs --------------------------
(***************************************************************************)
(* Proofs about WorkStream, for every number of Runners, runs and jobs,    *)
(* every length of the streams and of the logs and any number of faults:   *)
(* a job is executed under the lease the store has started, at most once,  *)
(* and its log is exact; the stream implements JobPromise.                 *)
(***************************************************************************)
EXTENDS WorkStream, FiniteSetTheorems, SequenceTheorems, TLAPS

-----------------------------------------------------------------------------
(* Types.                                                                  *)

\* What a chunk of a log holds.
Bodies == {"data", "fills", "marker"}

\* The phases of a local job, and its entry.
Phases == {"none", "awaitingAcceptance", "awaitingStart", "running", "completed"}
AwaitingPhases == {"awaitingAcceptance", "awaitingStart"}
Executed == {"running", "completed"}

Entries == [lease : Nat, phase : Phases, lost : BOOLEAN, verdict : {"none"} \cup Q!JobResults,
            seq : Nat, chunk : Nat, last : {"none"} \cup Bodies]
Leases == Jobs \X Nat

\* Requests.
Transitions == [type : {"accepted", "started"}, job : Jobs, lease : Nat]
Completions == [type : {"completed"}, job : Jobs, lease : Nat, verdict : Q!JobResults]
Chunks == [type : {"log"}, job : Jobs, lease : Nat, seq : Nat, body : {"none"} \cup Bodies]
Heartbeats == [type : {"heartbeat"}, leases : {S \in SUBSET Leases : IsFiniteSet(S)}]
Requests == Transitions \cup Completions \cup Chunks \cup Heartbeats

\* Responses.
Assignments == [type : {"assignment"}, job : Jobs, lease : Nat]
Answers == [type : {"renewed", "cancel"}, job : Jobs]
Acks == [type : {"logAck"}, job : Jobs, seq : Nat]
Responses == Assignments \cup Answers \cup Acks

\* The server's handler, results, and rows of the log.
Handlers == [at : {"none", "idle", "claiming"}] \cup [at : {"issuing"}, job : Jobs, lease : Nat]
Reports == [job : Jobs, verdict : Q!JobResults]
Rows == [lease : Nat, seq : Nat, body : {"none"} \cup Bodies]

\* The types of the rows, the messages and the Runner's local jobs.
WorkTypeOK ==
  /\ runStatus \in [1..RunLimit -> Q!RunStatuses]
  /\ jobStatus \in [1..RunLimit -> [Keys -> Q!JobStatuses]]
  /\ owner \in [1..RunLimit -> [Keys -> Runners \cup {NoRunner}]]
  /\ token \in [Jobs -> Nat]
  /\ stored \in [Jobs -> Seq(Rows)]
  /\ handler \in [Runners -> Handlers]
  /\ requests \in [Runners -> Seq(Requests)]
  /\ responses \in [Runners -> Seq(Responses)]
  /\ active \in [Runners -> [Jobs -> Entries]]
  /\ executing \in [Runners -> SUBSET Leases]
  /\ results \in [Runners -> Seq(Reports)]
  /\ losses \in [Runners -> Seq(Jobs)]
  /\ begun \in [Jobs -> {0, 1}]
  /\ ran \subseteq Jobs
  /\ printed \in [Jobs -> Seq(Bodies)]

-----------------------------------------------------------------------------
(* What is known of a lease.                                               *)

\* The statuses of a job that was started.
Past == {"running"} \cup Q!JobResults
OwnerOf(j) == owner[j[1]][j[2]]

\* Runner w has had the start of job j under lease t accepted, for good.
Authorized(w, j, t) == token[j] = t /\ OwnerOf(j) = w /\ Status(j) \in Past

\* Lease t of job j was issued to Runner w, if it is the last one at all.
Ours(w, j, t) == t \in 1..token[j] /\ (t = token[j] => OwnerOf(j) \in {w, NoRunner})

\* The same, and nothing has been executed under it.
Unused(w, j, t) == Ours(w, j, t) /\ (t = token[j] => begun[j] = 0)

\* The execution of job j was begun and is over.
Ended(j) == begun[j] = 1 /\ \A w \in Runners : \A e \in executing[w] : e[1] # j

\* Nothing of the log of job j is missing.
Complete(j) == j \in ran /\ Len(stored[j]) = Len(printed[j])

-----------------------------------------------------------------------------
(* The inductive invariant.                                                *)

\* A job: what was begun was started, and the stored log is a prefix of what
\* was printed.
StoreOK(j) ==
  /\ begun[j] = 1 => Status(j) \in Past
  /\ begun[j] = 0 => Len(printed[j]) = 0
  /\ \A i \in DOMAIN stored[j] : stored[j][i].lease = token[j] /\ stored[j][i].seq = i
  /\ Len(stored[j]) <= Len(printed[j])
  /\ Status(j) = "succeeded" => Ended(j) /\ Complete(j)

\* A local job e of Runner w.
EntryOK(w, j, e) ==
  /\ e.phase = "none" => e = NoEntry
  /\ e.phase # "none" => Ours(w, j, e.lease)
  /\ e.phase \in AwaitingPhases => e.seq = 0 /\ e.chunk = 0 /\ Unused(w, j, e.lease)
  /\ e.phase \in Executed =>
       /\ Authorized(w, j, e.lease) /\ begun[j] = 1
       /\ e.seq = Len(printed[j]) /\ e.chunk \in {0, e.seq}
       /\ e.seq <= Len(stored[j]) + 1
       /\ e.chunk = 0 => e.seq = Len(stored[j])
  /\ e.phase = "completed" =>
       /\ e.verdict \in Q!JobResults /\ Ended(j)
       /\ e.verdict = "succeeded" => Complete(j) /\ e.chunk = 0

\* Every execution is of a started lease.
ExecutionOK(w, e) == Authorized(w, e[1], e[2]) /\ begun[e[1]] = 1

\* A result is that of an execution which is over; the log is stored if the
\* Runner will report it.
ResultOK(w, r) ==
  /\ Ended(r.job)
  /\ r.verdict = "succeeded" => r.job \in ran
  /\ active[w][r.job].phase = "running" /\ ~active[w][r.job].lost => active[w][r.job].chunk = 0

\* What a Runner says after the start is about a started lease, and a success
\* it reports has its log stored.
RequestOK(w, m) ==
  /\ m.type \in {"accepted", "started"} => m.lease <= token[m.job]
  /\ m.type = "completed" =>
       /\ Authorized(w, m.job, m.lease) /\ Ended(m.job)
       /\ m.verdict = "succeeded" => Complete(m.job)
  /\ m.type = "log" =>
       Authorized(w, m.job, m.lease) /\ begun[m.job] = 1 /\ m.seq \in 1..Len(printed[m.job])
  /\ m.type = "heartbeat" =>
       \A l \in m.leases : Authorized(w, l[1], l[2]) /\ begun[l[1]] = 1

\* An assignment is of a lease that was not used, a renewal for which a job
\* waits to start is the accepted start, and what is acknowledged is stored.
ResponseOK(w, m) ==
  /\ m.type = "assignment" => Unused(w, m.job, m.lease)
  /\ m.type = "renewed" /\ active[w][m.job].phase = "awaitingStart" =>
       Authorized(w, m.job, active[w][m.job].lease)
  /\ m.type = "logAck" => m.seq \in 1..Len(stored[m.job])

\* The same of an assignment that is not sent yet.
HandlerOK(w, h) == h.at = "issuing" => Unused(w, h.job, h.lease)

\* The leases a request names; a response assigns or renews job j.
Named(m) == IF m.type = "heartbeat" THEN m.leases ELSE {<<m.job, m.lease>>}
Assigns(m, j) == m.type = "assignment" /\ m.job = j
Renews(m, j) == m.type = "renewed" /\ m.job = j

\* The responses res to a Runner with local jobs E: leases are assigned in
\* their order, after every renewal of an earlier one; and at most one renewal
\* arrives for a job that awaits its acceptance.
ResponsesInOrder(E, res, h) ==
  \A j \in Jobs :
    /\ \A p \in DOMAIN res : Assigns(res[p], j) =>
         /\ E[j].lease < res[p].lease
         /\ \A q \in DOMAIN res : Renews(res[q], j) => q < p
         /\ \A q \in DOMAIN res : Assigns(res[q], j) /\ p < q => res[p].lease < res[q].lease
         /\ h.at = "issuing" /\ h.job = j => res[p].lease < h.lease
    /\ E[j].phase = "awaitingAcceptance" =>
         \A p, q \in DOMAIN res : Renews(res[p], j) /\ Renews(res[q], j) => p = q
    /\ h.at = "issuing" /\ h.job = j => E[j].lease < h.lease

\* The requests req of the same session: lease l, which request i names, is
\* not a later one than the local job's nor one still to be assigned; an
\* acceptance is asked for once and not yet answered; and a start is not asked
\* for before.
RequestInOrder(E, req, res, h, i, l) ==
  /\ \A q \in DOMAIN res : Assigns(res[q], l[1]) => l[2] < res[q].lease
  /\ h.at = "issuing" /\ h.job = l[1] => l[2] < h.lease
  /\ E[l[1]].phase # "none" =>
       /\ l[2] <= E[l[1]].lease
       /\ req[i].type = "accepted" /\ l[2] = E[l[1]].lease =>
            /\ E[l[1]].phase = "awaitingAcceptance"
            /\ \A k \in DOMAIN req : req[k].type = "accepted" /\ l \in Named(req[k]) => i = k
            /\ \A q \in DOMAIN res : ~Renews(res[q], l[1])
       /\ req[i].type = "started" /\ l[2] = E[l[1]].lease =>
            E[l[1]].phase # "awaitingAcceptance"

\* Every request is in order.
RequestsInOrder(E, req, res, h) ==
  \A i \in DOMAIN req : \A l \in Named(req[i]) : RequestInOrder(E, req, res, h, i, l)

\* The messages of Runner w.
MessagesOK(w) ==
  /\ \A m \in Range(requests[w]) : RequestOK(w, m)
  /\ \A m \in Range(responses[w]) : ResponseOK(w, m)
  /\ \A h \in {handler[w]} : HandlerOK(w, h)
  /\ ResponsesInOrder(active[w], responses[w], handler[w])
  /\ w \in attached => RequestsInOrder(active[w], requests[w], responses[w], handler[w])
  /\ w \notin link => responses[w] = <<>> /\ w \notin attached

\* The local jobs, executions and results of Runner w.
RunnerOK(w) ==
  /\ \A j \in Jobs : \A e \in {active[w][j]} : EntryOK(w, j, e)
  /\ \A e \in executing[w] : ExecutionOK(w, e)
  /\ \A r \in Range(results[w]) : ResultOK(w, r)

\* A run that was not created has no jobs.
AbsentOK == \A r \in 1..RunLimit : runStatus[r] = "absent" => \A k \in Keys : jobStatus[r][k] = "none"

\* The inductive invariant.
WorkInv ==
  /\ WorkTypeOK
  /\ AbsentOK
  /\ \A j \in Jobs : StoreOK(j)
  /\ \A w \in Runners : RunnerOK(w) /\ MessagesOK(w)

-----------------------------------------------------------------------------
(* The store's transactions.                                               *)

\* A step of the store which issues no lease: started jobs stay started and
\* with their Runner, results stay, no job gets another Runner, and only the
\* jobs in S get a result, which is v.
StoreStep(S, v) ==
  /\ runStatus' \in [1..RunLimit -> Q!RunStatuses]
  /\ jobStatus' \in [1..RunLimit -> [Keys -> Q!JobStatuses]]
  /\ owner' \in [1..RunLimit -> [Keys -> Runners \cup {NoRunner}]]
  /\ AbsentOK'
  /\ \A j \in Jobs :
       /\ Status(j) \in Past => Status(j)' \in Past /\ OwnerOf(j)' = OwnerOf(j)
       /\ Status(j) \in Q!JobResults => Status(j)' = Status(j)
       /\ OwnerOf(j)' \in {OwnerOf(j), NoRunner}
       /\ Status(j)' \in Q!JobResults => Status(j)' = Status(j) \/ (j \in S /\ Status(j)' = v)

\* The tables that StoreStep is about.
StoreTypes ==
  /\ runStatus \in [1..RunLimit -> Q!RunStatuses]
  /\ jobStatus \in [1..RunLimit -> [Keys -> Q!JobStatuses]]
  /\ owner \in [1..RunLimit -> [Keys -> Runners \cup {NoRunner}]]
  /\ AbsentOK

\* A step that changes neither statuses nor owners.
LEMMA StoreQuiet ==
  ASSUME StoreTypes, UNCHANGED <<runStatus, jobStatus, owner>>, NEW v
  PROVE  StoreStep({}, v)
BY DEF StoreTypes, StoreStep, AbsentOK, Status, OwnerOf

\* Renewals, receipts and the clock (RenewRunnerLeases, AcknowledgeRunnerJob).
LEMMA StoreRenew ==
  ASSUME StoreTypes, NEW w, NEW S, NEW d, Q!RenewRunnerLeases(w, S, d) PROVE StoreStep({}, "none")
BY StoreQuiet DEF Q!RenewRunnerLeases

\* AcknowledgeRunnerJob.
LEMMA StoreAcknowledge ==
  ASSUME StoreTypes, NEW w, NEW r, NEW k, Q!AcknowledgeRunnerJob(w, r, k) PROVE StoreStep({}, "none")
BY StoreQuiet DEF Q!AcknowledgeRunnerJob

\* The clock.
LEMMA StoreElapse ==
  ASSUME StoreTypes, NEW r, NEW k, Q!Elapse(r, k) PROVE StoreStep({}, "none")
BY StoreQuiet DEF Q!Elapse

\* StartRunnerJob of a leased job.
LEMMA StoreStart ==
  ASSUME StoreTypes, NEW w \in Runners, NEW j \in Jobs, Q!StartRunnerJob(w, j[1], j[2])
  PROVE  /\ StoreStep({}, "none")
         /\ Status(j)' = "running" /\ OwnerOf(j)' = w
<1>1. j[1] \in 1..RunLimit /\ j[2] \in Keys
  BY DEF Jobs
<1>2. /\ jobStatus' = [jobStatus EXCEPT ![j[1]][j[2]] = "running"]
      /\ UNCHANGED <<runStatus, owner>>
      /\ Status(j) \in Q!Leased /\ OwnerOf(j) = w
  BY DEF Q!StartRunnerJob, Q!Holds, Status, OwnerOf
<1>3. jobStatus' \in [1..RunLimit -> [Keys -> Q!JobStatuses]]
  BY <1>1, <1>2 DEF StoreTypes, Q!JobStatuses, Q!Unfinished, Q!Leased
<1>4. \A i \in Jobs : Status(i)' = IF i = j THEN "running" ELSE Status(i)
  BY <1>1, <1>2 DEF StoreTypes, Status, Jobs
<1>5. AbsentOK'
  BY <1>1, <1>2 DEF StoreTypes, AbsentOK, Status, Q!Leased
<1>6. \A i \in Jobs : OwnerOf(i)' = OwnerOf(i)
  BY <1>2 DEF OwnerOf
<1>7. Status(j) \notin Q!JobResults /\ "running" \notin Q!JobResults /\ "running" \in Past
  BY <1>2 DEF Q!Leased, Q!JobResults, Past
<1> QED BY <1>2, <1>3, <1>4, <1>5, <1>6, <1>7 DEF StoreStep, StoreTypes

\* ReleaseRunnerJob.
LEMMA StoreRelease ==
  ASSUME StoreTypes, NEW w \in Runners, NEW j \in Jobs, Q!ReleaseRunnerJob(w, j[1], j[2])
  PROVE  StoreStep({}, "none")
<1>1. j[1] \in 1..RunLimit /\ j[2] \in Keys
  BY DEF Jobs
<1>2. /\ jobStatus' = [jobStatus EXCEPT ![j[1]][j[2]] = "queued"]
      /\ owner' = [owner EXCEPT ![j[1]][j[2]] = NoRunner]
      /\ UNCHANGED runStatus
      /\ Status(j) = "assigned"
  BY DEF Q!ReleaseRunnerJob, Status
<1>3. jobStatus' \in [1..RunLimit -> [Keys -> Q!JobStatuses]]
  BY <1>1, <1>2 DEF StoreTypes, Q!JobStatuses, Q!Unfinished, Q!Waiting
<1>4. \A i \in Jobs : Status(i)' = IF i = j THEN "queued" ELSE Status(i)
  BY <1>1, <1>2 DEF StoreTypes, Status, Jobs
<1>5. AbsentOK'
  BY <1>1, <1>2 DEF StoreTypes, AbsentOK, Status
<1>6. \A i \in Jobs : OwnerOf(i)' = IF i = j THEN NoRunner ELSE OwnerOf(i)
  BY <1>1, <1>2 DEF StoreTypes, OwnerOf, Jobs
<1>7. owner' \in [1..RunLimit -> [Keys -> Runners \cup {NoRunner}]]
  BY <1>1, <1>2 DEF StoreTypes
<1>8. /\ Status(j) \notin Past /\ Status(j) \notin Q!JobResults
      /\ "queued" \notin Q!JobResults
  BY <1>2 DEF Q!JobResults, Past
<1> QED BY <1>2, <1>3, <1>4, <1>5, <1>6, <1>7, <1>8 DEF StoreStep, StoreTypes

\* Only the job whose result is recorded gets a result: its followers are
\* queued or skipped (CompleteRunnerJob, finalizeRunJobs).
LEMMA StoreComplete ==
  ASSUME StoreTypes, NEW w \in Runners, NEW j \in Jobs, NEW v \in Q!JobResults,
         Q!CompleteRunnerJob(w, j[1], j[2], v)
  PROVE  StoreStep({j}, v)
<1>1. j[1] \in 1..RunLimit /\ j[2] \in Keys
  BY DEF Jobs
<1> DEFINE u == [jobStatus[j[1]] EXCEPT ![j[2]] = v]
           s == Q!Propagate(u, v)
<1>2. /\ jobStatus' = [jobStatus EXCEPT ![j[1]] = s]
      /\ UNCHANGED owner
      /\ Status(j) \in Q!Leased
      /\ UNCHANGED runStatus \/ runStatus' = [runStatus EXCEPT ![j[1]] = Q!Outcome(s)]
  BY DEF Q!CompleteRunnerJob, Q!Completed, Q!Holds, Status
<1>3. u \in [Keys -> Q!JobStatuses] /\ u[j[2]] = v /\ \A k \in Keys : k # j[2] => u[k] = jobStatus[j[1]][k]
  BY <1>1 DEF StoreTypes, Q!JobStatuses
<1> HIDE DEF u
<1>4. /\ s \in [Keys -> Q!JobStatuses]
      /\ \A k \in Keys : s[k] = u[k] \/ (u[k] \in Q!Waiting /\ s[k] \in {"queued", "skipped"})
  BY <1>3 DEF Q!Propagate, Q!Unblock, Q!Skip, Q!Waiting, Q!JobStatuses, Q!Unfinished
<1> HIDE DEF s
<1>5. jobStatus' \in [1..RunLimit -> [Keys -> Q!JobStatuses]]
  BY <1>1, <1>2, <1>4 DEF StoreTypes
<1>6. ASSUME NEW i \in Jobs
      PROVE  \/ Status(i)' = Status(i)
             \/ i = j /\ Status(i)' = v
             \/ Status(i) \in Q!Waiting /\ Status(i)' \in {"queued", "skipped"}
  <2>1. i[1] \in 1..RunLimit /\ i[2] \in Keys /\ (i = j <=> i[1] = j[1] /\ i[2] = j[2])
    BY DEF Jobs
  <2>2. CASE i[1] # j[1]
    BY <1>1, <1>2, <2>1, <2>2 DEF StoreTypes, Status
  <2>3. CASE i[1] = j[1]
    <3>1. Status(i)' = s[i[2]] /\ Status(i) = jobStatus[j[1]][i[2]]
      BY <1>1, <1>2, <2>1, <2>3 DEF StoreTypes, Status
    <3>2. v \notin Q!Waiting
      BY DEF Q!JobResults, Q!Waiting
    <3> QED BY <1>3, <1>4, <2>1, <2>3, <3>1, <3>2
  <2> QED BY <2>2, <2>3
<1>7. (Status(j) \notin Past /\ Status(j) = "assigned") \/ Status(j) = "running"
  BY <1>2 DEF Q!Leased, Past, Q!JobResults
<1>8. AbsentOK'
  <2>1. Q!Outcome(s) # "absent"
    BY DEF Q!Outcome
  <2>2. runStatus[j[1]] # "absent"
    BY <1>1, <1>2 DEF StoreTypes, AbsentOK, Status, Q!Leased
  <2>3. \A r \in 1..RunLimit : runStatus'[r] = "absent" => r # j[1] /\ runStatus[r] = "absent"
    BY <1>2, <2>1, <2>2 DEF StoreTypes
  <2> QED BY <1>1, <1>2, <2>3 DEF StoreTypes, AbsentOK
<1>9. \A i \in Jobs : OwnerOf(i)' = OwnerOf(i)
  BY <1>2 DEF OwnerOf
<1>10. \A i \in Jobs : /\ Status(i) \in Past => Status(i)' \in Past
                       /\ Status(i) \in Q!JobResults => Status(i)' = Status(i)
                       /\ Status(i)' \in Q!JobResults => Status(i)' = Status(i) \/ (i \in {j} /\ Status(i)' = v)
  BY <1>6, <1>7 DEF Past, Q!JobResults, Q!Waiting
<1>11. runStatus' \in [1..RunLimit -> Q!RunStatuses]
  BY <1>2 DEF StoreTypes, Q!Outcome, Q!RunStatuses, Q!TerminalRun
<1> QED BY <1>2, <1>5, <1>8, <1>9, <1>10, <1>11 DEF StoreStep, StoreTypes

\* Recovery fails running jobs and gives assigned ones back
\* (RecoverExpiredRunnerLeases).
LEMMA StoreRecover ==
  ASSUME StoreTypes, NEW r \in 1..RunLimit, NEW S \in SUBSET Keys, NEW late \in SUBSET Keys,
         Q!RecoverExpiredRunnerLeases(r, S, late)
  PROVE  StoreStep(Jobs, "failed")
<1> DEFINE s == Q!RecoveredJobs(jobStatus[r], S, late)
           back == {k \in S : jobStatus[r][k] = "assigned"}
<1>1. /\ jobStatus' = [jobStatus EXCEPT ![r] = s]
      /\ owner' = [owner EXCEPT ![r] = [k \in Keys |-> IF k \in back THEN NoRunner ELSE @[k]]]
      /\ \/ UNCHANGED runStatus
         \/ \E x \in {"failed", "queued"} : runStatus' = [runStatus EXCEPT ![r] = x]
      /\ S # {} /\ S \subseteq Q!Expired(r)
  BY DEF Q!RecoverExpiredRunnerLeases
<1>2. /\ s \in [Keys -> Q!JobStatuses]
      /\ \A k \in Keys :
           /\ jobStatus[r][k] = "running" => s[k] \in {"running", "failed"}
           /\ jobStatus[r][k] \in Q!JobResults => s[k] = jobStatus[r][k]
           /\ s[k] \in Q!JobResults => s[k] = jobStatus[r][k] \/ s[k] = "failed"
  <2>1. jobStatus[r] \in [Keys -> Q!JobStatuses]
    BY DEF StoreTypes
  <2>2. \A k \in S : jobStatus[r][k] \in Q!Leased
    BY <1>1 DEF Q!Expired
  <2> QED BY <2>1, <2>2 DEF Q!RecoveredJobs, Q!Skip, Q!JobStatuses, Q!Unfinished, Q!Waiting,
                            Q!Leased, Q!JobResults
<1> HIDE DEF s
<1>3. jobStatus' \in [1..RunLimit -> [Keys -> Q!JobStatuses]]
  BY <1>1, <1>2 DEF StoreTypes
<1>4. owner' \in [1..RunLimit -> [Keys -> Runners \cup {NoRunner}]]
  BY <1>1 DEF StoreTypes
<1>5. \A i \in Jobs : Status(i)' = IF i[1] = r THEN s[i[2]] ELSE Status(i)
  BY <1>1 DEF StoreTypes, Status, Jobs
<1>6. \A i \in Jobs : \/ OwnerOf(i)' = OwnerOf(i)
                      \/ OwnerOf(i)' = NoRunner /\ Status(i) = "assigned"
  BY <1>1 DEF StoreTypes, OwnerOf, Status, Jobs
<1>7. AbsentOK' /\ runStatus' \in [1..RunLimit -> Q!RunStatuses]
  <2>1. PICK k \in Keys : jobStatus[r][k] \in Q!Leased
    BY <1>1 DEF Q!Expired
  <2>2. runStatus[r] # "absent"
    BY <2>1 DEF StoreTypes, AbsentOK, Q!Leased
  <2>3. \A q \in 1..RunLimit : runStatus'[q] = "absent" => q # r /\ runStatus[q] = "absent"
    BY <1>1, <2>2 DEF StoreTypes
  <2>4. runStatus' \in [1..RunLimit -> Q!RunStatuses]
    BY <1>1 DEF StoreTypes, Q!RunStatuses, Q!TerminalRun
  <2> QED BY <1>1, <2>3, <2>4 DEF StoreTypes, AbsentOK
<1>8. \A i \in Jobs : /\ Status(i) \in Past => Status(i)' \in Past
                      /\ Status(i) \in Q!JobResults => Status(i)' = Status(i)
                      /\ Status(i)' \in Q!JobResults => Status(i)' = Status(i) \/ Status(i)' = "failed"
                      /\ "assigned" \notin Past
  BY <1>2, <1>5 DEF Past, Q!JobResults, Status, Jobs
<1> QED BY <1>3, <1>4, <1>6, <1>7, <1>8 DEF StoreStep, StoreTypes

\* CancelAuthorizedRun cancels what is not finished.
LEMMA StoreCancel ==
  ASSUME StoreTypes, NEW r \in 1..RunLimit, Q!CancelAuthorizedRun(r)
  PROVE  StoreStep(Jobs, "canceled")
<1> DEFINE s == [k \in Keys |-> IF jobStatus[r][k] \in Q!Unfinished THEN "canceled" ELSE jobStatus[r][k]]
<1>1. /\ jobStatus' = [jobStatus EXCEPT ![r] = s]
      /\ runStatus' = [runStatus EXCEPT ![r] = "canceled"]
      /\ UNCHANGED owner
  BY DEF Q!CancelAuthorizedRun
<1>2. s \in [Keys -> Q!JobStatuses]
  BY DEF StoreTypes, Q!JobStatuses, Q!JobResults
<1>3. jobStatus' \in [1..RunLimit -> [Keys -> Q!JobStatuses]]
  BY <1>1, <1>2 DEF StoreTypes
<1>4. \A i \in Jobs : Status(i)' = Status(i) \/ (Status(i) \in Q!Unfinished /\ Status(i)' = "canceled")
  <2>1. \A k \in Keys : \/ s[k] = jobStatus[r][k]
                        \/ jobStatus[r][k] \in Q!Unfinished /\ s[k] = "canceled"
    OBVIOUS
  <2> HIDE DEF s
  <2>2. \A i \in Jobs : Status(i)' = IF i[1] = r THEN s[i[2]] ELSE Status(i)
    BY <1>1 DEF StoreTypes, Status, Jobs
  <2>3. \A i \in Jobs : i[2] \in Keys /\ (i[1] = r => Status(i) = jobStatus[r][i[2]])
    BY DEF Status, Jobs
  <2> QED BY <2>1, <2>2, <2>3
<1>5. runStatus' \in [1..RunLimit -> Q!RunStatuses]
  BY <1>1 DEF StoreTypes, Q!RunStatuses, Q!TerminalRun
<1>6. AbsentOK'
  BY <1>1 DEF StoreTypes, AbsentOK
<1>7. \A i \in Jobs : OwnerOf(i)' = OwnerOf(i)
  BY <1>1 DEF OwnerOf
<1>8. \A i \in Jobs : /\ Status(i) \in Past => Status(i)' \in Past
                      /\ Status(i) \in Q!JobResults => Status(i)' = Status(i)
                      /\ Status(i)' \in Q!JobResults => Status(i)' = Status(i) \/ Status(i)' = "canceled"
  BY <1>4 DEF Past, Q!JobResults, Q!Unfinished, Q!Waiting, Q!Leased
<1> QED BY <1>1, <1>3, <1>5, <1>6, <1>7, <1>8 DEF StoreStep, StoreTypes

\* CreateRun inserts jobs that wait.
LEMMA StoreCreate ==
  ASSUME StoreTypes, NEW r \in 1..RunLimit, NEW c, Q!CreateRun(r, c)
  PROVE  StoreStep({}, "none")
<1>1. /\ jobStatus' = [jobStatus EXCEPT ![r] = Q!PlannedJobs]
      /\ runStatus' = [runStatus EXCEPT ![r] = "queued"]
      /\ runStatus[r] = "absent"
      /\ UNCHANGED owner
  BY DEF Q!CreateRun, Q!InsertRun, Q!Fresh
<1>2. Q!PlannedJobs \in [Keys -> Q!JobStatuses] /\ \A k \in Keys : Q!PlannedJobs[k] \in Q!Waiting
  BY DEF Q!PlannedJobs, Q!JobStatuses, Q!Unfinished, Q!Waiting
<1>3. jobStatus' \in [1..RunLimit -> [Keys -> Q!JobStatuses]]
  BY <1>1, <1>2 DEF StoreTypes
<1>4. \A i \in Jobs : Status(i)' = Status(i) \/ (Status(i) = "none" /\ Status(i)' \in Q!Waiting)
  <2>1. \A i \in Jobs : Status(i)' = IF i[1] = r THEN Q!PlannedJobs[i[2]] ELSE Status(i)
    BY <1>1 DEF StoreTypes, Status, Jobs
  <2>2. \A k \in Keys : jobStatus[r][k] = "none"
    BY <1>1 DEF StoreTypes, AbsentOK
  <2>3. \A i \in Jobs : i[2] \in Keys /\ (i[1] = r => Status(i) = jobStatus[r][i[2]])
    BY DEF Status, Jobs
  <2> QED BY <1>2, <2>1, <2>2, <2>3
<1>5. runStatus' \in [1..RunLimit -> Q!RunStatuses]
  BY <1>1 DEF StoreTypes, Q!RunStatuses
<1>6. AbsentOK'
  BY <1>1 DEF StoreTypes, AbsentOK
<1>7. \A i \in Jobs : OwnerOf(i)' = OwnerOf(i)
  BY <1>1 DEF OwnerOf
<1>8. \A i \in Jobs : /\ Status(i) \in Past => Status(i)' \in Past
                      /\ Status(i) \in Q!JobResults => Status(i)' = Status(i)
                      /\ Status(i)' \in Q!JobResults => Status(i)' = Status(i)
  BY <1>4 DEF Past, Q!JobResults, Q!Waiting
<1> QED BY <1>1, <1>3, <1>5, <1>6, <1>7, <1>8 DEF StoreStep, StoreTypes

\* ClaimRunnerJob hands a queued job to Runner w and leaves the others alone.
LEMMA StoreClaim ==
  ASSUME StoreTypes, NEW w \in Runners, NEW j \in Jobs, Q!ClaimRunnerJob(w, j[1], j[2])
  PROVE  /\ runStatus' \in [1..RunLimit -> Q!RunStatuses]
         /\ jobStatus' \in [1..RunLimit -> [Keys -> Q!JobStatuses]]
         /\ owner' \in [1..RunLimit -> [Keys -> Runners \cup {NoRunner}]]
         /\ AbsentOK'
         /\ Status(j) = "queued" /\ Status(j)' = "assigned" /\ OwnerOf(j)' = w
         /\ \A i \in Jobs : i # j => Status(i)' = Status(i) /\ OwnerOf(i)' = OwnerOf(i)
<1>1. j[1] \in 1..RunLimit /\ j[2] \in Keys
  BY DEF Jobs
<1>2. /\ jobStatus' = [jobStatus EXCEPT ![j[1]][j[2]] = "assigned"]
      /\ owner' = [owner EXCEPT ![j[1]][j[2]] = w]
      /\ runStatus' = [runStatus EXCEPT ![j[1]] = "running"]
      /\ Status(j) = "queued"
  BY DEF Q!ClaimRunnerJob, Q!Matching, Status
<1>3. jobStatus' \in [1..RunLimit -> [Keys -> Q!JobStatuses]]
  BY <1>1, <1>2 DEF StoreTypes, Q!JobStatuses, Q!Unfinished, Q!Leased
<1>4. owner' \in [1..RunLimit -> [Keys -> Runners \cup {NoRunner}]]
  BY <1>1, <1>2 DEF StoreTypes
<1>5. runStatus' \in [1..RunLimit -> Q!RunStatuses]
  BY <1>2 DEF StoreTypes, Q!RunStatuses
<1>6. AbsentOK'
  BY <1>1, <1>2 DEF StoreTypes, AbsentOK
<1>7. \A i \in Jobs : Status(i)' = IF i = j THEN "assigned" ELSE Status(i)
  BY <1>1, <1>2 DEF StoreTypes, Status, Jobs
<1>8. \A i \in Jobs : OwnerOf(i)' = IF i = j THEN w ELSE OwnerOf(i)
  BY <1>1, <1>2 DEF StoreTypes, OwnerOf, Jobs
<1> QED BY <1>2, <1>3, <1>4, <1>5, <1>6, <1>7, <1>8

-----------------------------------------------------------------------------
(* What no step takes back.                                                *)

\* Leases are numbered upwards, a lease stays with its Runner until there is a
\* new one, and there is no new one of a started job.
Grows ==
  \A j \in Jobs :
    /\ Status(j) \in Past =>
         Status(j)' \in Past /\ OwnerOf(j)' = OwnerOf(j) /\ token'[j] = token[j]
    /\ token'[j] \in {token[j], token[j] + 1}
    /\ token'[j] = token[j] => OwnerOf(j)' \in {OwnerOf(j), NoRunner}

\* Executions and logs go forward, and after its end a job prints nothing.
Progress(j) ==
  /\ begun[j] = 1 => begun'[j] = 1
  /\ Len(printed[j]) <= Len(printed'[j])
  /\ Len(stored[j]) <= Len(stored'[j]) /\ Len(stored'[j]) <= Len(printed'[j])
  /\ j \in ran => j \in ran'
  /\ Ended(j) => Ended(j)' /\ Len(printed'[j]) = Len(printed[j])

\* The step begins and prints nothing of job j.
Steady(j) == begun'[j] = begun[j] /\ Len(printed'[j]) = Len(printed[j])

\* A started lease stays started.
LEMMA KeepAuthorized ==
  ASSUME Grows, NEW w, NEW j \in Jobs, NEW t, Authorized(w, j, t)
  PROVE  Authorized(w, j, t)'
BY DEF Grows, Authorized

\* A lease that was given to a Runner is never another's.
LEMMA KeepOurs ==
  ASSUME WorkTypeOK, WorkTypeOK', Grows, NEW w, NEW j \in Jobs, NEW t, Ours(w, j, t)
  PROVE  Ours(w, j, t)'
<1>1. token[j] \in Nat /\ token'[j] \in Nat
  BY DEF WorkTypeOK
<1> QED BY <1>1 DEF Grows, Ours

\* An unused lease stays so while the job is not begun.
LEMMA KeepUnused ==
  ASSUME WorkTypeOK, WorkTypeOK', Grows, NEW w, NEW j \in Jobs, NEW t, Unused(w, j, t),
         begun'[j] = begun[j]
  PROVE  Unused(w, j, t)'
<1>1. token[j] \in Nat /\ token'[j] \in Nat
  BY DEF WorkTypeOK
<1>2. Ours(w, j, t)'
  BY KeepOurs DEF Unused
<1>3. t = token'[j] => t = token[j]
  BY <1>1 DEF Grows, Unused, Ours
<1> QED BY <1>2, <1>3 DEF Unused

\* A complete log stays complete once the job has ended.
LEMMA KeepComplete ==
  ASSUME WorkTypeOK, WorkTypeOK', NEW j \in Jobs, Progress(j), Ended(j), Complete(j)
  PROVE  Complete(j)'
<1>1. Len(printed[j]) \in Nat /\ Len(printed'[j]) \in Nat /\ Len(stored[j]) \in Nat /\ Len(stored'[j]) \in Nat
  BY DEF WorkTypeOK
<1> QED BY <1>1 DEF Progress, Complete

\* A request stays true.
LEMMA KeepRequest ==
  ASSUME WorkTypeOK, WorkTypeOK', Grows, \A j \in Jobs : Progress(j),
         NEW w, NEW m \in Requests, RequestOK(w, m)
  PROVE  RequestOK(w, m)'
<1>1. m.type = "completed" => m.job \in Jobs
  BY DEF Requests, Transitions, Completions, Chunks, Heartbeats
<1>2. m.type \in {"accepted", "started"} => m.job \in Jobs /\ m.lease \in Nat
  BY DEF Requests, Transitions, Completions, Chunks, Heartbeats
<1>3. m.type = "log" => m.job \in Jobs /\ m.seq \in Nat
  BY DEF Requests, Transitions, Completions, Chunks, Heartbeats
<1>4. m.type = "heartbeat" => \A l \in m.leases : l[1] \in Jobs
  BY DEF Requests, Transitions, Completions, Chunks, Heartbeats, Leases
<1>5. CASE m.type = "completed"
  BY <1>1, <1>5, KeepAuthorized, KeepComplete DEF RequestOK, Progress
<1>6. CASE m.type = "log"
  <2>1. Len(printed[m.job]) \in Nat /\ Len(printed'[m.job]) \in Nat
    BY <1>3, <1>6 DEF WorkTypeOK
  <2> QED BY <1>3, <1>6, <2>1, KeepAuthorized DEF RequestOK, Progress
<1>7. CASE m.type = "heartbeat"
  BY <1>4, <1>7, KeepAuthorized DEF RequestOK, Progress
<1>8. CASE m.type \in {"accepted", "started"}
  <2>1. token[m.job] \in Nat /\ token'[m.job] \in {token[m.job], token[m.job] + 1}
    BY <1>2, <1>8 DEF WorkTypeOK, Grows
  <2> QED BY <1>2, <1>8, <2>1 DEF RequestOK
<1> QED BY <1>5, <1>6, <1>7, <1>8 DEF RequestOK

\* So does what is known of an execution.
LEMMA KeepExecution ==
  ASSUME Grows, NEW w, NEW e, e[1] \in Jobs, Progress(e[1]), ExecutionOK(w, e)
  PROVE  ExecutionOK(w, e)'
BY KeepAuthorized DEF ExecutionOK, Progress

\* A local job whose execution does not move.
LEMMA KeepEntry ==
  ASSUME WorkTypeOK, WorkTypeOK', Grows, NEW w, NEW j \in Jobs, NEW e \in Entries, EntryOK(w, j, e),
         Progress(j), Steady(j)
  PROVE  EntryOK(w, j, e)'
<1>1. /\ Len(printed[j]) \in Nat /\ Len(stored[j]) \in Nat /\ Len(stored'[j]) \in Nat
      /\ e.seq \in Nat /\ e.chunk \in Nat /\ e.phase \in Phases
  BY DEF WorkTypeOK, Entries
<1>2. CASE e.phase = "none"
  BY <1>2 DEF EntryOK, AwaitingPhases, Executed
<1>3. CASE e.phase \in AwaitingPhases
  <2>1. Unused(w, j, e.lease)' /\ Ours(w, j, e.lease)'
    BY <1>3, KeepUnused DEF EntryOK, Steady, Unused
  <2> QED BY <1>3, <2>1 DEF EntryOK, AwaitingPhases, Executed
<1>4. CASE e.phase \in Executed
  <2>1. Authorized(w, j, e.lease)' /\ Ours(w, j, e.lease)'
    BY <1>4, KeepAuthorized, KeepOurs DEF EntryOK, Executed
  <2>2. Ended(j) => Ended(j)'
    BY DEF Progress
  <2>3. Ended(j) /\ Complete(j) => Complete(j)'
    BY KeepComplete
  <2>4. /\ e.seq <= Len(stored'[j]) + 1
        /\ e.chunk = 0 => e.seq = Len(stored'[j])
        /\ e.seq = Len(printed'[j]) /\ e.chunk \in {0, e.seq} /\ begun'[j] = 1
    BY <1>1, <1>4 DEF EntryOK, Progress, Steady
  <2> QED BY <1>4, <2>1, <2>2, <2>3, <2>4 DEF EntryOK, AwaitingPhases, Executed
<1> QED BY <1>1, <1>2, <1>3, <1>4 DEF Phases, AwaitingPhases, Executed

\* The row of a job of which nothing is begun, printed or stored.
LEMMA KeepStore ==
  ASSUME WorkTypeOK, WorkTypeOK', Grows, NEW j \in Jobs, StoreOK(j), Progress(j), Steady(j),
         stored'[j] = stored[j],
         Status(j)' = "succeeded" => Status(j) = "succeeded" \/ (Ended(j) /\ Complete(j))
  PROVE  StoreOK(j)'
<1>1. /\ Len(printed[j]) \in Nat /\ begun[j] \in {0, 1} /\ stored[j] \in Seq(Rows)
  BY DEF WorkTypeOK
<1>2. begun[j] = 1 => Status(j)' \in Past /\ token'[j] = token[j]
  BY DEF StoreOK, Grows
<1>3. stored[j] # <<>> => token'[j] = token[j]
  <2>1. stored[j] # <<>> => Len(stored[j]) > 0
    BY <1>1
  <2> QED BY <1>1, <1>2, <2>1 DEF StoreOK
<1>4. \A i \in DOMAIN stored'[j] : stored'[j][i].lease = token'[j] /\ stored'[j][i].seq = i
  <2>1. stored[j] = <<>> => DOMAIN stored[j] = {}
    OBVIOUS
  <2> QED BY <1>3, <2>1 DEF StoreOK
<1>5. Status(j)' = "succeeded" => Ended(j)' /\ Complete(j)'
  <2>1. Status(j)' = "succeeded" => Ended(j) /\ Complete(j)
    BY DEF StoreOK
  <2> QED BY <2>1, KeepComplete DEF Progress
<1> QED BY <1>2, <1>4, <1>5 DEF StoreOK, Steady, Progress

-----------------------------------------------------------------------------
(* A Runner that takes no part in a step.                                  *)

\* Nothing is begun or printed, and everything else only goes forward.
Quiet == Grows /\ \A j \in Jobs : Progress(j) /\ Steady(j)

\* The local jobs of Runner w stay as they are.
LEMMA KeepRunner ==
  ASSUME WorkTypeOK, WorkTypeOK', Quiet, NEW w \in Runners, RunnerOK(w),
         active'[w] = active[w], executing'[w] \subseteq executing[w], results'[w] = results[w]
  PROVE  RunnerOK(w)'
<1>1. ASSUME NEW j \in Jobs, NEW e, e = active'[w][j] PROVE EntryOK(w, j, e)'
  <2>1. e = active[w][j] /\ e \in Entries
    BY <1>1 DEF WorkTypeOK
  <2> QED BY <2>1, KeepEntry DEF Quiet, RunnerOK
<1>2. ASSUME NEW e \in executing'[w] PROVE ExecutionOK(w, e)'
  <2>1. e \in executing[w] /\ e[1] \in Jobs
    BY <1>2 DEF WorkTypeOK, Leases
  <2> QED BY <2>1, KeepExecution DEF Quiet, RunnerOK
<1>3. ASSUME NEW r \in Range(results'[w]) PROVE ResultOK(w, r)'
  <2>1. r \in Range(results[w])
    BY <1>3
  <2>2. r \in Reports
    BY <2>1 DEF WorkTypeOK, Range
  <2>3. r.job \in Jobs
    BY <2>2 DEF Reports
  <2>4. ResultOK(w, r)
    BY <2>1 DEF RunnerOK
  <2> QED BY <2>4, <2>3 DEF Quiet, ResultOK, Progress
<1> QED BY <1>1, <1>2, <1>3 DEF RunnerOK

\* What was said to and by Runner w stays true.
LEMMA KeepResponse ==
  ASSUME WorkTypeOK, WorkTypeOK', Grows, NEW w \in Runners, NEW m \in Responses, ResponseOK(w, m),
         Progress(m.job), Steady(m.job), active'[w][m.job] = active[w][m.job]
  PROVE  ResponseOK(w, m)'
<1>1. m.job \in Jobs
  BY DEF Responses, Assignments, Answers, Acks
<1>2. Len(stored[m.job]) \in Nat /\ Len(stored'[m.job]) \in Nat
  BY <1>1, SMTT(30) DEF WorkTypeOK
<1>3. CASE m.type = "assignment"
  BY <1>1, <1>3, KeepUnused DEF ResponseOK, Steady
<1>4. CASE m.type = "renewed"
  <2>1. PICK e : e = active[w][m.job]
    OBVIOUS
  <2>2. e.phase = "awaitingStart" => Authorized(w, m.job, e.lease)'
    BY <1>1, <1>4, <2>1, KeepAuthorized DEF ResponseOK
  <2> QED BY <1>4, <2>1, <2>2 DEF ResponseOK, Authorized
<1>5. CASE m.type = "logAck"
  BY <1>1, <1>2, <1>5 DEF ResponseOK, Progress
<1> QED BY <1>3, <1>4, <1>5 DEF ResponseOK

\* What the handler is about to assign stays unused.
LEMMA KeepHandler ==
  ASSUME WorkTypeOK, WorkTypeOK', Grows, NEW w \in Runners, NEW h \in Handlers, HandlerOK(w, h),
         h.at = "issuing" => Steady(h.job)
  PROVE  HandlerOK(w, h)'
<1>1. h.at = "issuing" => h.job \in Jobs
  BY DEF Handlers
<1> QED BY <1>1, KeepUnused DEF HandlerOK, Steady

\* The messages of a Runner that a quiet step leaves alone.
LEMMA KeepMessages ==
  ASSUME WorkTypeOK, WorkTypeOK', Quiet, NEW w \in Runners, MessagesOK(w),
         active'[w] = active[w], requests'[w] = requests[w], responses'[w] = responses[w],
         handler'[w] = handler[w], w \in attached' => w \in attached, w \in link => w \in link'
  PROVE  MessagesOK(w)'
<1>1. ASSUME NEW m \in Range(requests'[w]) PROVE RequestOK(w, m)'
  <2>1. m \in Requests /\ RequestOK(w, m)
    BY <1>1 DEF WorkTypeOK, Range, MessagesOK
  <2> QED BY <2>1, KeepRequest DEF Quiet
<1>2. ASSUME NEW m \in Range(responses'[w]) PROVE ResponseOK(w, m)'
  <2>1. m \in Responses /\ ResponseOK(w, m)
    BY <1>2 DEF WorkTypeOK, Range, MessagesOK
  <2>2. m.job \in Jobs
    BY <2>1 DEF Responses, Assignments, Answers, Acks
  <2> QED BY <2>1, <2>2, KeepResponse DEF Quiet
<1>3. ASSUME NEW h, h = handler'[w] PROVE HandlerOK(w, h)'
  <2>1. h \in Handlers /\ HandlerOK(w, h)
    BY <1>3 DEF WorkTypeOK, MessagesOK
  <2>2. h.at = "issuing" => h.job \in Jobs
    BY <2>1 DEF Handlers
  <2> QED BY <2>1, <2>2, KeepHandler DEF Quiet
<1>4. ResponsesInOrder(active'[w], responses'[w], handler'[w])
  BY DEF MessagesOK
<1>5. w \in attached' => RequestsInOrder(active'[w], requests'[w], responses'[w], handler'[w])
  BY DEF MessagesOK
<1>6. w \notin link' => responses'[w] = <<>> /\ w \notin attached'
  BY DEF MessagesOK
<1> QED BY <1>1, <1>2, <1>3, <1>4, <1>5, <1>6 DEF MessagesOK

-----------------------------------------------------------------------------
(* Sequences of messages.                                                  *)

\* The elements of a tail, one place further on.
LEMMA TailAt ==
  ASSUME NEW S, NEW s \in Seq(S), s # <<>>
  PROVE  /\ Tail(s) \in Seq(S)
         /\ \A i \in DOMAIN Tail(s) : i + 1 \in DOMAIN s /\ Tail(s)[i] = s[i + 1] /\ i \in Nat \ {0}
         /\ Range(Tail(s)) \subseteq Range(s)
         /\ Head(s) \in Range(s) /\ Head(s) = s[1] /\ 1 \in DOMAIN s
<1>1. Len(s) \in Nat \ {0} /\ DOMAIN s = 1..Len(s)
  OBVIOUS
<1>2. /\ Tail(s) \in Seq(S) /\ Len(Tail(s)) = Len(s) - 1 /\ DOMAIN Tail(s) = 1..Len(s) - 1
      /\ \A i \in 1..Len(s) - 1 : Tail(s)[i] = s[i + 1]
  BY <1>1
<1>3. \A i \in DOMAIN Tail(s) : i + 1 \in DOMAIN s /\ Tail(s)[i] = s[i + 1] /\ i \in Nat \ {0}
  BY <1>1, <1>2
<1>4. Range(Tail(s)) \subseteq Range(s)
  BY <1>3 DEF Range
<1>5. Head(s) = s[1] /\ 1 \in DOMAIN s
  BY <1>1
<1>6. Head(s) \in Range(s)
  BY <1>5 DEF Range
<1> QED BY <1>2, <1>3, <1>4, <1>5, <1>6

\* The elements of a concatenation.
LEMMA ConcatAt ==
  ASSUME NEW S, NEW s \in Seq(S), NEW t \in Seq(S)
  PROVE  /\ s \o t \in Seq(S)
         /\ \A i \in DOMAIN (s \o t) :
              \/ i \in DOMAIN s /\ (s \o t)[i] = s[i]
              \/ i \notin DOMAIN s /\ i - Len(s) \in DOMAIN t /\ (s \o t)[i] = t[i - Len(s)] /\ i > Len(s)
         /\ DOMAIN (s \o t) \subseteq Nat
         /\ \A i \in DOMAIN s : i <= Len(s)
         /\ Len(s) \in Nat
<1>1. Len(s) \in Nat /\ Len(t) \in Nat /\ DOMAIN s = 1..Len(s) /\ DOMAIN t = 1..Len(t)
  OBVIOUS
<1>2. /\ s \o t \in Seq(S) /\ DOMAIN (s \o t) = 1..Len(s) + Len(t)
      /\ \A i \in 1..Len(s) + Len(t) : (s \o t)[i] = IF i <= Len(s) THEN s[i] ELSE t[i - Len(s)]
  OBVIOUS
<1> QED BY <1>1, <1>2

\* What a concatenation holds.
LEMMA ConcatRange ==
  ASSUME NEW S, NEW s \in Seq(S), NEW t \in Seq(S)
  PROVE  Range(s \o t) \subseteq Range(s) \cup Range(t)
BY ConcatAt DEF Range

\* Messages read in their order.
LEMMA OneMessage ==
  ASSUME NEW S, NEW m \in S
  PROVE  <<m>> \in Seq(S) /\ DOMAIN <<m>> = {1} /\ <<m>>[1] = m /\ Range(<<m>>) = {m}
BY DEF Range

-----------------------------------------------------------------------------
(* The order of the responses.                                             *)

\* One is taken.
LEMMA TakeResponse ==
  ASSUME NEW E, NEW h, NEW res \in Seq(Responses), res # <<>>, ResponsesInOrder(E, res, h)
  PROVE  ResponsesInOrder(E, Tail(res), h)
<1>1. \A i \in DOMAIN Tail(res) : i + 1 \in DOMAIN res /\ Tail(res)[i] = res[i + 1] /\ i \in Nat \ {0}
  BY TailAt
<1> DEFINE T == Tail(res)
<1>2. \A i \in DOMAIN T : i + 1 \in DOMAIN res /\ T[i] = res[i + 1] /\ i \in Nat \ {0}
  BY <1>1
<1> HIDE DEF T
<1>3. ResponsesInOrder(E, T, h)
  <2> SUFFICES ASSUME NEW j \in Jobs
               PROVE
    /\ \A p \in DOMAIN T : Assigns(T[p], j) =>
         /\ E[j].lease < T[p].lease
         /\ \A q \in DOMAIN T : Renews(T[q], j) => q < p
         /\ \A q \in DOMAIN T : Assigns(T[q], j) /\ p < q => T[p].lease < T[q].lease
         /\ h.at = "issuing" /\ h.job = j => T[p].lease < h.lease
    /\ E[j].phase = "awaitingAcceptance" =>
         \A p, q \in DOMAIN T : Renews(T[p], j) /\ Renews(T[q], j) => p = q
    /\ h.at = "issuing" /\ h.job = j => E[j].lease < h.lease
    BY DEF ResponsesInOrder
  <2>1. ASSUME NEW p \in DOMAIN T, Assigns(T[p], j)
        PROVE  /\ E[j].lease < T[p].lease
               /\ h.at = "issuing" /\ h.job = j => T[p].lease < h.lease
    BY <1>2, <2>1 DEF ResponsesInOrder
  <2>2. ASSUME NEW p \in DOMAIN T, Assigns(T[p], j), NEW q \in DOMAIN T, Renews(T[q], j)
        PROVE  q < p
    <3>1. q + 1 < p + 1
      BY <1>2, <2>2 DEF ResponsesInOrder
    <3> QED BY <1>2, <3>1
  <2>3. ASSUME NEW p \in DOMAIN T, Assigns(T[p], j), NEW q \in DOMAIN T, Assigns(T[q], j), p < q
        PROVE  T[p].lease < T[q].lease
    <3>1. p + 1 < q + 1
      BY <1>2, <2>3
    <3> QED BY <1>2, <2>3, <3>1 DEF ResponsesInOrder
  <2>4. ASSUME E[j].phase = "awaitingAcceptance", NEW p \in DOMAIN T, NEW q \in DOMAIN T,
               Renews(T[p], j), Renews(T[q], j)
        PROVE  p = q
    <3>1. p + 1 = q + 1
      BY <1>2, <2>4 DEF ResponsesInOrder
    <3> QED BY <1>2, <3>1
  <2>5. h.at = "issuing" /\ h.job = j => E[j].lease < h.lease
    BY DEF ResponsesInOrder
  <2> QED BY <2>1, <2>2, <2>3, <2>4, <2>5
<1> QED BY <1>3 DEF T

\* A local job ends or goes on.
LEMMA MoveEntries ==
  ASSUME NEW E, NEW F, NEW h, NEW res, ResponsesInOrder(E, res, h),
         \A j \in Jobs : F[j].lease \in {0, E[j].lease} /\ E[j].lease \in Nat
                         /\ (F[j].phase = "awaitingAcceptance" => E[j].phase = "awaitingAcceptance"),
         \A p \in DOMAIN res : res[p].type = "assignment" => res[p].lease \in Nat,
         h.at = "issuing" => h.lease \in Nat
  PROVE  ResponsesInOrder(F, res, h)
<1>1. \A j \in Jobs : F[j].lease <= E[j].lease /\ F[j].lease \in Nat
  OBVIOUS
<1>2. ASSUME NEW j \in Jobs, NEW p \in DOMAIN res, Assigns(res[p], j)
      PROVE  F[j].lease < res[p].lease
  <2>1. E[j].lease < res[p].lease
    BY <1>2 DEF ResponsesInOrder
  <2> QED BY <1>1, <1>2, <2>1 DEF Assigns
<1>3. ASSUME NEW j \in Jobs, h.at = "issuing", h.job = j PROVE F[j].lease < h.lease
  <2>1. E[j].lease < h.lease
    BY <1>3 DEF ResponsesInOrder
  <2> QED BY <1>1, <1>3, <2>1
<1> QED BY <1>2, <1>3 DEF ResponsesInOrder

\* The first response is an assignment, and the Runner takes the job.
LEMMA TakeAssigned ==
  ASSUME NEW E, NEW F, NEW h, NEW res \in Seq(Responses), res # <<>>, ResponsesInOrder(E, res, h),
         NEW i \in Jobs, Assigns(Head(res), i), F[i].lease = Head(res).lease,
         \A j \in Jobs : j # i => F[j] = E[j]
  PROVE  ResponsesInOrder(F, Tail(res), h) /\ \A q \in DOMAIN Tail(res) : ~Renews(Tail(res)[q], i)
<1> DEFINE T == Tail(res)
<1>1. /\ \A p \in DOMAIN T : p + 1 \in DOMAIN res /\ T[p] = res[p + 1] /\ p \in Nat \ {0}
      /\ Head(res) = res[1] /\ 1 \in DOMAIN res
  BY TailAt
<1>2. ResponsesInOrder(E, T, h)
  BY TakeResponse
<1> HIDE DEF T
<1>3. \A q \in DOMAIN T : ~Renews(T[q], i)
  <2> SUFFICES ASSUME NEW q \in DOMAIN T, Renews(T[q], i) PROVE FALSE
    OBVIOUS
  <2>1. q + 1 < 1
    BY <1>1 DEF ResponsesInOrder
  <2> QED BY <1>1, <2>1
<1>4. ASSUME NEW p \in DOMAIN T, Assigns(T[p], i) PROVE F[i].lease < T[p].lease
  <2>1. 1 < p + 1
    BY <1>1
  <2> QED BY <1>1, <1>4, <2>1 DEF ResponsesInOrder
<1>5. h.at = "issuing" /\ h.job = i => F[i].lease < h.lease
  BY <1>1 DEF ResponsesInOrder
<1>6. ResponsesInOrder(F, T, h)
  <2>1. ASSUME NEW j \in Jobs, j # i
        PROVE  /\ \A p \in DOMAIN T : Assigns(T[p], j) =>
                    /\ F[j].lease < T[p].lease
                    /\ \A q \in DOMAIN T : Renews(T[q], j) => q < p
                    /\ \A q \in DOMAIN T : Assigns(T[q], j) /\ p < q => T[p].lease < T[q].lease
                    /\ h.at = "issuing" /\ h.job = j => T[p].lease < h.lease
               /\ F[j].phase = "awaitingAcceptance" =>
                    \A p, q \in DOMAIN T : Renews(T[p], j) /\ Renews(T[q], j) => p = q
               /\ h.at = "issuing" /\ h.job = j => F[j].lease < h.lease
    BY <1>2, <2>1 DEF ResponsesInOrder
  <2>2. /\ \A p \in DOMAIN T : Assigns(T[p], i) =>
             /\ F[i].lease < T[p].lease
             /\ \A q \in DOMAIN T : Renews(T[q], i) => q < p
             /\ \A q \in DOMAIN T : Assigns(T[q], i) /\ p < q => T[p].lease < T[q].lease
             /\ h.at = "issuing" /\ h.job = i => T[p].lease < h.lease
        /\ \A p, q \in DOMAIN T : Renews(T[p], i) /\ Renews(T[q], i) => p = q
        /\ h.at = "issuing" /\ h.job = i => F[i].lease < h.lease
    BY <1>2, <1>3, <1>4, <1>5 DEF ResponsesInOrder
  <2> QED BY <2>1, <2>2 DEF ResponsesInOrder
<1> QED BY <1>3, <1>6 DEF T

\* An assignment of a lease later than all before is sent.
LEMMA SendAssignment ==
  ASSUME NEW E, NEW h, NEW g, NEW res \in Seq(Responses), ResponsesInOrder(E, res, h),
         NEW m \in Responses, m.type = "assignment", E[m.job].lease < m.lease, g.at # "issuing",
         \A p \in DOMAIN res : Assigns(res[p], m.job) => res[p].lease < m.lease
  PROVE  ResponsesInOrder(E, res \o <<m>>, g)
<1> DEFINE T == res \o <<m>>
<1>1. /\ Len(res) \in Nat
      /\ \A i \in DOMAIN T : \/ i \in DOMAIN res /\ T[i] = res[i] /\ i <= Len(res)
                             \/ T[i] = m /\ i = Len(res) + 1
      /\ DOMAIN T \subseteq Nat
  BY OneMessage, ConcatAt
<1>2. \A j \in Jobs : ~Renews(m, j) /\ (Assigns(m, j) => j = m.job)
  BY DEF Renews, Assigns
<1> HIDE DEF T
<1>3. ASSUME NEW j \in Jobs
      PROVE  /\ \A p \in DOMAIN T : Assigns(T[p], j) =>
                  /\ E[j].lease < T[p].lease
                  /\ \A q \in DOMAIN T : Renews(T[q], j) => q < p
                  /\ \A q \in DOMAIN T : Assigns(T[q], j) /\ p < q => T[p].lease < T[q].lease
             /\ E[j].phase = "awaitingAcceptance" =>
                  \A p, q \in DOMAIN T : Renews(T[p], j) /\ Renews(T[q], j) => p = q
  <2>1. ASSUME NEW p \in DOMAIN T, Assigns(T[p], j) PROVE E[j].lease < T[p].lease
    BY <1>1, <1>2, <2>1 DEF ResponsesInOrder
  <2>2. ASSUME NEW p \in DOMAIN T, Assigns(T[p], j), NEW q \in DOMAIN T, Renews(T[q], j) PROVE q < p
    <3>1. q \in DOMAIN res /\ T[q] = res[q] /\ q <= Len(res) /\ q \in Nat
      BY <1>1, <1>2, <2>2
    <3>2. CASE p \in DOMAIN res /\ T[p] = res[p]
      BY <2>2, <3>1, <3>2 DEF ResponsesInOrder
    <3>3. CASE p = Len(res) + 1
      BY <1>1, <3>1, <3>3
    <3> QED BY <1>1, <3>2, <3>3
  <2>3. ASSUME NEW p \in DOMAIN T, Assigns(T[p], j), NEW q \in DOMAIN T, Assigns(T[q], j), p < q
        PROVE  T[p].lease < T[q].lease
    <3>1. p \in DOMAIN res /\ T[p] = res[p]
      BY <1>1, <2>3
    <3>2. CASE q \in DOMAIN res /\ T[q] = res[q]
      BY <2>3, <3>1, <3>2 DEF ResponsesInOrder
    <3>3. CASE T[q] = m
      BY <1>2, <2>3, <3>1, <3>3
    <3> QED BY <1>1, <3>2, <3>3
  <2>4. ASSUME E[j].phase = "awaitingAcceptance", NEW p \in DOMAIN T, NEW q \in DOMAIN T,
               Renews(T[p], j), Renews(T[q], j)
        PROVE  p = q
    <3>1. p \in DOMAIN res /\ T[p] = res[p] /\ q \in DOMAIN res /\ T[q] = res[q]
      BY <1>1, <1>2, <2>4
    <3> QED BY <2>4, <3>1 DEF ResponsesInOrder
  <2> QED BY <2>1, <2>2, <2>3, <2>4
<1> QED BY <1>3 DEF ResponsesInOrder, T

\* Answers are sent that renew jobs which await neither an assignment nor, if
\* there are several answers, their acceptance.
LEMMA SendAnswers ==
  ASSUME NEW E, NEW h, NEW g, NEW res \in Seq(Responses), ResponsesInOrder(E, res, h),
         NEW s \in Seq(Responses), g.at # "issuing",
         \A i \in DOMAIN s : s[i].type # "assignment",
         \A i \in DOMAIN s, j \in Jobs : Renews(s[i], j) =>
            /\ \A p \in DOMAIN res : ~Assigns(res[p], j)
            /\ E[j].phase = "awaitingAcceptance" =>
                 Len(s) = 1 /\ \A p \in DOMAIN res : ~Renews(res[p], j)
  PROVE  ResponsesInOrder(E, res \o s, g)
<1> DEFINE T == res \o s
<1>1. /\ Len(res) \in Nat
      /\ \A i \in DOMAIN T : \/ i \in DOMAIN res /\ T[i] = res[i]
                             \/ i - Len(res) \in DOMAIN s /\ T[i] = s[i - Len(res)]
      /\ DOMAIN T \subseteq Nat
  BY ConcatAt
<1>2. \A j \in Jobs, i \in DOMAIN T : Assigns(T[i], j) => i \in DOMAIN res /\ T[i] = res[i]
  BY <1>1 DEF Assigns
<1>3. Len(s) = 1 => DOMAIN s = {1}
  OBVIOUS
<1> HIDE DEF T
<1>4. ASSUME NEW j \in Jobs
      PROVE  /\ \A p \in DOMAIN T : Assigns(T[p], j) =>
                  /\ E[j].lease < T[p].lease
                  /\ \A q \in DOMAIN T : Renews(T[q], j) => q < p
                  /\ \A q \in DOMAIN T : Assigns(T[q], j) /\ p < q => T[p].lease < T[q].lease
             /\ E[j].phase = "awaitingAcceptance" =>
                  \A p, q \in DOMAIN T : Renews(T[p], j) /\ Renews(T[q], j) => p = q
  <2>1. ASSUME NEW p \in DOMAIN T, Assigns(T[p], j) PROVE E[j].lease < T[p].lease
    BY <1>2, <2>1 DEF ResponsesInOrder
  <2>2. ASSUME NEW p \in DOMAIN T, Assigns(T[p], j), NEW q \in DOMAIN T, Renews(T[q], j) PROVE q < p
    <3>1. p \in DOMAIN res /\ T[p] = res[p]
      BY <1>2, <2>2
    <3>2. q \in DOMAIN res /\ T[q] = res[q]
      BY <1>1, <2>2, <3>1
    <3> QED BY <2>2, <3>1, <3>2 DEF ResponsesInOrder
  <2>3. ASSUME NEW p \in DOMAIN T, Assigns(T[p], j), NEW q \in DOMAIN T, Assigns(T[q], j), p < q
        PROVE  T[p].lease < T[q].lease
    <3>1. p \in DOMAIN res /\ T[p] = res[p] /\ q \in DOMAIN res /\ T[q] = res[q]
      BY <1>2, <2>3
    <3> QED BY <2>3, <3>1 DEF ResponsesInOrder
  <2>4. ASSUME E[j].phase = "awaitingAcceptance", NEW p \in DOMAIN T, NEW q \in DOMAIN T,
               Renews(T[p], j), Renews(T[q], j)
        PROVE  p = q
    <3>1. CASE p \in DOMAIN res /\ T[p] = res[p]
      <4>1. q \in DOMAIN res /\ T[q] = res[q]
        BY <1>1, <2>4, <3>1
      <4> QED BY <2>4, <3>1, <4>1 DEF ResponsesInOrder
    <3>2. CASE p - Len(res) \in DOMAIN s /\ T[p] = s[p - Len(res)]
      <4>1. q - Len(res) \in DOMAIN s
        BY <1>1, <2>4, <3>2
      <4>2. Len(s) = 1
        BY <2>4, <3>2
      <4>3. p - Len(res) = 1 /\ q - Len(res) = 1 /\ p \in Nat /\ q \in Nat
        BY <1>1, <1>3, <2>4, <3>2, <4>1, <4>2
      <4> QED BY <1>1, <4>3
    <3> QED BY <1>1, <3>1, <3>2
  <2> QED BY <2>1, <2>2, <2>3, <2>4
<1> QED BY <1>4 DEF ResponsesInOrder, T

\* Nothing is sent, and the handler issues nothing.
LEMMA LeaveHandler ==
  ASSUME NEW E, NEW h, NEW g, NEW res, ResponsesInOrder(E, res, h), g.at # "issuing"
  PROVE  ResponsesInOrder(E, res, g)
BY DEF ResponsesInOrder

\* The responses of a stream that was left.
LEMMA NoResponses ==
  ASSUME NEW E, NEW h, NEW res, ResponsesInOrder(E, res, h)
  PROVE  ResponsesInOrder(E, <<>>, h)
<1>1. DOMAIN <<>> = {}
  OBVIOUS
<1> QED BY <1>1 DEF ResponsesInOrder

-----------------------------------------------------------------------------
(* The order of the requests.                                              *)

\* A request names leases of jobs.
LEMMA NamedLeases ==
  ASSUME NEW m \in Requests PROVE Named(m) \subseteq Leases
BY DEF Requests, Transitions, Completions, Chunks, Heartbeats, Named, Leases

\* One is served.
LEMMA ServeRequest ==
  ASSUME NEW E, NEW h, NEW res, NEW req \in Seq(Requests), req # <<>>, RequestsInOrder(E, req, res, h)
  PROVE  /\ RequestsInOrder(E, Tail(req), res, h)
         /\ \A i \in DOMAIN Tail(req) : \A l \in Named(Tail(req)[i]) :
              /\ Tail(req)[i].type = "accepted" /\ E[l[1]].phase # "none" /\ l[2] = E[l[1]].lease
              => ~(Head(req).type = "accepted" /\ l \in Named(Head(req)))
<1> DEFINE T == Tail(req)
<1>1. /\ \A i \in DOMAIN T : i + 1 \in DOMAIN req /\ T[i] = req[i + 1] /\ i \in Nat \ {0}
      /\ Head(req) = req[1] /\ 1 \in DOMAIN req
  BY TailAt
<1> HIDE DEF T
<1>2. ASSUME NEW i \in DOMAIN T, NEW l \in Named(T[i])
      PROVE  /\ RequestInOrder(E, T, res, h, i, l)
             /\ T[i].type = "accepted" /\ E[l[1]].phase # "none" /\ l[2] = E[l[1]].lease
                => ~(Head(req).type = "accepted" /\ l \in Named(Head(req)))
  <2>1. RequestInOrder(E, req, res, h, i + 1, l) /\ T[i] = req[i + 1]
    BY <1>1, <1>2 DEF RequestsInOrder
  <2>2. ASSUME T[i].type = "accepted", E[l[1]].phase # "none", l[2] = E[l[1]].lease,
               NEW k \in DOMAIN T, T[k].type = "accepted", l \in Named(T[k])
        PROVE  i = k
    <3>1. i + 1 = k + 1
      BY <1>1, <2>1, <2>2 DEF RequestInOrder
    <3> QED BY <1>1, <3>1
  <2>3. ASSUME T[i].type = "accepted", E[l[1]].phase # "none", l[2] = E[l[1]].lease,
               Head(req).type = "accepted", l \in Named(Head(req))
        PROVE  FALSE
    <3>1. i + 1 = 1
      BY <1>1, <2>1, <2>3 DEF RequestInOrder
    <3> QED BY <1>1, <3>1
  <2> QED BY <2>1, <2>2, <2>3 DEF RequestInOrder
<1> QED BY <1>2 DEF RequestsInOrder, T

\* A response is taken.
LEMMA TakeBeside ==
  ASSUME NEW E, NEW h, NEW req, NEW res \in Seq(Responses), res # <<>>, RequestsInOrder(E, req, res, h)
  PROVE  RequestsInOrder(E, req, Tail(res), h)
<1> DEFINE T == Tail(res)
<1>1. \A i \in DOMAIN T : i + 1 \in DOMAIN res /\ T[i] = res[i + 1]
  BY TailAt
<1> HIDE DEF T
<1>2. ASSUME NEW i \in DOMAIN req, NEW l \in Named(req[i]) PROVE RequestInOrder(E, req, T, h, i, l)
  <2>1. RequestInOrder(E, req, res, h, i, l)
    BY <1>2 DEF RequestsInOrder
  <2> QED BY <1>1, <2>1 DEF RequestInOrder
<1> QED BY <1>2 DEF RequestsInOrder, T

\* Local jobs end, or go on; past the acceptance only when its answer is there.
LEMMA MoveBeside ==
  ASSUME NEW E, NEW F, NEW h, NEW res, NEW req \in Seq(Requests), RequestsInOrder(E, req, res, h),
         \A j \in Jobs : F[j].phase # "none" =>
           /\ E[j].phase # "none" /\ F[j].lease = E[j].lease
           /\ F[j].phase = "awaitingAcceptance" => E[j].phase = "awaitingAcceptance"
           /\ E[j].phase = "awaitingAcceptance" =>
                F[j].phase = "awaitingAcceptance" \/ \E q \in DOMAIN res : Renews(res[q], j)
  PROVE  RequestsInOrder(F, req, res, h)
<1>1. ASSUME NEW i \in DOMAIN req, NEW l \in Named(req[i]) PROVE RequestInOrder(F, req, res, h, i, l)
  <2>1. RequestInOrder(E, req, res, h, i, l)
    BY <1>1 DEF RequestsInOrder
  <2>2. l[1] \in Jobs
    BY <1>1, NamedLeases DEF Leases
  <2>3. CASE F[l[1]].phase = "none"
    BY <2>1, <2>3 DEF RequestInOrder
  <2>4. CASE F[l[1]].phase # "none"
    BY <2>1, <2>2, <2>4 DEF RequestInOrder
  <2> QED BY <2>3, <2>4
<1> QED BY <1>1 DEF RequestsInOrder

\* The Runner takes the assigned job: every earlier request is of an earlier
\* lease.
LEMMA TakeAssignedBeside ==
  ASSUME NEW E, NEW F, NEW h, NEW req \in Seq(Requests), NEW res \in Seq(Responses), res # <<>>,
         RequestsInOrder(E, req, res, h),
         NEW i \in Jobs, Assigns(Head(res), i), F[i].lease = Head(res).lease,
         \A j \in Jobs : j # i => F[j] = E[j]
  PROVE  /\ RequestsInOrder(F, req, Tail(res), h)
         /\ \A k \in DOMAIN req : <<i, F[i].lease>> \notin Named(req[k])
<1>1. Head(res) = res[1] /\ 1 \in DOMAIN res /\ Head(res) \in Responses
  BY TailAt
<1>2. F[i].lease \in Nat
  BY <1>1 DEF Assigns, Responses, Assignments, Answers, Acks
<1>3. RequestsInOrder(E, req, Tail(res), h)
  BY TakeBeside
<1>4. ASSUME NEW k \in DOMAIN req, NEW l \in Named(req[k])
      PROVE  RequestInOrder(F, req, Tail(res), h, k, l) /\ l # <<i, F[i].lease>>
  <2>1. RequestInOrder(E, req, res, h, k, l) /\ RequestInOrder(E, req, Tail(res), h, k, l)
    BY <1>3, <1>4 DEF RequestsInOrder
  <2>2. l[1] \in Jobs /\ l[2] \in Nat
    BY <1>4, NamedLeases DEF Leases
  <2>3. CASE l[1] = i
    <3>1. l[2] < F[i].lease
      BY <1>1, <2>1, <2>3 DEF RequestInOrder
    <3>2. l[2] <= F[i].lease /\ l[2] # F[i].lease
      BY <1>2, <2>2, <3>1
    <3> QED BY <2>1, <2>3, <3>2 DEF RequestInOrder
  <2>4. CASE l[1] # i
    BY <2>1, <2>2, <2>4 DEF RequestInOrder
  <2> QED BY <2>3, <2>4
<1> QED BY <1>4 DEF RequestsInOrder

\* The Runner sends a request about local jobs.
LEMMA SendRequest ==
  ASSUME NEW E, NEW h, NEW res, NEW req \in Seq(Requests), NEW m \in Requests,
         RequestsInOrder(E, req, res, h), ResponsesInOrder(E, res, h),
         \A l \in Named(m) :
           /\ E[l[1]].phase # "none" /\ l[2] = E[l[1]].lease
           /\ m.type = "accepted" =>
                /\ E[l[1]].phase = "awaitingAcceptance"
                /\ \A k \in DOMAIN req : ~(req[k].type = "accepted" /\ l \in Named(req[k]))
                /\ \A q \in DOMAIN res : ~Renews(res[q], l[1])
           /\ m.type = "started" => E[l[1]].phase # "awaitingAcceptance"
  PROVE  RequestsInOrder(E, req \o <<m>>, res, h)
<1> DEFINE T == req \o <<m>>
<1>1. /\ Len(req) \in Nat
      /\ \A i \in DOMAIN T : \/ i \in DOMAIN req /\ T[i] = req[i]
                             \/ T[i] = m /\ i = Len(req) + 1
  BY OneMessage, ConcatAt
<1> HIDE DEF T
<1>2. ASSUME NEW i \in DOMAIN T, NEW l \in Named(T[i]) PROVE RequestInOrder(E, T, res, h, i, l)
  <2>1. l[1] \in Jobs /\ l[2] \in Nat
    BY <1>1, <1>2, NamedLeases DEF Leases
  <2>2. CASE i \in DOMAIN req /\ T[i] = req[i]
    <3>1. RequestInOrder(E, req, res, h, i, l)
      BY <1>2, <2>2 DEF RequestsInOrder
    <3>2. ASSUME T[i].type = "accepted", E[l[1]].phase # "none", l[2] = E[l[1]].lease,
                 NEW k \in DOMAIN T, T[k].type = "accepted", l \in Named(T[k])
          PROVE  i = k
      <4>1. T[k] # m
        BY <1>2, <2>2, <3>2
      <4> QED BY <1>1, <2>2, <3>1, <3>2, <4>1 DEF RequestInOrder
    <3> QED BY <2>2, <3>1, <3>2 DEF RequestInOrder
  <2>3. CASE T[i] = m /\ i = Len(req) + 1
    <3>1. ASSUME NEW q \in DOMAIN res, Assigns(res[q], l[1]) PROVE l[2] < res[q].lease
      BY <1>2, <2>1, <2>3, <3>1 DEF ResponsesInOrder
    <3>2. h.at = "issuing" /\ h.job = l[1] => l[2] < h.lease
      BY <1>2, <2>1, <2>3 DEF ResponsesInOrder
    <3>3. ASSUME m.type = "accepted", NEW k \in DOMAIN T, T[k].type = "accepted", l \in Named(T[k])
          PROVE  i = k
      BY <1>1, <1>2, <2>3, <3>3
    <3> QED BY <1>2, <2>1, <2>3, <3>1, <3>2, <3>3 DEF RequestInOrder
  <2> QED BY <1>1, <2>2, <2>3
<1> QED BY <1>2 DEF RequestsInOrder, T

\* The server sends responses, and the handler issues nothing.
LEMMA SendBeside ==
  ASSUME NEW E, NEW h, NEW g, NEW req, NEW res \in Seq(Responses), NEW s \in Seq(Responses),
         RequestsInOrder(E, req, res, h), g.at # "issuing",
         \A k \in DOMAIN s, i \in DOMAIN req : \A l \in Named(req[i]) :
           /\ Assigns(s[k], l[1]) => l[2] < s[k].lease
           /\ req[i].type = "accepted" /\ E[l[1]].phase # "none" /\ l[2] = E[l[1]].lease
              => ~Renews(s[k], l[1])
  PROVE  RequestsInOrder(E, req, res \o s, g)
<1> DEFINE T == res \o s
<1>1. \A i \in DOMAIN T : \/ i \in DOMAIN res /\ T[i] = res[i]
                          \/ \E k \in DOMAIN s : T[i] = s[k]
  BY ConcatAt
<1> HIDE DEF T
<1>2. ASSUME NEW i \in DOMAIN req, NEW l \in Named(req[i]) PROVE RequestInOrder(E, req, T, g, i, l)
  <2>1. RequestInOrder(E, req, res, h, i, l)
    BY <1>2 DEF RequestsInOrder
  <2>2. \A q \in DOMAIN T : Assigns(T[q], l[1]) => l[2] < T[q].lease
    BY <1>1, <1>2, <2>1 DEF RequestInOrder
  <2>3. req[i].type = "accepted" /\ E[l[1]].phase # "none" /\ l[2] = E[l[1]].lease
        => \A q \in DOMAIN T : ~Renews(T[q], l[1])
    BY <1>1, <1>2, <2>1 DEF RequestInOrder
  <2> QED BY <2>1, <2>2, <2>3 DEF RequestInOrder
<1> QED BY <1>2 DEF RequestsInOrder, T

\* The handler changes to one that issues nothing.
LEMMA LeaveBeside ==
  ASSUME NEW E, NEW h, NEW g, NEW req, NEW res, RequestsInOrder(E, req, res, h), g.at # "issuing"
  PROVE  RequestsInOrder(E, req, res, g)
BY DEF RequestsInOrder, RequestInOrder

\* The handler issues the credential of a lease later than all before.
LEMMA IssueLater ==
  ASSUME NEW E, NEW h, NEW g, NEW req \in Seq(Requests), NEW res, ResponsesInOrder(E, res, h),
         E[g.job].lease < g.lease,
         \A q \in DOMAIN res : Assigns(res[q], g.job) => res[q].lease < g.lease
  PROVE  /\ ResponsesInOrder(E, res, g)
         /\ (/\ RequestsInOrder(E, req, res, h)
             /\ \A i \in DOMAIN req : \A l \in Named(req[i]) : l[1] = g.job => l[2] < g.lease)
            => RequestsInOrder(E, req, res, g)
<1>1. ResponsesInOrder(E, res, g)
  BY DEF ResponsesInOrder
<1>2. ASSUME RequestsInOrder(E, req, res, h),
             \A i \in DOMAIN req : \A l \in Named(req[i]) : l[1] = g.job => l[2] < g.lease
      PROVE  RequestsInOrder(E, req, res, g)
  BY <1>2 DEF RequestsInOrder, RequestInOrder
<1> QED BY <1>1, <1>2

\* The first requests of a session.
LEMMA FirstRequests ==
  ASSUME NEW E, NEW h, NEW req, h.at # "issuing",
         \A i \in DOMAIN req : \A l \in Named(req[i]) :
           /\ E[l[1]].phase # "none" /\ l[2] = E[l[1]].lease /\ l[2] \in Nat
           /\ req[i].type = "accepted" => E[l[1]].phase = "awaitingAcceptance"
           /\ req[i].type = "started" => E[l[1]].phase # "awaitingAcceptance",
         \A i, k \in DOMAIN req : \A l \in Named(req[i]) :
           req[i].type = "accepted" /\ req[k].type = "accepted" /\ l \in Named(req[k]) => i = k
  PROVE  RequestsInOrder(E, req, <<>>, h)
<1>1. DOMAIN <<>> = {}
  OBVIOUS
<1>2. ASSUME NEW i \in DOMAIN req, NEW l \in Named(req[i]) PROVE RequestInOrder(E, req, <<>>, h, i, l)
  BY <1>1, <1>2 DEF RequestInOrder
<1> QED BY <1>2 DEF RequestsInOrder

-----------------------------------------------------------------------------
(* Steps of one Runner's session.                                          *)

\* A step of the store that begins, prints and stores nothing.
LEMMA Unmoved ==
  ASSUME WorkInv, WorkTypeOK', NEW S, NEW v, StoreStep(S, v),
         UNCHANGED <<token, stored, begun, printed>>, ran \subseteq ran',
         \A u \in Runners : executing'[u] \subseteq executing[u],
         v = "succeeded" => \A j \in S : Ended(j) /\ Complete(j)
  PROVE  Quiet /\ AbsentOK' /\ \A j \in Jobs : StoreOK(j)'
<1>1. Grows
  BY DEF StoreStep, Grows
<1>2. ASSUME NEW j \in Jobs PROVE Progress(j) /\ Steady(j)
  <2>1. Ended(j) => Ended(j)'
    BY DEF Ended
  <2>2. StoreOK(j) /\ Len(printed[j]) \in Nat /\ Len(stored[j]) \in Nat
    BY DEF WorkInv, WorkTypeOK
  <2> QED BY <2>1, <2>2 DEF Progress, Steady, StoreOK
<1>3. ASSUME NEW j \in Jobs PROVE StoreOK(j)'
  <2>1. Status(j)' = "succeeded" => Status(j) = "succeeded" \/ (Ended(j) /\ Complete(j))
    BY DEF StoreStep, Q!JobResults
  <2> QED BY <1>1, <1>2, <2>1, KeepStore DEF WorkInv
<1> QED BY <1>1, <1>2, <1>3 DEF Quiet, StoreStep

\* The Runners other than w.
LEMMA Others ==
  ASSUME WorkInv, WorkTypeOK', Quiet, NEW w \in Runners,
         \A u \in Runners \ {w} :
           /\ active'[u] = active[u] /\ executing'[u] = executing[u] /\ results'[u] = results[u]
           /\ requests'[u] = requests[u] /\ responses'[u] = responses[u] /\ handler'[u] = handler[u]
           /\ (u \in attached' <=> u \in attached) /\ (u \in link' <=> u \in link)
  PROVE  \A u \in Runners \ {w} : RunnerOK(u)' /\ MessagesOK(u)'
BY KeepRunner, KeepMessages DEF WorkInv

\* The earlier requests stay true,
LEMMA OldRequests ==
  ASSUME WorkInv, WorkTypeOK', Grows, \A j \in Jobs : Progress(j), NEW w \in Runners,
         NEW m \in Range(requests[w])
  PROVE  RequestOK(w, m)'
<1>1. m \in Requests /\ RequestOK(w, m)
  BY DEF WorkInv, WorkTypeOK, MessagesOK, Range
<1> QED BY <1>1, KeepRequest DEF WorkInv

\* and the earlier responses.
LEMMA OldResponses ==
  ASSUME WorkInv, WorkTypeOK', Quiet, NEW w \in Runners, NEW m \in Range(responses[w]),
         active'[w][m.job] = active[w][m.job]
  PROVE  ResponseOK(w, m)'
<1>1. m \in Responses /\ ResponseOK(w, m)
  BY DEF WorkInv, WorkTypeOK, MessagesOK, Range
<1>2. m.job \in Jobs
  BY <1>1 DEF Responses, Assignments, Answers, Acks
<1> QED BY <1>1, <1>2, KeepResponse DEF WorkInv, Quiet

\* What the handler issues stays unused.
LEMMA OldHandler ==
  ASSUME WorkInv, WorkTypeOK', Quiet, NEW w \in Runners, NEW h, h = handler[w]
  PROVE  HandlerOK(w, h)'
<1>1. h \in Handlers /\ HandlerOK(w, h)
  BY DEF WorkInv, WorkTypeOK, MessagesOK
<1>2. h.at = "issuing" => h.job \in Jobs
  BY <1>1 DEF Handlers
<1> QED BY <1>1, <1>2, KeepHandler DEF WorkInv, Quiet

\* Where nothing is issued, nothing need be said of it.
LEMMA IdleHandler ==
  ASSUME NEW w, NEW h, h.at # "issuing" PROVE HandlerOK(w, h)'
BY DEF HandlerOK

\* A step that leaves the rows and the histories alone.
LEMMA RowsAlone ==
  ASSUME WorkInv, WorkTypeOK', UNCHANGED <<queue, token, stored, history>>,
         \A u \in Runners : executing'[u] \subseteq executing[u]
  PROVE  Quiet /\ AbsentOK' /\ \A j \in Jobs : StoreOK(j)'
<1>1. StoreTypes
  BY DEF WorkInv, WorkTypeOK, StoreTypes
<1>2. StoreStep({}, "none")
  BY <1>1, StoreQuiet DEF queue
<1> QED BY <1>2, Unmoved DEF history

\* The Runner leaves its stream (runSession returns).
LEMMA LeaveMessages ==
  ASSUME WorkInv, WorkTypeOK', Quiet, NEW w \in Runners, LeaveStream(w),
         UNCHANGED <<handler, requests>>,
         \A j \in Jobs : active'[w][j].lease \in {0, active[w][j].lease}
                         /\ (active'[w][j].phase = "awaitingAcceptance" =>
                               active[w][j].phase = "awaitingAcceptance")
  PROVE  MessagesOK(w)'
<1>1. /\ responses'[w] = <<>> /\ w \notin attached' /\ w \notin link'
  BY DEF LeaveStream, WorkInv, WorkTypeOK
<1>2. \A m \in Range(requests'[w]) : RequestOK(w, m)'
  BY OldRequests DEF Quiet
<1>3. \A m \in Range(responses'[w]) : ResponseOK(w, m)'
  BY <1>1 DEF Range
<1>4. \A h \in {handler'[w]} : HandlerOK(w, h)'
  BY OldHandler
<1>5. ResponsesInOrder(active'[w], responses'[w], handler'[w])
  <2>1. ResponsesInOrder(active[w], responses[w], handler[w])
    BY DEF WorkInv, MessagesOK
  <2>2. ResponsesInOrder(active[w], <<>>, handler[w])
    BY <2>1, NoResponses
  <2>3. \A j \in Jobs : active[w][j].lease \in Nat
    BY DEF WorkInv, WorkTypeOK, Entries
  <2>4. handler[w].at = "issuing" => handler[w].lease \in Nat
    BY DEF WorkInv, WorkTypeOK, Handlers
  <2>5. DOMAIN <<>> = {}
    OBVIOUS
  <2>6. ResponsesInOrder(active'[w], <<>>, handler[w])
    BY <2>2, <2>3, <2>4, <2>5, MoveEntries
  <2> QED BY <1>1, <2>6
<1> QED BY <1>1, <1>2, <1>3, <1>4, <1>5 DEF MessagesOK

\* The Runner leaves its stream, whatever notices of lost leases it has.
LEMMA LeaveNotified ==
  ASSUME WorkInv, NEW w \in Runners, LeaveStream(w),
         UNCHANGED <<queue, token, stored, handler, requests, active, executing, results, history>>,
         losses' \in [Runners -> Seq(Jobs)]
  PROVE  WorkInv'
<1>1. WorkTypeOK'
  <2>1. <<>> \in Seq(Responses)
    OBVIOUS
  <2> QED BY <2>1 DEF WorkInv, WorkTypeOK, LeaveStream, queue, history
<1>2. Quiet /\ AbsentOK' /\ \A j \in Jobs : StoreOK(j)'
  BY <1>1, RowsAlone
<1>3. \A u \in Runners \ {w} : RunnerOK(u)' /\ MessagesOK(u)'
  BY <1>1, <1>2, Others DEF LeaveStream, WorkInv, WorkTypeOK
<1>4. RunnerOK(w)'
  BY <1>1, <1>2, KeepRunner DEF WorkInv
<1>5. MessagesOK(w)'
  BY <1>1, <1>2, LeaveMessages
<1> QED BY <1>1, <1>2, <1>3, <1>4, <1>5 DEF WorkInv

\* StreamEnds and Disconnect.
LEMMA LeaveStep ==
  ASSUME WorkInv, NEW w \in Runners, LeaveStream(w),
         UNCHANGED <<queue, token, stored, handler, requests, active, executing, results, losses, history>>
  PROVE  WorkInv'
<1>1. losses' \in [Runners -> Seq(Jobs)]
  BY DEF WorkInv, WorkTypeOK
<1> QED BY <1>1, LeaveNotified

\* The process dies.
LEMMA CrashStep ==
  ASSUME WorkInv, NEW w \in Runners, Crash(w) PROVE WorkInv'
<1>1. /\ LeaveStream(w)
      /\ UNCHANGED <<queue, token, stored, handler, requests, history>>
      /\ active' = [active EXCEPT ![w] = [j \in Jobs |-> NoEntry]]
      /\ executing' = [executing EXCEPT ![w] = {}]
      /\ results' = [results EXCEPT ![w] = <<>>]
      /\ losses' = [losses EXCEPT ![w] = <<>>]
  BY DEF Crash
<1>2. WorkTypeOK'
  <2>1. <<>> \in Seq(Responses) /\ <<>> \in Seq(Reports) /\ <<>> \in Seq(Jobs)
    OBVIOUS
  <2>2. NoEntry \in Entries
    BY DEF NoEntry, Entries, Phases
  <2> QED BY <1>1, <2>1, <2>2 DEF WorkInv, WorkTypeOK, LeaveStream, queue, history
<1>3. /\ \A j \in Jobs : active'[w][j] = NoEntry
      /\ executing'[w] = {} /\ results'[w] = <<>>
  BY <1>1 DEF WorkInv, WorkTypeOK
<1>4. Quiet /\ AbsentOK' /\ \A j \in Jobs : StoreOK(j)'
  BY <1>1, <1>2, RowsAlone DEF WorkInv, WorkTypeOK
<1>5. \A u \in Runners \ {w} : RunnerOK(u)' /\ MessagesOK(u)'
  BY <1>1, <1>2, <1>4, Others DEF LeaveStream, WorkInv, WorkTypeOK
<1>6. RunnerOK(w)'
  <2>1. \A j \in Jobs : EntryOK(w, j, NoEntry)'
    BY DEF EntryOK, NoEntry, AwaitingPhases, Executed
  <2>2. Range(results'[w]) = {}
    BY <1>3 DEF Range
  <2> QED BY <1>3, <2>1, <2>2 DEF RunnerOK
<1>7. MessagesOK(w)'
  BY <1>1, <1>2, <1>4, <1>3, LeaveMessages DEF NoEntry
<1> QED BY <1>2, <1>4, <1>5, <1>6, <1>7 DEF WorkInv

\* The server leaves the stream (Work returns).
LEMMA CloseMessages ==
  ASSUME WorkInv, WorkTypeOK', Quiet, NEW w \in Runners, CloseStream(w),
         UNCHANGED <<responses, link, active>>
  PROVE  MessagesOK(w)'
<1>1. /\ requests'[w] = <<>> /\ handler'[w] = [at |-> "none"] /\ w \notin attached'
  BY DEF CloseStream, WorkInv, WorkTypeOK
<1>2. \A m \in Range(requests'[w]) : RequestOK(w, m)'
  BY <1>1 DEF Range
<1>3. \A m \in Range(responses'[w]) : ResponseOK(w, m)'
  BY OldResponses
<1>4. \A h \in {handler'[w]} : HandlerOK(w, h)'
  BY <1>1, IdleHandler
<1>5. ResponsesInOrder(active'[w], responses'[w], handler'[w])
  BY <1>1, LeaveHandler DEF WorkInv, MessagesOK
<1>6. w \notin link' => responses'[w] = <<>>
  BY DEF WorkInv, MessagesOK
<1> QED BY <1>1, <1>2, <1>3, <1>4, <1>5, <1>6 DEF MessagesOK

\* The types of what the server leaves.
LEMMA CloseTypes ==
  ASSUME WorkInv, NEW w \in Runners, CloseStream(w)
  PROVE  handler' \in [Runners -> Handlers] /\ requests' \in [Runners -> Seq(Requests)]
<1>1. [at |-> "none"] \in Handlers /\ <<>> \in Seq(Requests)
  BY DEF Handlers
<1> QED BY <1>1 DEF CloseStream, WorkInv, WorkTypeOK

\* The server leaves the stream after a step of the store that records no
\* success (OrphanEnds, Refuse, attachSourceCredential).
LEMMA CloseStep ==
  ASSUME WorkInv, NEW w \in Runners, CloseStream(w), NEW S, NEW v, StoreStep(S, v), v # "succeeded",
         UNCHANGED <<token, stored, responses, link, active, executing, results, losses, history>>
  PROVE  WorkInv'
<1>1. WorkTypeOK'
  BY CloseTypes DEF WorkInv, WorkTypeOK, StoreStep, history
<1>2. Quiet /\ AbsentOK' /\ \A j \in Jobs : StoreOK(j)'
  BY <1>1, Unmoved DEF history
<1>3. \A u \in Runners \ {w} : RunnerOK(u)' /\ MessagesOK(u)'
  BY <1>1, <1>2, Others DEF CloseStream, WorkInv, WorkTypeOK
<1>4. RunnerOK(w)'
  BY <1>1, <1>2, KeepRunner DEF WorkInv
<1>5. MessagesOK(w)'
  BY <1>1, <1>2, CloseMessages
<1> QED BY <1>1, <1>2, <1>3, <1>4, <1>5 DEF WorkInv

\* The server leaves a stream the Runner has left.
LEMMA OrphanStep ==
  ASSUME WorkInv, NEW w \in Runners, OrphanEnds(w) PROVE WorkInv'
<1>1. StoreTypes
  BY DEF WorkInv, WorkTypeOK, StoreTypes
<1>2. StoreStep({}, "none")
  BY <1>1, StoreQuiet DEF OrphanEnds, queue
<1> QED BY <1>2, CloseStep DEF OrphanEnds, client

\* The credential of a claimed job cannot be issued.
LEMMA CredentialStep ==
  ASSUME WorkInv, NEW w \in Runners, NEW permanent \in BOOLEAN, CredentialUnavailable(w, permanent)
  PROVE  WorkInv'
<1>1. StoreTypes
  BY DEF WorkInv, WorkTypeOK, StoreTypes
<1>2. PICK h : h = handler[w]
  OBVIOUS
<1>3. h.at = "issuing" /\ h.job \in Jobs
  BY <1>2 DEF CredentialUnavailable, WorkInv, WorkTypeOK, Handlers
<1>4. \/ UNCHANGED queue
      \/ Q!CompleteRunnerJob(w, h.job[1], h.job[2], "failed")
      \/ Q!ReleaseRunnerJob(w, h.job[1], h.job[2])
  BY <1>2 DEF CredentialUnavailable
<1>5. "failed" \in Q!JobResults
  BY DEF Q!JobResults
<1>6. StoreStep({h.job}, "failed") \/ StoreStep({}, "none")
  <2>1. CASE UNCHANGED queue
    BY <1>1, <2>1, StoreQuiet DEF queue
  <2>2. CASE Q!CompleteRunnerJob(w, h.job[1], h.job[2], "failed")
    BY <1>1, <1>3, <1>5, <2>2, StoreComplete
  <2>3. CASE Q!ReleaseRunnerJob(w, h.job[1], h.job[2])
    BY <1>1, <1>3, <2>3, StoreRelease
  <2> QED BY <1>4, <2>1, <2>2, <2>3
<1> QED BY <1>6, CloseStep DEF CredentialUnavailable, client

\* The store's own steps.
LEMMA StoreAlone ==
  ASSUME WorkInv, NEW S, NEW v, StoreStep(S, v), v # "succeeded",
         UNCHANGED <<token, stored, handler, wire, client, begun, ran, printed>>
  PROVE  WorkInv'
<1>1. WorkTypeOK'
  BY DEF WorkInv, WorkTypeOK, StoreStep, wire, client
<1>2. Quiet /\ AbsentOK' /\ \A j \in Jobs : StoreOK(j)'
  BY <1>1, Unmoved DEF client
<1>3. ASSUME NEW w \in Runners PROVE RunnerOK(w)' /\ MessagesOK(w)'
  BY <1>1, <1>2, KeepRunner, KeepMessages DEF WorkInv, wire, client
<1> QED BY <1>1, <1>2, <1>3 DEF WorkInv

\* The same, of the steps that leave the retention of logs alone.
LEMMA StoreOnly ==
  ASSUME WorkInv, NEW S, NEW v, StoreStep(S, v), v # "succeeded", UNCHANGED rest
  PROVE  WorkInv'
BY StoreAlone DEF rest, history

\* The retention of a log ends.
LEMMA ExpiryStep ==
  ASSUME WorkInv, NEW j \in Jobs, LogExpires(j) PROVE WorkInv'
<1>1. StoreStep({}, "none")
  BY StoreQuiet DEF WorkInv, WorkTypeOK, StoreTypes, LogExpires, queue
<1> QED BY <1>1, StoreAlone DEF LogExpires

\* New runs, cancellation, recovery and the clock.
LEMMA StoreSteps ==
  ASSUME WorkInv,
         \/ \E r \in 1..RunLimit, c \in Kinds : Submit(r, c)
         \/ \E r \in 1..RunLimit : Cancel(r) \/ Recover(r)
         \/ \E j \in Jobs : StoreDeadline(j)
  PROVE  WorkInv'
<1>1. StoreTypes
  BY DEF WorkInv, WorkTypeOK, StoreTypes
<1>2. ASSUME NEW r \in 1..RunLimit, NEW c, Submit(r, c) PROVE WorkInv'
  <2>1. StoreStep({}, "none")
    BY <1>1, <1>2, StoreCreate DEF Submit
  <2> QED BY <1>2, <2>1, StoreOnly DEF Submit
<1>3. ASSUME NEW r \in 1..RunLimit, Cancel(r) PROVE WorkInv'
  <2>1. StoreStep(Jobs, "canceled")
    BY <1>1, <1>3, StoreCancel DEF Cancel
  <2> QED BY <1>3, <2>1, StoreOnly DEF Cancel
<1>4. ASSUME NEW r \in 1..RunLimit, Recover(r) PROVE WorkInv'
  <2>1. StoreStep(Jobs, "failed")
    BY <1>1, <1>4, StoreRecover DEF Recover
  <2> QED BY <1>4, <2>1, StoreOnly DEF Recover
<1>5. ASSUME NEW j \in Jobs, StoreDeadline(j) PROVE WorkInv'
  <2>1. StoreStep({}, "none")
    BY <1>1, <1>5, StoreElapse DEF StoreDeadline
  <2> QED BY <1>5, <2>1, StoreOnly DEF StoreDeadline
<1> QED BY <1>2, <1>3, <1>4, <1>5

\* AssignmentExpired leaves the stream and perhaps a notice.
LEMMA ExpiredStep ==
  ASSUME WorkInv, NEW w \in Runners, AssignmentExpired(w) PROVE WorkInv'
<1>1. PICK m : m = Head(responses[w])
  OBVIOUS
<1>2. responses[w] \in Seq(Responses) /\ responses[w] # <<>> /\ m.type = "assignment"
  BY <1>1 DEF AssignmentExpired, WorkInv, WorkTypeOK
<1>3. m \in Responses
  BY <1>1, <1>2
<1>4. m.job \in Jobs
  BY <1>3 DEF Responses, Assignments, Answers, Acks
<1>5. losses' = losses \/ losses' = [losses EXCEPT ![w] = Append(@, m.job)]
  BY <1>1 DEF AssignmentExpired
<1>6. losses' \in [Runners -> Seq(Jobs)]
  <2>1. losses \in [Runners -> Seq(Jobs)]
    BY DEF WorkInv, WorkTypeOK
  <2>2. Append(losses[w], m.job) \in Seq(Jobs)
    BY <1>4, <2>1
  <2> QED BY <1>5, <2>1, <2>2
<1> QED BY <1>6, LeaveNotified DEF AssignmentExpired, Break, history

-----------------------------------------------------------------------------
(* The server's claims.                                                    *)

\* What the server sends arrives while the Runner is on the same stream.
LEMMA RespondIs ==
  ASSUME WorkTypeOK, NEW w \in Runners, NEW s \in Seq(Responses), Respond(w, s)
  PROVE  /\ responses' \in [Runners -> Seq(Responses)]
         /\ \A u \in Runners \ {w} : responses'[u] = responses[u]
         /\ w \in attached => responses'[w] = responses[w] \o s
         /\ w \notin attached => responses'[w] = responses[w]
<1>1. responses[w] \o s \in Seq(Responses)
  BY ConcatAt DEF WorkTypeOK
<1> QED BY <1>1 DEF Respond, WorkTypeOK

\* Leases named in messages and local jobs are not later than the last.
LEMMA LeasesKnown ==
  ASSUME WorkInv, NEW w \in Runners, NEW j \in Jobs
  PROVE  /\ active[w][j].lease <= token[j] /\ active[w][j].lease \in Nat /\ token[j] \in Nat
         /\ \A p \in DOMAIN responses[w] : Assigns(responses[w][p], j) =>
              responses[w][p].lease <= token[j] /\ responses[w][p].lease \in Nat
         /\ \A i \in DOMAIN requests[w] : \A l \in Named(requests[w][i]) :
              l[1] = j => l[2] <= token[j] /\ l[2] \in Nat
<1>1. token[j] \in Nat
  BY DEF WorkInv, WorkTypeOK
<1>2. active[w][j].lease <= token[j] /\ active[w][j].lease \in Nat
  <2>1. PICK e : e = active[w][j]
    OBVIOUS
  <2>2. e \in Entries /\ EntryOK(w, j, e)
    BY <2>1 DEF WorkInv, WorkTypeOK, RunnerOK
  <2>3. CASE e.phase = "none"
    BY <1>1, <2>1, <2>2, <2>3 DEF EntryOK, NoEntry
  <2>4. CASE e.phase # "none"
    BY <1>1, <2>1, <2>2, <2>4 DEF EntryOK, Ours
  <2> QED BY <2>3, <2>4
<1>3. ASSUME NEW p \in DOMAIN responses[w], Assigns(responses[w][p], j)
      PROVE  responses[w][p].lease <= token[j] /\ responses[w][p].lease \in Nat
  <2>1. ResponseOK(w, responses[w][p])
    BY DEF WorkInv, MessagesOK, Range
  <2> QED BY <1>1, <1>3, <2>1 DEF ResponseOK, Unused, Ours, Assigns
<1>4. ASSUME NEW i \in DOMAIN requests[w], NEW l \in Named(requests[w][i]), l[1] = j
      PROVE  l[2] <= token[j] /\ l[2] \in Nat
  <2>1. PICK m : m = requests[w][i]
    OBVIOUS
  <2>2. m \in Requests /\ RequestOK(w, m)
    BY <2>1 DEF WorkInv, WorkTypeOK, MessagesOK, Range
  <2>3. l \in Leases
    BY <1>4, <2>1, <2>2, NamedLeases
  <2>4. CASE m.type = "heartbeat"
    BY <1>1, <1>4, <2>1, <2>2, <2>3, <2>4 DEF RequestOK, Named, Authorized, Leases
  <2>5. CASE m.type # "heartbeat"
    <3>1. l = <<m.job, m.lease>>
      BY <1>4, <2>1, <2>5 DEF Named
    <3>2. m.type \in {"accepted", "started", "completed", "log"}
      BY <2>2, <2>5 DEF Requests, Transitions, Completions, Chunks, Heartbeats
    <3>3. m.job = j /\ l[2] = m.lease
      BY <1>4, <3>1
    <3> QED BY <1>1, <2>2, <2>3, <3>2, <3>3 DEF RequestOK, Authorized, Leases
  <2> QED BY <2>4, <2>5
<1> QED BY <1>1, <1>2, <1>3, <1>4

\* The claim loop ends.
LEMMA StopStep ==
  ASSUME WorkInv, NEW w \in Runners, StopClaiming(w) PROVE WorkInv'
<1>1. [at |-> "idle"] \in Handlers
  BY DEF Handlers
<1>2. WorkTypeOK' /\ handler'[w] = [at |-> "idle"] /\ \A u \in Runners \ {w} : handler'[u] = handler[u]
  BY <1>1 DEF StopClaiming, WorkInv, WorkTypeOK, queue, wire, client, history
<1>3. Quiet /\ AbsentOK' /\ \A j \in Jobs : StoreOK(j)'
  BY <1>2, RowsAlone DEF StopClaiming, client
<1>4. \A u \in Runners \ {w} : RunnerOK(u)' /\ MessagesOK(u)'
  BY <1>2, <1>3, Others DEF StopClaiming, wire, client
<1>5. RunnerOK(w)'
  BY <1>2, <1>3, KeepRunner DEF WorkInv, StopClaiming, client
<1>6. MessagesOK(w)'
  <2>1. UNCHANGED <<active, requests, responses, attached, link>>
    BY DEF StopClaiming, wire, client
  <2>2. \A m \in Range(requests'[w]) : RequestOK(w, m)'
    BY <1>2, <1>3, <2>1, OldRequests DEF Quiet
  <2>3. \A m \in Range(responses'[w]) : ResponseOK(w, m)'
    BY <1>2, <1>3, <2>1, OldResponses
  <2>4. \A h \in {handler'[w]} : HandlerOK(w, h)'
    BY <1>2, IdleHandler
  <2>5. ResponsesInOrder(active'[w], responses'[w], handler'[w])
    BY <1>2, <2>1, LeaveHandler DEF WorkInv, MessagesOK
  <2>6. w \in attached' => RequestsInOrder(active'[w], requests'[w], responses'[w], handler'[w])
    BY <1>2, <2>1, LeaveBeside DEF WorkInv, MessagesOK
  <2>7. w \notin link' => responses'[w] = <<>> /\ w \notin attached'
    BY <2>1 DEF WorkInv, MessagesOK
  <2> QED BY <2>2, <2>3, <2>4, <2>5, <2>6, <2>7 DEF MessagesOK
<1> QED BY <1>2, <1>3, <1>4, <1>5, <1>6 DEF WorkInv

\* An assignment of a lease later than all before is sent to Runner w.
LEMMA AssignMessages ==
  ASSUME WorkInv, WorkTypeOK', Quiet, NEW w \in Runners, NEW j \in Jobs, NEW t \in Nat,
         Respond(w, <<Assign(w, j, t)>>), Unused(w, j, t)',
         UNCHANGED <<active, requests, attached, link>>, handler'[w].at # "issuing",
         active[w][j].lease < t,
         \A p \in DOMAIN responses[w] : Assigns(responses[w][p], j) => responses[w][p].lease < t,
         w \in attached => \A i \in DOMAIN requests[w] : \A l \in Named(requests[w][i]) :
                             l[1] = j => l[2] < t
  PROVE  MessagesOK(w)'
<1>1. PICK m : m = Assign(w, j, t)
  OBVIOUS
<1>2. m \in Responses /\ m.type = "assignment" /\ m.job = j /\ m.lease = t
  BY <1>1 DEF Assign, Responses, Assignments
<1>3. <<m>> \in Seq(Responses) /\ DOMAIN <<m>> = {1} /\ <<m>>[1] = m /\ Range(<<m>>) = {m}
  BY <1>2, OneMessage
<1>4. /\ w \in attached => responses'[w] = responses[w] \o <<m>>
      /\ w \notin attached => responses'[w] = responses[w]
  BY <1>1, <1>3, RespondIs DEF WorkInv
<1>5. responses[w] \in Seq(Responses) /\ requests[w] \in Seq(Requests)
  BY DEF WorkInv, WorkTypeOK
<1>6. ASSUME NEW x \in Range(responses'[w]) PROVE ResponseOK(w, x)'
  <2>1. x \in Range(responses[w]) \/ x = m
    BY <1>3, <1>4, <1>5, <1>6, ConcatRange
  <2>2. ResponseOK(w, m)'
    BY <1>2 DEF ResponseOK
  <2> QED BY <2>1, <2>2, OldResponses
<1>7. \A x \in Range(requests'[w]) : RequestOK(w, x)'
  BY OldRequests DEF Quiet
<1>8. \A h \in {handler'[w]} : HandlerOK(w, h)'
  BY IdleHandler
<1>9. ResponsesInOrder(active[w], responses[w], handler[w])
  BY DEF WorkInv, MessagesOK
<1>10. ResponsesInOrder(active'[w], responses'[w], handler'[w])
  <2>1. ResponsesInOrder(active[w], responses[w] \o <<m>>, handler'[w])
    BY <1>2, <1>5, <1>9, SendAssignment
  <2>2. ResponsesInOrder(active[w], responses[w], handler'[w])
    BY <1>9, LeaveHandler
  <2> QED BY <1>4, <2>1, <2>2
<1>11. w \in attached' => RequestsInOrder(active'[w], requests'[w], responses'[w], handler'[w])
  <2> SUFFICES ASSUME w \in attached
               PROVE  RequestsInOrder(active[w], requests[w], responses[w] \o <<m>>, handler'[w])
    BY <1>4
  <2>1. RequestsInOrder(active[w], requests[w], responses[w], handler[w])
    BY DEF WorkInv, MessagesOK
  <2>2. \A k \in DOMAIN <<m>>, i \in DOMAIN requests[w] : \A l \in Named(requests[w][i]) :
          /\ Assigns(<<m>>[k], l[1]) => l[2] < <<m>>[k].lease
          /\ ~Renews(<<m>>[k], l[1])
    BY <1>2, <1>3 DEF Assigns, Renews
  <2> QED BY <1>3, <1>5, <2>1, <2>2, SendBeside
<1>12. w \notin link' => responses'[w] = <<>> /\ w \notin attached'
  BY <1>4 DEF WorkInv, MessagesOK
<1> QED BY <1>6, <1>7, <1>8, <1>10, <1>11, <1>12 DEF MessagesOK

\* attachSourceCredential: the claimed job is sent.
LEMMA IssueStep ==
  ASSUME WorkInv, NEW w \in Runners, IssueCredential(w) PROVE WorkInv'
<1>1. PICK h : h = handler[w]
  OBVIOUS
<1>2. h.at = "issuing" /\ h.job \in Jobs /\ h.lease \in Nat
  BY <1>1 DEF IssueCredential, WorkInv, WorkTypeOK, Handlers
<1>3. [at |-> "claiming"] \in Handlers /\ <<Assign(w, h.job, h.lease)>> \in Seq(Responses)
  BY <1>2 DEF Handlers, Assign, Responses, Assignments
<1>4. Respond(w, <<Assign(w, h.job, h.lease)>>)
  BY <1>1 DEF IssueCredential
<1>5. /\ handler'[w] = [at |-> "claiming"] /\ handler' \in [Runners -> Handlers]
      /\ \A u \in Runners \ {w} : handler'[u] = handler[u]
  BY <1>3 DEF IssueCredential, WorkInv, WorkTypeOK
<1>6. /\ responses' \in [Runners -> Seq(Responses)]
      /\ \A u \in Runners \ {w} : responses'[u] = responses[u]
  BY <1>3, <1>4, RespondIs DEF WorkInv
<1>7. WorkTypeOK'
  BY <1>5, <1>6 DEF IssueCredential, WorkInv, WorkTypeOK, queue, client, history
<1>8. Quiet /\ AbsentOK' /\ \A j \in Jobs : StoreOK(j)'
  BY <1>7, RowsAlone DEF IssueCredential, client
<1>9. \A u \in Runners \ {w} : RunnerOK(u)' /\ MessagesOK(u)'
  BY <1>5, <1>6, <1>7, <1>8, Others DEF IssueCredential, client
<1>10. RunnerOK(w)'
  BY <1>7, <1>8, KeepRunner DEF WorkInv, IssueCredential, client
<1>11. Unused(w, h.job, h.lease)'
  <2>1. HandlerOK(w, h)'
    BY <1>1, <1>7, <1>8, OldHandler
  <2> QED BY <1>2, <2>1 DEF HandlerOK
<1>12. ResponsesInOrder(active[w], responses[w], h)
  BY <1>1 DEF WorkInv, MessagesOK
<1>13. w \in attached => \A i \in DOMAIN requests[w] : \A l \in Named(requests[w][i]) :
                           l[1] = h.job => l[2] < h.lease
  BY <1>1, <1>2 DEF WorkInv, MessagesOK, RequestsInOrder, RequestInOrder
<1>14. /\ active[w][h.job].lease < h.lease
       /\ \A p \in DOMAIN responses[w] :
            Assigns(responses[w][p], h.job) => responses[w][p].lease < h.lease
  BY <1>2, <1>12 DEF ResponsesInOrder
<1>15. UNCHANGED <<active, requests, attached, link>> /\ handler'[w].at # "issuing"
  BY <1>5 DEF IssueCredential, client
<1>16. MessagesOK(w)'
  BY <1>2, <1>4, <1>7, <1>8, <1>11, <1>13, <1>14, <1>15, AssignMessages
<1> QED BY <1>7, <1>8, <1>9, <1>10, <1>16 DEF WorkInv

\* The handler has claimed a job with source, and asks for its credential.
LEMMA IssuingMessages ==
  ASSUME WorkInv, WorkTypeOK', Quiet, NEW w \in Runners, NEW j \in Jobs, NEW t \in Nat,
         handler'[w] = [at |-> "issuing", job |-> j, lease |-> t], Unused(w, j, t)',
         UNCHANGED <<active, requests, responses, attached, link>>,
         active[w][j].lease < t,
         \A p \in DOMAIN responses[w] : Assigns(responses[w][p], j) => responses[w][p].lease < t,
         \A i \in DOMAIN requests[w] : \A l \in Named(requests[w][i]) : l[1] = j => l[2] < t
  PROVE  MessagesOK(w)'
<1>1. PICK g : g = handler'[w]
  OBVIOUS
<1>2. g.job = j /\ g.lease = t
  BY <1>1
<1>3. \A m \in Range(requests'[w]) : RequestOK(w, m)'
  BY OldRequests DEF Quiet
<1>4. \A m \in Range(responses'[w]) : ResponseOK(w, m)'
  BY OldResponses
<1>5. HandlerOK(w, g)'
  BY <1>2 DEF HandlerOK
<1>6. requests[w] \in Seq(Requests) /\ ResponsesInOrder(active[w], responses[w], handler[w])
  BY DEF WorkInv, WorkTypeOK, MessagesOK
<1>7. /\ ResponsesInOrder(active[w], responses[w], g)
      /\ RequestsInOrder(active[w], requests[w], responses[w], handler[w])
         => RequestsInOrder(active[w], requests[w], responses[w], g)
  BY <1>2, <1>6, IssueLater
<1>8. w \in attached' => RequestsInOrder(active'[w], requests'[w], responses'[w], handler'[w])
  BY <1>1, <1>7 DEF WorkInv, MessagesOK
<1>9. w \notin link' => responses'[w] = <<>> /\ w \notin attached'
  BY DEF WorkInv, MessagesOK
<1>10. ResponsesInOrder(active'[w], responses'[w], handler'[w])
  BY <1>1, <1>7
<1> QED BY <1>1, <1>3, <1>4, <1>5, <1>8, <1>9, <1>10 DEF MessagesOK

\* ClaimRunnerJob in the loop of handleHeartbeat.
LEMMA ClaimStep ==
  ASSUME WorkInv, NEW w \in Runners, Claim(w) PROVE WorkInv'
<1>1. PICK j \in Jobs :
        /\ Q!ClaimRunnerJob(w, j[1], j[2])
        /\ token' = [token EXCEPT ![j] = @ + 1]
        /\ \/ /\ handler' = [handler EXCEPT ![w] = [at |-> "issuing", job |-> j, lease |-> token'[j]]]
              /\ UNCHANGED responses
           \/ Respond(w, <<Assign(w, j, token'[j])>>) /\ UNCHANGED handler
  BY DEF Claim
<1>2. PICK t : t = token[j] + 1
  OBVIOUS
<1>3. /\ t \in Nat /\ token'[j] = t /\ token' \in [Jobs -> Nat]
      /\ \A i \in Jobs : i # j => token'[i] = token[i]
  BY <1>1, <1>2 DEF WorkInv, WorkTypeOK
<1>4. StoreTypes
  BY DEF WorkInv, WorkTypeOK, StoreTypes
<1>5. /\ runStatus' \in [1..RunLimit -> Q!RunStatuses]
      /\ jobStatus' \in [1..RunLimit -> [Keys -> Q!JobStatuses]]
      /\ owner' \in [1..RunLimit -> [Keys -> Runners \cup {NoRunner}]]
      /\ AbsentOK'
      /\ Status(j) = "queued" /\ Status(j)' = "assigned" /\ OwnerOf(j)' = w
      /\ \A i \in Jobs : i # j => Status(i)' = Status(i) /\ OwnerOf(i)' = OwnerOf(i)
  BY <1>1, <1>4, StoreClaim
<1>6. [at |-> "issuing", job |-> j, lease |-> t] \in Handlers /\ <<Assign(w, j, t)>> \in Seq(Responses)
  BY <1>3 DEF Handlers, Assign, Responses, Assignments
<1>7. UNCHANGED <<stored, attached, requests, link, active, executing, results, losses, begun, ran, printed>>
  BY DEF Claim, client, history
<1>8. /\ handler' \in [Runners -> Handlers] /\ responses' \in [Runners -> Seq(Responses)]
      /\ \A u \in Runners \ {w} : handler'[u] = handler[u] /\ responses'[u] = responses[u]
  BY <1>1, <1>3, <1>6, RespondIs, ZenonT(60) DEF WorkInv, WorkTypeOK
<1>9. WorkTypeOK'
  BY <1>3, <1>5, <1>7, <1>8 DEF WorkInv, WorkTypeOK
<1>10. Status(j) \notin Past /\ begun[j] = 0
  <2>1. Status(j) \notin Past
    BY <1>5 DEF Past, Q!JobResults
  <2>2. StoreOK(j) /\ begun[j] \in {0, 1}
    BY DEF WorkInv, WorkTypeOK
  <2> QED BY <2>1, <2>2 DEF StoreOK
<1>11. Grows
  BY <1>2, <1>3, <1>5, <1>10 DEF Grows, WorkInv, WorkTypeOK
<1>12. ASSUME NEW i \in Jobs PROVE Progress(i) /\ Steady(i)
  <2>1. Ended(i) => Ended(i)'
    BY <1>7 DEF Ended
  <2>2. StoreOK(i) /\ Len(printed[i]) \in Nat /\ Len(stored[i]) \in Nat
    BY DEF WorkInv, WorkTypeOK
  <2> QED BY <1>7, <2>1, <2>2 DEF Progress, Steady, StoreOK
<1>13. Quiet
  BY <1>11, <1>12 DEF Quiet
<1>14. ASSUME NEW i \in Jobs PROVE StoreOK(i)'
  <2>1. Status(i)' = "succeeded" => Status(i) = "succeeded"
    BY <1>5
  <2> QED BY <1>7, <1>9, <1>11, <1>12, <2>1, KeepStore DEF WorkInv
<1>15. \A u \in Runners \ {w} : RunnerOK(u)' /\ MessagesOK(u)'
  BY <1>7, <1>8, <1>9, <1>13, Others
<1>16. RunnerOK(w)'
  BY <1>7, <1>9, <1>13, KeepRunner DEF WorkInv
<1>17. Unused(w, j, t)'
  BY <1>2, <1>3, <1>5, <1>7, <1>10 DEF Unused, Ours, WorkInv, WorkTypeOK
<1>18. /\ active[w][j].lease < t
       /\ \A p \in DOMAIN responses[w] : Assigns(responses[w][p], j) => responses[w][p].lease < t
       /\ \A i \in DOMAIN requests[w] : \A l \in Named(requests[w][i]) : l[1] = j => l[2] < t
  BY <1>2, LeasesKnown
<1>19. MessagesOK(w)'
  <2>1. CASE /\ handler' = [handler EXCEPT ![w] = [at |-> "issuing", job |-> j, lease |-> token'[j]]]
             /\ UNCHANGED responses
    <3>1. handler'[w] = [at |-> "issuing", job |-> j, lease |-> t]
      BY <1>3, <2>1 DEF WorkInv, WorkTypeOK
    <3> QED BY <1>3, <1>7, <1>9, <1>13, <1>17, <1>18, <2>1, <3>1, IssuingMessages
  <2>2. CASE Respond(w, <<Assign(w, j, token'[j])>>) /\ UNCHANGED handler
    <3>1. handler'[w].at # "issuing"
      BY <2>2 DEF Claim
    <3> QED BY <1>3, <1>7, <1>9, <1>13, <1>17, <1>18, <2>2, <3>1, AssignMessages
  <2> QED BY <1>1, <2>1, <2>2
<1> QED BY <1>5, <1>9, <1>14, <1>15, <1>16, <1>19 DEF WorkInv

-----------------------------------------------------------------------------
(* The server's handlers.                                                  *)

\* The first request of the stream is served and answered.
LEMMA AnswerMessages ==
  ASSUME WorkInv, WorkTypeOK', Quiet, NEW w \in Runners, NEW s \in Seq(Responses), Respond(w, s),
         requests[w] # <<>>, requests'[w] = Tail(requests[w]),
         UNCHANGED <<active, attached, link>>, handler'[w].at # "issuing",
         \A i \in DOMAIN s : s[i].type # "assignment",
         w \in attached => \A x \in Range(s) : ResponseOK(w, x)',
         w \in attached => \A i \in DOMAIN s, j \in Jobs : Renews(s[i], j) =>
           /\ \A p \in DOMAIN responses[w] : ~Assigns(responses[w][p], j)
           /\ active[w][j].phase = "awaitingAcceptance" =>
                Len(s) = 1 /\ \A p \in DOMAIN responses[w] : ~Renews(responses[w][p], j)
           /\ \A k \in DOMAIN Tail(requests[w]) : \A l \in Named(Tail(requests[w])[k]) :
                ~(/\ l[1] = j /\ l[2] = active[w][j].lease /\ active[w][j].phase # "none"
                  /\ Tail(requests[w])[k].type = "accepted")
  PROVE  MessagesOK(w)'
<1>1. responses[w] \in Seq(Responses) /\ requests[w] \in Seq(Requests)
  BY DEF WorkInv, WorkTypeOK
<1>2. /\ w \in attached => responses'[w] = responses[w] \o s
      /\ w \notin attached => responses'[w] = responses[w]
  BY RespondIs DEF WorkInv
<1>3. ASSUME NEW x \in Range(responses'[w]) PROVE ResponseOK(w, x)'
  <2>1. x \in Range(responses[w]) \/ (w \in attached /\ x \in Range(s))
    BY <1>1, <1>2, <1>3, ConcatRange
  <2> QED BY <2>1, OldResponses
<1>4. ASSUME NEW x \in Range(requests'[w]) PROVE RequestOK(w, x)'
  <2>1. x \in Range(requests[w])
    BY <1>1, <1>4, TailAt
  <2> QED BY <2>1, OldRequests DEF Quiet
<1>5. \A h \in {handler'[w]} : HandlerOK(w, h)'
  BY IdleHandler
<1>6. ResponsesInOrder(active[w], responses[w], handler[w])
  BY DEF WorkInv, MessagesOK
<1>7. ResponsesInOrder(active'[w], responses'[w], handler'[w])
  <2>1. CASE w \in attached
    <3>1. ResponsesInOrder(active[w], responses[w] \o s, handler'[w])
      BY <1>1, <1>6, <2>1, SendAnswers
    <3> QED BY <1>2, <2>1, <3>1
  <2>2. CASE w \notin attached
    BY <1>2, <1>6, <2>2, LeaveHandler
  <2> QED BY <2>1, <2>2
<1>8. w \in attached' => RequestsInOrder(active'[w], requests'[w], responses'[w], handler'[w])
  <2> SUFFICES ASSUME w \in attached
               PROVE  RequestsInOrder(active[w], Tail(requests[w]), responses[w] \o s, handler'[w])
    BY <1>2
  <2>1. RequestsInOrder(active[w], requests[w], responses[w], handler[w])
    BY DEF WorkInv, MessagesOK
  <2>2. PICK T : T = Tail(requests[w])
    OBVIOUS
  <2>3. T \in Seq(Requests)
    BY <1>1, <2>2, TailAt
  <2>4. RequestsInOrder(active[w], T, responses[w], handler[w])
    BY <1>1, <2>1, <2>2, ServeRequest
  <2>5. ASSUME NEW k \in DOMAIN s, NEW i \in DOMAIN T, NEW l \in Named(T[i])
        PROVE  /\ Assigns(s[k], l[1]) => l[2] < s[k].lease
               /\ T[i].type = "accepted" /\ active[w][l[1]].phase # "none" /\ l[2] = active[w][l[1]].lease
                  => ~Renews(s[k], l[1])
    <3>1. l[1] \in Jobs
      BY <2>3, <2>5, NamedLeases DEF Leases
    <3> QED BY <2>2, <2>5, <3>1 DEF Assigns
  <2>6. RequestsInOrder(active[w], T, responses[w] \o s, handler'[w])
    BY <1>1, <2>4, <2>5, SendBeside
  <2> QED BY <2>2, <2>6
<1>9. w \notin link' => responses'[w] = <<>> /\ w \notin attached'
  BY <1>2 DEF WorkInv, MessagesOK
<1> QED BY <1>3, <1>4, <1>5, <1>7, <1>8, <1>9 DEF MessagesOK

\* A request of the current lease: the job is not being assigned, and a local
\* job is under this lease.
LEMMA CurrentRequest ==
  ASSUME WorkInv, NEW w \in Runners, w \in attached, NEW i \in DOMAIN requests[w],
         NEW l \in Named(requests[w][i]), HasLease(w, l[1], l[2])
  PROVE  /\ \A p \in DOMAIN responses[w] : ~Assigns(responses[w][p], l[1])
         /\ active[w][l[1]].phase # "none" => active[w][l[1]].lease = l[2]
<1>1. l \in Leases
  BY NamedLeases DEF WorkInv, WorkTypeOK
<1>2. l[1] \in Jobs /\ l[2] \in Nat /\ token[l[1]] = l[2]
  BY <1>1 DEF Leases, HasLease
<1>3. RequestInOrder(active[w], requests[w], responses[w], handler[w], i, l)
  BY DEF WorkInv, MessagesOK, RequestsInOrder
<1>4. \A p \in DOMAIN responses[w] : ~Assigns(responses[w][p], l[1])
  <2> SUFFICES ASSUME NEW p \in DOMAIN responses[w], Assigns(responses[w][p], l[1]) PROVE FALSE
    OBVIOUS
  <2>1. l[2] < responses[w][p].lease
    BY <1>3 DEF RequestInOrder
  <2>2. responses[w][p].lease <= l[2] /\ responses[w][p].lease \in Nat
    BY <1>2, LeasesKnown
  <2> QED BY <1>2, <2>1, <2>2
<1>5. ASSUME active[w][l[1]].phase # "none" PROVE active[w][l[1]].lease = l[2]
  <2>1. l[2] <= active[w][l[1]].lease
    BY <1>3, <1>5 DEF RequestInOrder
  <2>2. active[w][l[1]].lease <= l[2] /\ active[w][l[1]].lease \in Nat
    BY <1>2, LeasesKnown
  <2> QED BY <1>2, <2>1, <2>2
<1> QED BY <1>4, <1>5

\* A request that is refused ends the stream.
LEMMA RefuseStep ==
  ASSUME WorkInv, NEW w \in Runners, Refuse(w), UNCHANGED <<link, client, faults, history>>
  PROVE  WorkInv'
<1>1. StoreTypes
  BY DEF WorkInv, WorkTypeOK, StoreTypes
<1>2. StoreStep({}, "none")
  BY <1>1, StoreQuiet DEF Refuse, queue
<1> QED BY <1>2, CloseStep DEF Refuse, client

\* Every handler's step is the answer to the first request and a step of the
\* store that changes no log.
LEMMA HandlerStep ==
  ASSUME WorkInv, NEW w \in Runners, NEW S, NEW v, StoreStep(S, v),
         v = "succeeded" => \A j \in S : Ended(j) /\ Complete(j),
         NEW s \in Seq(Responses), Respond(w, s), requests[w] # <<>>,
         requests' = [requests EXCEPT ![w] = Tail(@)],
         handler' \in [Runners -> Handlers], handler'[w].at # "issuing",
         \A u \in Runners \ {w} : handler'[u] = handler[u],
         UNCHANGED <<token, stored, attached, link, client, history>>
  PROVE  /\ WorkTypeOK' /\ Quiet
         /\ MessagesOK(w)' => WorkInv'
<1>1. Tail(requests[w]) \in Seq(Requests)
  BY TailAt DEF WorkInv, WorkTypeOK
<1>2. /\ requests' \in [Runners -> Seq(Requests)]
      /\ \A u \in Runners \ {w} : requests'[u] = requests[u]
  BY <1>1 DEF WorkInv, WorkTypeOK
<1>3. /\ responses' \in [Runners -> Seq(Responses)]
      /\ \A u \in Runners \ {w} : responses'[u] = responses[u]
  BY RespondIs DEF WorkInv
<1>4. WorkTypeOK'
  BY <1>2, <1>3 DEF StoreStep, WorkInv, WorkTypeOK, client, history
<1>5. Quiet /\ AbsentOK' /\ \A j \in Jobs : StoreOK(j)'
  BY <1>4, Unmoved DEF client, history
<1>6. \A u \in Runners \ {w} : RunnerOK(u)' /\ MessagesOK(u)'
  BY <1>2, <1>3, <1>4, <1>5, Others DEF client
<1>7. RunnerOK(w)'
  BY <1>4, <1>5, KeepRunner DEF WorkInv, client
<1> QED BY <1>4, <1>5, <1>6, <1>7 DEF WorkInv

\* The request at the head of the stream.
LEMMA FirstRequest ==
  ASSUME WorkInv, NEW w \in Runners, requests[w] # <<>>, NEW m, m = Head(requests[w])
  PROVE  /\ requests[w] \in Seq(Requests) /\ 1 \in DOMAIN requests[w] /\ requests[w][1] = m
         /\ m \in Requests /\ RequestOK(w, m)
<1>1. requests[w] \in Seq(Requests)
  BY DEF WorkInv, WorkTypeOK
<1>2. 1 \in DOMAIN requests[w] /\ requests[w][1] = m /\ m \in Range(requests[w])
  BY <1>1, TailAt
<1> QED BY <1>1, <1>2 DEF WorkInv, MessagesOK

\* An accepted receipt or start is answered by a renewal: a local job that
\* waits for its start has it, and no other renewal answers an acceptance.
LEMMA TransitionStep ==
  ASSUME WorkInv, NEW w \in Runners, requests[w] # <<>>, handler[w].at = "idle",
         NEW m, m = Head(requests[w]), m.type \in {"accepted", "started"}, HasLease(w, m.job, m.lease),
         StoreStep({}, "none"), Respond(w, <<[type |-> "renewed", job |-> m.job]>>), Handled(w),
         m.type = "started" => Authorized(w, m.job, m.lease)',
         UNCHANGED <<stored, link, client, history>>
  PROVE  WorkInv'
<1>1. /\ requests[w] \in Seq(Requests) /\ 1 \in DOMAIN requests[w] /\ requests[w][1] = m
      /\ m \in Requests
  BY FirstRequest
<1>2. m.job \in Jobs /\ m.lease \in Nat /\ Named(m) = {<<m.job, m.lease>>}
  BY <1>1 DEF Requests, Transitions, Completions, Chunks, Heartbeats, Named
<1>3. PICK a : a = [type |-> "renewed", job |-> m.job]
  OBVIOUS
<1>4. a \in Responses /\ a.type = "renewed" /\ a.job = m.job
  BY <1>2, <1>3 DEF Responses, Answers
<1>5. PICK s : s = <<a>>
  OBVIOUS
<1>6. s \in Seq(Responses) /\ DOMAIN s = {1} /\ s[1] = a /\ Range(s) = {a} /\ Len(s) = 1
  BY <1>4, <1>5, OneMessage
<1>7. /\ Respond(w, s) /\ requests' = [requests EXCEPT ![w] = Tail(@)]
      /\ UNCHANGED <<token, handler, attached>>
  BY <1>3, <1>5 DEF Handled
<1>8. WorkTypeOK' /\ Quiet /\ (MessagesOK(w)' => WorkInv')
  <2>1. handler' \in [Runners -> Handlers] /\ handler'[w].at # "issuing"
    BY <1>7 DEF WorkInv, WorkTypeOK
  <2> QED BY <1>6, <1>7, <2>1, HandlerStep
<1>9. requests'[w] = Tail(requests[w])
  BY <1>7 DEF WorkInv, WorkTypeOK
<1>10. ASSUME w \in attached
       PROVE  /\ \A p \in DOMAIN responses[w] : ~Assigns(responses[w][p], m.job)
              /\ active[w][m.job].phase # "none" =>
                   /\ active[w][m.job].lease = m.lease
                   /\ m.type = "accepted" =>
                        /\ active[w][m.job].phase = "awaitingAcceptance"
                        /\ \A p \in DOMAIN responses[w] : ~Renews(responses[w][p], m.job)
                   /\ m.type = "started" => active[w][m.job].phase # "awaitingAcceptance"
  <2>1. PICK l : l = <<m.job, m.lease>>
    OBVIOUS
  <2>2. l \in Named(requests[w][1]) /\ l[1] = m.job /\ l[2] = m.lease
    BY <1>1, <1>2, <2>1
  <2>3. RequestInOrder(active[w], requests[w], responses[w], handler[w], 1, l)
    BY <1>1, <1>10, <2>2 DEF WorkInv, MessagesOK, RequestsInOrder
  <2>4. /\ \A p \in DOMAIN responses[w] : ~Assigns(responses[w][p], l[1])
        /\ active[w][l[1]].phase # "none" => active[w][l[1]].lease = l[2]
    BY <1>1, <1>10, <2>2, CurrentRequest
  <2> QED BY <1>1, <2>2, <2>3, <2>4 DEF RequestInOrder
<1>11. w \in attached => ResponseOK(w, a)'
  <2> SUFFICES ASSUME w \in attached, active[w][m.job].phase = "awaitingStart"
               PROVE  Authorized(w, m.job, active[w][m.job].lease)'
    BY <1>4 DEF ResponseOK, client
  <2>1. m.type = "started" /\ active[w][m.job].lease = m.lease
    BY <1>10
  <2> QED BY <2>1 DEF client, Authorized
<1>12. ASSUME w \in attached, active[w][m.job].phase # "none",
              NEW k \in DOMAIN Tail(requests[w]), NEW l \in Named(Tail(requests[w])[k]),
              l[1] = m.job, l[2] = active[w][m.job].lease, Tail(requests[w])[k].type = "accepted"
       PROVE  FALSE
  <2>1. RequestsInOrder(active[w], requests[w], responses[w], handler[w])
    BY <1>12 DEF WorkInv, MessagesOK
  <2>2. /\ RequestInOrder(active[w], Tail(requests[w]), responses[w], handler[w], k, l)
        /\ ~(m.type = "accepted" /\ l \in Named(m))
    BY <1>1, <1>12, <2>1, ServeRequest DEF RequestsInOrder
  <2>3. active[w][m.job].phase = "awaitingAcceptance"
    BY <1>12, <2>2 DEF RequestInOrder
  <2>4. l \in Leases
    <3>1. Tail(requests[w]) \in Seq(Requests)
      BY <1>1, TailAt
    <3> QED BY <1>12, <3>1, NamedLeases
  <2>5. l = <<m.job, m.lease>>
    BY <1>10, <1>12, <2>4 DEF Leases
  <2> QED BY <1>2, <1>10, <1>12, <2>2, <2>3, <2>5
<1>13. ASSUME w \in attached, NEW i \in DOMAIN s, NEW j \in Jobs, Renews(s[i], j)
       PROVE  /\ \A p \in DOMAIN responses[w] : ~Assigns(responses[w][p], j)
              /\ active[w][j].phase = "awaitingAcceptance" =>
                   Len(s) = 1 /\ \A p \in DOMAIN responses[w] : ~Renews(responses[w][p], j)
              /\ \A k \in DOMAIN Tail(requests[w]) : \A l \in Named(Tail(requests[w])[k]) :
                   ~(/\ l[1] = j /\ l[2] = active[w][j].lease /\ active[w][j].phase # "none"
                     /\ Tail(requests[w])[k].type = "accepted")
  <2>1. j = m.job
    BY <1>4, <1>6, <1>13 DEF Renews
  <2> QED BY <1>6, <1>10, <1>12, <1>13, <2>1
<1>14. \A i \in DOMAIN s : s[i].type # "assignment"
  BY <1>4, <1>6
<1>15. w \in attached => \A x \in Range(s) : ResponseOK(w, x)'
  BY <1>6, <1>11
<1>16. UNCHANGED <<active, attached, link>> /\ handler'[w].at # "issuing"
  BY <1>7 DEF client
<1>17. MessagesOK(w)'
  BY <1>6, <1>7, <1>8, <1>9, <1>13, <1>14, <1>15, <1>16, AnswerMessages
<1> QED BY <1>8, <1>17

\* handleReceipt and the start.
LEMMA HandleTransition ==
  ASSUME WorkInv, NEW w \in Runners, requests[w] # <<>>, handler[w].at = "idle",
         NEW m, m = Head(requests[w]),
         \/ m.type = "accepted" /\ HandleAccepted(w, m)
         \/ m.type = "started" /\ HandleStarted(w, m),
         UNCHANGED <<link, client, faults, history>>
  PROVE  WorkInv'
<1>1. m \in Requests
  BY FirstRequest
<1>2. m.job \in Jobs
  BY <1>1 DEF Requests, Transitions, Completions, Chunks, Heartbeats
<1>3. StoreTypes
  BY DEF WorkInv, WorkTypeOK, StoreTypes
<1>4. CASE Refuse(w)
  BY <1>4, RefuseStep
<1>5. CASE m.type = "accepted" /\ ~Refuse(w)
  <2>1. /\ HasLease(w, m.job, m.lease) /\ Q!AcknowledgeRunnerJob(w, m.job[1], m.job[2])
        /\ Respond(w, <<[type |-> "renewed", job |-> m.job]>>) /\ Handled(w) /\ UNCHANGED stored
    BY <1>5 DEF HandleAccepted
  <2>2. StoreStep({}, "none")
    BY <1>3, <2>1, StoreAcknowledge
  <2> QED BY <1>5, <2>1, <2>2, TransitionStep
<1>6. CASE m.type = "started" /\ ~Refuse(w)
  <2>1. /\ HasLease(w, m.job, m.lease) /\ Q!StartRunnerJob(w, m.job[1], m.job[2])
        /\ Respond(w, <<[type |-> "renewed", job |-> m.job]>>) /\ Handled(w) /\ UNCHANGED stored
    BY <1>6 DEF HandleStarted
  <2>2. StoreStep({}, "none") /\ Status(m.job)' = "running" /\ OwnerOf(m.job)' = w
    BY <1>2, <1>3, <2>1, StoreStart
  <2>3. Authorized(w, m.job, m.lease)'
    BY <2>1, <2>2 DEF Authorized, HasLease, Handled, Past
  <2> QED BY <1>6, <2>1, <2>2, <2>3, TransitionStep
<1> QED BY <1>4, <1>5, <1>6

\* CompleteRunnerJob: a success is reported of an execution that is over and
\* whose log is stored.
LEMMA CompletionStep ==
  ASSUME WorkInv, NEW w \in Runners, requests[w] # <<>>, handler[w].at = "idle",
         NEW m, m = Head(requests[w]), m.type = "completed", HandleCompletion(w, m),
         UNCHANGED <<link, client, faults, history>>
  PROVE  WorkInv'
<1>1. m \in Requests /\ RequestOK(w, m)
  BY FirstRequest
<1>2. m.job \in Jobs /\ m.verdict \in Q!JobResults
  BY <1>1 DEF Requests, Transitions, Completions, Chunks, Heartbeats
<1>3. StoreTypes
  BY DEF WorkInv, WorkTypeOK, StoreTypes
<1>4. CASE Refuse(w)
  BY <1>4, RefuseStep
<1>5. CASE ~Refuse(w)
  <2>1. /\ Q!CompleteRunnerJob(w, m.job[1], m.job[2], m.verdict)
        /\ requests' = [requests EXCEPT ![w] = Tail(@)]
        /\ UNCHANGED <<token, stored, handler, attached, responses>>
    BY <1>5 DEF HandleCompletion, Handled
  <2>2. StoreStep({m.job}, m.verdict)
    BY <1>2, <1>3, <2>1, StoreComplete
  <2>3. m.verdict = "succeeded" => \A j \in {m.job} : Ended(j) /\ Complete(j)
    BY <1>1 DEF RequestOK
  <2>4. <<>> \in Seq(Responses) /\ DOMAIN <<>> = {} /\ Range(<<>>) = {}
    BY DEF Range
  <2>5. Respond(w, <<>>)
    <3>1. responses[w] \o <<>> = responses[w] /\ responses \in [Runners -> Seq(Responses)]
      BY DEF WorkInv, WorkTypeOK
    <3>2. [responses EXCEPT ![w] = @ \o <<>>] = responses
      BY <3>1
    <3> QED BY <2>1, <3>2 DEF Respond
  <2>6. WorkTypeOK' /\ Quiet /\ (MessagesOK(w)' => WorkInv')
    <3>1. handler' \in [Runners -> Handlers] /\ handler'[w].at # "issuing"
      BY <2>1 DEF WorkInv, WorkTypeOK
    <3> QED BY <2>1, <2>2, <2>3, <2>4, <2>5, <3>1, HandlerStep
  <2>7. requests'[w] = Tail(requests[w]) /\ UNCHANGED <<active, attached, link>> /\ handler'[w].at # "issuing"
    BY <2>1 DEF WorkInv, WorkTypeOK, client
  <2>8. MessagesOK(w)'
    BY <2>4, <2>5, <2>6, <2>7, AnswerMessages
  <2> QED BY <2>6, <2>8
<1> QED BY <1>4, <1>5

\* AppendLogChunk keeps the rows and holds the chunk at its place.
LEMMA AppendedRows ==
  ASSUME NEW rows \in Seq(Rows), NEW m \in Chunks, m.seq # 0, AppendLogChunk(rows, m) # <<>>
  PROVE  LET s == AppendLogChunk(rows, m)
         IN  /\ s \in Seq(Rows) /\ m.seq \in 1..Len(s)
             /\ \/ s = rows
                \/ /\ Len(s) = Len(rows) + 1 /\ m.seq = Len(s) /\ s[Len(s)] = Row(m)
                   /\ \A i \in 1..Len(rows) : s[i] = rows[i]
<1>1. PICK row : row = Row(m)
  OBVIOUS
<1>2. row \in Rows /\ m.seq \in Nat \ {0}
  BY <1>1 DEF Rows, Row, Chunks
<1>3. PICK s : s = AppendLogChunk(rows, m)
  OBVIOUS
<1>4. \/ s = rows /\ m.seq <= Len(rows)
      \/ s = Append(rows, row) /\ m.seq = Len(rows) + 1
  BY <1>1, <1>3 DEF AppendLogChunk, Appendable
<1>5. CASE s = rows /\ m.seq <= Len(rows)
  BY <1>2, <1>3, <1>5
<1>6. CASE s = Append(rows, row) /\ m.seq = Len(rows) + 1
  <2>1. s \in Seq(Rows) /\ Len(s) = Len(rows) + 1 /\ s[Len(rows) + 1] = row
        /\ \A i \in 1..Len(rows) : s[i] = rows[i]
    BY <1>2, <1>6
  <2> QED BY <1>1, <1>2, <1>3, <1>6, <2>1
<1> QED BY <1>4, <1>5, <1>6

\* handleLog: the chunk of a job that runs under this lease is stored once.
LEMMA LogStep ==
  ASSUME WorkInv, NEW w \in Runners, requests[w] # <<>>, handler[w].at = "idle",
         NEW m, m = Head(requests[w]), m.type = "log", HandleLog(w, m),
         UNCHANGED <<link, client, faults, history>>
  PROVE  WorkInv'
<1>1. m \in Requests /\ RequestOK(w, m) /\ requests[w] \in Seq(Requests)
  BY FirstRequest
<1>2. m \in Chunks /\ m.job \in Jobs /\ m.lease \in Nat /\ m.seq \in Nat
  BY <1>1 DEF Requests, Transitions, Completions, Chunks, Heartbeats
<1>3. CASE Refuse(w)
  BY <1>3, RefuseStep
<1>4. CASE ~Refuse(w)
  <2>1. PICK j : j = m.job
    OBVIOUS
  <2>2. PICK rows : rows = AppendLogChunk(stored[j], m)
    OBVIOUS
  <2>3. /\ token[j] = m.lease /\ Status(j) = "running" /\ rows # <<>>
        /\ stored' = [stored EXCEPT ![j] = rows]
        /\ Respond(w, <<[type |-> "logAck", job |-> j, seq |-> m.seq]>>)
        /\ requests' = [requests EXCEPT ![w] = Tail(@)]
        /\ UNCHANGED <<queue, token, handler, attached>>
    BY <1>4, <2>1, <2>2 DEF HandleLog, HasLease, Handled
  <2>4. j \in Jobs /\ begun[j] = 1 /\ m.seq \in 1..Len(printed[j])
    BY <1>1, <1>2, <2>1 DEF RequestOK
  <2>5. stored[j] \in Seq(Rows) /\ Len(printed[j]) \in Nat
    BY <2>4 DEF WorkInv, WorkTypeOK
  <2>6. /\ rows \in Seq(Rows) /\ m.seq \in 1..Len(rows)
        /\ \/ rows = stored[j]
           \/ /\ Len(rows) = Len(stored[j]) + 1 /\ m.seq = Len(rows)
              /\ rows[Len(rows)] = Row(m)
              /\ \A i \in 1..Len(stored[j]) : rows[i] = stored[j][i]
    <3>1. AppendLogChunk(stored[j], m) # <<>> /\ m.seq # 0
      BY <2>2, <2>3, <2>4, <2>5
    <3> QED BY <1>2, <2>2, <2>5, <3>1, AppendedRows
  <2>7. /\ stored'[j] = rows /\ stored' \in [Jobs -> Seq(Rows)]
        /\ \A i \in Jobs : i # j => stored'[i] = stored[i]
    BY <2>3, <2>4, <2>6 DEF WorkInv, WorkTypeOK
  <2>8. PICK a : a = [type |-> "logAck", job |-> j, seq |-> m.seq]
    OBVIOUS
  <2>9. a \in Responses /\ a.type = "logAck" /\ a.job = j /\ a.seq = m.seq
    BY <1>2, <2>4, <2>8 DEF Responses, Acks
  <2>10. PICK s : s = <<a>>
    OBVIOUS
  <2>11. s \in Seq(Responses) /\ DOMAIN s = {1} /\ s[1] = a /\ Range(s) = {a} /\ Respond(w, s)
    BY <2>3, <2>8, <2>9, <2>10, OneMessage
  <2>12. /\ requests' \in [Runners -> Seq(Requests)] /\ requests'[w] = Tail(requests[w])
         /\ \A u \in Runners \ {w} : requests'[u] = requests[u]
    <3>1. Tail(requests[w]) \in Seq(Requests)
      BY <1>1, TailAt
    <3> QED BY <2>3, <3>1 DEF WorkInv, WorkTypeOK
  <2>13. /\ responses' \in [Runners -> Seq(Responses)]
         /\ \A u \in Runners \ {w} : responses'[u] = responses[u]
    BY <2>11, RespondIs DEF WorkInv
  <2>14. WorkTypeOK'
    BY <2>3, <2>7, <2>12, <2>13 DEF WorkInv, WorkTypeOK, queue, client, history
  <2>15. Grows
    BY <2>3 DEF Grows, Status, OwnerOf, queue
  <2>16. ASSUME NEW i \in Jobs PROVE Progress(i) /\ Steady(i)
    <3>1. Ended(i) => Ended(i)'
      BY DEF Ended, client, history
    <3>2. StoreOK(i) /\ Len(printed[i]) \in Nat /\ Len(stored[i]) \in Nat
      BY DEF WorkInv, WorkTypeOK
    <3>3. Len(stored[i]) <= Len(stored'[i]) /\ Len(stored'[i]) <= Len(printed[i])
      <4>1. CASE i # j
        BY <2>7, <3>2, <4>1 DEF StoreOK
      <4>2. CASE i = j
        BY <2>4, <2>6, <2>7, <3>2, <4>2 DEF StoreOK
      <4> QED BY <4>1, <4>2
    <3> QED BY <3>1, <3>2, <3>3 DEF Progress, Steady, history
  <2>17. Quiet
    BY <2>15, <2>16 DEF Quiet
  <2>18. ASSUME NEW i \in Jobs PROVE StoreOK(i)'
    <3>1. StoreOK(i) /\ Status(i)' = Status(i)
      BY <2>3 DEF WorkInv, Status, queue
    <3>2. CASE i # j
      BY <2>7, <2>14, <2>15, <2>16, <3>1, <3>2, KeepStore DEF WorkInv
    <3>3. CASE i = j
      <4>1. \A n \in DOMAIN rows : rows[n].lease = token[j] /\ rows[n].seq = n
        <5>1. \A n \in 1..Len(stored[j]) : stored[j][n].lease = token[j] /\ stored[j][n].seq = n
          BY <2>5, <3>1, <3>3 DEF StoreOK
        <5>2. Len(stored[j]) \in Nat /\ Len(rows) \in Nat /\ DOMAIN rows = 1..Len(rows)
          BY <2>5, <2>6
        <5>3. CASE rows = stored[j]
          BY <5>1, <5>2, <5>3
        <5>4. CASE /\ Len(rows) = Len(stored[j]) + 1 /\ m.seq = Len(rows)
                   /\ rows[Len(rows)] = Row(m)
                   /\ \A i1 \in 1..Len(stored[j]) : rows[i1] = stored[j][i1]
          <6>1. \A n \in 1..Len(rows) : n \in 1..Len(stored[j]) \/ n = Len(rows)
            BY <5>2, <5>4
          <6>2. Row(m).lease = m.lease /\ Row(m).seq = m.seq
            BY DEF Row
          <6> QED BY <2>3, <5>1, <5>2, <5>4, <6>1, <6>2
        <5> QED BY <2>6, <5>3, <5>4
      <4>2. /\ begun'[j] = begun[j] /\ Len(printed'[j]) = Len(printed[j]) /\ token'[j] = token[j]
            /\ Len(stored'[j]) <= Len(printed'[j])
        BY <2>3, <2>16, <3>3 DEF Steady, Progress
      <4> QED BY <2>3, <2>7, <3>1, <3>3, <4>1, <4>2 DEF StoreOK
    <3> QED BY <3>2, <3>3
  <2>19. AbsentOK'
    BY <2>3 DEF WorkInv, AbsentOK, queue
  <2>20. \A u \in Runners \ {w} : RunnerOK(u)' /\ MessagesOK(u)'
    BY <2>3, <2>12, <2>13, <2>14, <2>17, Others DEF client
  <2>21. RunnerOK(w)'
    BY <2>14, <2>17, KeepRunner DEF WorkInv, client
  <2>22. ResponseOK(w, a)'
    BY <2>6, <2>7, <2>9 DEF ResponseOK
  <2>23. UNCHANGED <<active, attached, link>> /\ handler'[w].at # "issuing"
    BY <2>3 DEF client
  <2>24. \A i \in DOMAIN s : s[i].type # "assignment" /\ \A n \in Jobs : ~Renews(s[i], n)
    BY <2>9, <2>11 DEF Renews
  <2>25. MessagesOK(w)'
    BY <2>11, <2>12, <2>14, <2>17, <2>22, <2>23, <2>24, AnswerMessages
  <2> QED BY <2>14, <2>18, <2>19, <2>20, <2>21, <2>25 DEF WorkInv
<1> QED BY <1>3, <1>4

\* A job of which an execution was begun under its current lease does not wait.
LEMMA BegunIsPast ==
  ASSUME WorkInv, NEW w \in Runners, NEW j \in Jobs, begun[j] = 1,
         active[w][j].phase # "none" => active[w][j].lease = token[j]
  PROVE  active[w][j].phase \notin AwaitingPhases
<1>1. PICK e : e = active[w][j]
  OBVIOUS
<1>2. EntryOK(w, j, e)
  BY <1>1 DEF WorkInv, RunnerOK
<1> QED BY <1>1, <1>2 DEF EntryOK, Unused, AwaitingPhases

\* RenewRunnerLeases and the answers to the leases that are listed: a renewal
\* is of an execution, never of a job that still waits.
LEMMA HeartbeatStep ==
  ASSUME WorkInv, NEW w \in Runners, requests[w] # <<>>, handler[w].at = "idle",
         NEW m, m = Head(requests[w]), m.type = "heartbeat", HandleHeartbeat(w, m),
         UNCHANGED <<link, client, faults, history>>
  PROVE  WorkInv'
<1>1. /\ m \in Requests /\ RequestOK(w, m) /\ requests[w] \in Seq(Requests)
      /\ 1 \in DOMAIN requests[w] /\ requests[w][1] = m
  BY FirstRequest
<1>2. m.leases \subseteq Leases /\ IsFiniteSet(m.leases) /\ Named(m) = m.leases
  BY <1>1 DEF Requests, Transitions, Completions, Chunks, Heartbeats, Named
<1> DEFINE good == {l \in m.leases : HasLease(w, l[1], l[2])}
           Answer(l) == [type |-> IF l \in good THEN "renewed" ELSE "cancel", job |-> l[1]]
<1>3. /\ Q!RenewRunnerLeases(w, {l[1] : l \in good}, Announced(w))
      /\ \E o \in Orders(m.leases) : Respond(w, [i \in DOMAIN o |-> Answer(o[i])])
      /\ requests' = [requests EXCEPT ![w] = Tail(@)]
      /\ handler' = [handler EXCEPT ![w] = [at |-> "claiming"]]
      /\ UNCHANGED <<token, stored, attached>>
  BY DEF HandleHeartbeat
<1>4. PICK o \in Orders(m.leases) : Respond(w, [i \in DOMAIN o |-> Answer(o[i])])
  BY <1>3
<1>5. o \in [1..Cardinality(m.leases) -> m.leases] /\ Cardinality(m.leases) \in Nat
  BY <1>2, FS_CardinalityType DEF Orders
<1>6. PICK s : s = [i \in DOMAIN o |-> Answer(o[i])]
  OBVIOUS
<1>7. \A l \in m.leases : Answer(l) \in Responses
  BY <1>2 DEF Responses, Answers, Leases
<1>8. s \in Seq(Responses) /\ \A i \in DOMAIN s : o[i] \in m.leases /\ s[i] = Answer(o[i])
  <2>1. s \in [1..Cardinality(m.leases) -> Responses]
    BY <1>5, <1>6, <1>7
  <2>2. s \in Seq(Responses)
    BY <1>5, <2>1
  <2>3. \A i \in DOMAIN s : i \in DOMAIN o /\ s[i] = Answer(o[i])
    BY <1>6
  <2> QED BY <1>5, <2>2, <2>3
<1>9. StoreStep({}, "none")
  <2>1. StoreTypes
    BY DEF WorkInv, WorkTypeOK, StoreTypes
  <2> QED BY <1>3, <2>1, StoreRenew
<1>10. Respond(w, s)
  BY <1>4, <1>6
<1>11. /\ handler' \in [Runners -> Handlers] /\ handler'[w].at # "issuing"
       /\ \A u \in Runners \ {w} : handler'[u] = handler[u]
       /\ requests'[w] = Tail(requests[w])
  <2>1. [at |-> "claiming"] \in Handlers
    BY DEF Handlers
  <2> QED BY <1>3, <2>1 DEF WorkInv, WorkTypeOK
<1>12. WorkTypeOK' /\ Quiet /\ (MessagesOK(w)' => WorkInv')
  BY <1>3, <1>8, <1>9, <1>10, <1>11, HandlerStep
<1>13. \A i \in DOMAIN s : s[i].type \in {"renewed", "cancel"} /\ s[i].job = o[i][1]
                           /\ (s[i].type = "renewed" => HasLease(w, o[i][1], o[i][2]))
  BY <1>8
<1> HIDE DEF good, Answer
<1>14. ASSUME w \in attached, NEW i \in DOMAIN s, s[i].type = "renewed"
       PROVE  /\ \A p \in DOMAIN responses[w] : ~Assigns(responses[w][p], s[i].job)
              /\ active[w][s[i].job].phase \notin AwaitingPhases
              /\ s[i].job \in Jobs
  <2>1. PICK l \in m.leases : l = o[i] /\ HasLease(w, l[1], l[2]) /\ s[i].job = l[1]
    BY <1>8, <1>13, <1>14
  <2>2. l[1] \in Jobs /\ begun[l[1]] = 1 /\ l[2] = token[l[1]]
    BY <1>1, <1>2, <2>1 DEF RequestOK, HasLease, Leases
  <2>3. /\ \A p \in DOMAIN responses[w] : ~Assigns(responses[w][p], l[1])
        /\ active[w][l[1]].phase # "none" => active[w][l[1]].lease = l[2]
    BY <1>1, <1>2, <1>14, <2>1, CurrentRequest
  <2>4. active[w][l[1]].phase \notin AwaitingPhases
    BY <2>2, <2>3, BegunIsPast
  <2> QED BY <2>1, <2>2, <2>3, <2>4
<1>15. UNCHANGED <<active, attached, link>>
  BY <1>3 DEF client
<1>16. ASSUME w \in attached, NEW x \in Range(s) PROVE ResponseOK(w, x)'
  <2>1. PICK i \in DOMAIN s : x = s[i]
    BY <1>16 DEF Range
  <2>2. CASE x.type = "renewed"
    BY <1>14, <1>15, <1>16, <2>1, <2>2 DEF ResponseOK, AwaitingPhases
  <2>3. CASE x.type = "cancel"
    BY <2>3 DEF ResponseOK
  <2> QED BY <1>13, <2>1, <2>2, <2>3
<1>17. ASSUME w \in attached, NEW i \in DOMAIN s, NEW j \in Jobs, Renews(s[i], j)
       PROVE  /\ \A p \in DOMAIN responses[w] : ~Assigns(responses[w][p], j)
              /\ active[w][j].phase # "awaitingAcceptance"
              /\ \A k \in DOMAIN Tail(requests[w]) : \A l \in Named(Tail(requests[w])[k]) :
                   ~(/\ l[1] = j /\ l[2] = active[w][j].lease /\ active[w][j].phase # "none"
                     /\ Tail(requests[w])[k].type = "accepted")
  <2>1. /\ \A p \in DOMAIN responses[w] : ~Assigns(responses[w][p], j)
        /\ active[w][j].phase # "awaitingAcceptance"
    BY <1>14, <1>17 DEF Renews, AwaitingPhases
  <2>2. RequestsInOrder(active[w], Tail(requests[w]), responses[w], handler[w])
    BY <1>1, <1>17, ServeRequest DEF WorkInv, MessagesOK
  <2>3. ASSUME NEW k \in DOMAIN Tail(requests[w]), NEW l \in Named(Tail(requests[w])[k]),
               l[1] = j, l[2] = active[w][j].lease, active[w][j].phase # "none",
               Tail(requests[w])[k].type = "accepted"
        PROVE  FALSE
    <3>1. RequestInOrder(active[w], Tail(requests[w]), responses[w], handler[w], k, l)
      BY <2>2, <2>3 DEF RequestsInOrder
    <3> QED BY <2>1, <2>3, <3>1 DEF RequestInOrder
  <2> QED BY <2>1, <2>3
<1>18. MessagesOK(w)'
  BY <1>8, <1>10, <1>11, <1>12, <1>13, <1>15, <1>16, <1>17, AnswerMessages
<1> QED BY <1>12, <1>18

\* The server's handler of one request.
LEMMA ServeStep ==
  ASSUME WorkInv, NEW w \in Runners, Serve(w) PROVE WorkInv'
<1>1. PICK m : m = Head(requests[w])
  OBVIOUS
<1>2. /\ handler[w].at = "idle" /\ requests[w] # <<>>
      /\ UNCHANGED <<link, client, faults, history>>
  BY DEF Serve
<1>3. m \in Requests
  BY <1>1, <1>2, FirstRequest
<1>4. m.type \in {"accepted", "started", "completed", "log", "heartbeat"}
  BY <1>3 DEF Requests, Transitions, Completions, Chunks, Heartbeats
<1>5. CASE m.type = "accepted"
  <2>1. HandleAccepted(w, m)
    BY <1>1, <1>5 DEF Serve
  <2> QED BY <1>1, <1>2, <1>5, <2>1, HandleTransition
<1>6. CASE m.type = "started"
  <2>1. HandleStarted(w, m)
    BY <1>1, <1>6 DEF Serve
  <2> QED BY <1>1, <1>2, <1>6, <2>1, HandleTransition
<1>7. CASE m.type = "completed"
  <2>1. HandleCompletion(w, m)
    BY <1>1, <1>7 DEF Serve
  <2> QED BY <1>1, <1>2, <1>7, <2>1, CompletionStep
<1>8. CASE m.type = "log"
  <2>1. HandleLog(w, m)
    BY <1>1, <1>8 DEF Serve
  <2> QED BY <1>1, <1>2, <1>8, <2>1, LogStep
<1>9. CASE m.type = "heartbeat"
  <2>1. HandleHeartbeat(w, m)
    BY <1>1, <1>9 DEF Serve
  <2> QED BY <1>1, <1>2, <1>9, <2>1, HeartbeatStep
<1> QED BY <1>4, <1>5, <1>6, <1>7, <1>8, <1>9

-----------------------------------------------------------------------------
(* The Runner's loop.                                                      *)

\* A step of Runner w that leaves the store and the executions alone: what it
\* has to say of its local jobs and messages.
LEMMA ClientStep ==
  ASSUME WorkInv, WorkTypeOK', NEW w \in Runners,
         UNCHANGED <<queue, token, stored, executing, history>>,
         \A u \in Runners \ {w} :
           /\ active'[u] = active[u] /\ results'[u] = results[u]
           /\ requests'[u] = requests[u] /\ responses'[u] = responses[u] /\ handler'[u] = handler[u]
           /\ (u \in attached' <=> u \in attached) /\ (u \in link' <=> u \in link),
         \A j \in Jobs : EntryOK(w, j, active'[w][j]),
         \A j \in Jobs :
           active'[w][j].phase = "running" /\ ~active'[w][j].lost /\ active'[w][j].chunk # 0 =>
             active[w][j].phase = "running" /\ ~active[w][j].lost /\ active[w][j].chunk # 0,
         Range(results'[w]) \subseteq Range(results[w]),
         \A x \in Range(requests'[w]) : x \in Range(requests[w]) \/ RequestOK(w, x),
         Range(responses'[w]) \subseteq Range(responses[w]),
         \A x \in Range(responses'[w]) :
           x.type = "renewed" /\ active'[w][x.job].phase = "awaitingStart" =>
             /\ active[w][x.job].phase = "awaitingStart"
             /\ active'[w][x.job].lease = active[w][x.job].lease,
         handler'[w] = handler[w] \/ handler'[w].at # "issuing",
         ResponsesInOrder(active'[w], responses'[w], handler'[w]),
         w \in attached' => RequestsInOrder(active'[w], requests'[w], responses'[w], handler'[w]),
         w \notin link' => responses'[w] = <<>> /\ w \notin attached'
  PROVE  WorkInv'
<1>1. Quiet /\ AbsentOK' /\ \A j \in Jobs : StoreOK(j)'
  BY RowsAlone
<1>2. \A u \in Runners \ {w} : RunnerOK(u)' /\ MessagesOK(u)'
  BY <1>1, Others
<1>3. ASSUME NEW j \in Jobs, NEW e, e = active'[w][j] PROVE EntryOK(w, j, e)'
  <2>1. e \in Entries /\ EntryOK(w, j, e)
    BY <1>3 DEF WorkTypeOK
  <2> QED BY <1>1, <2>1, KeepEntry DEF Quiet, WorkInv
<1>4. ASSUME NEW e \in executing'[w] PROVE ExecutionOK(w, e)'
  <2>1. e \in executing[w] /\ e[1] \in Jobs
    BY <1>4 DEF WorkInv, WorkTypeOK, Leases
  <2> QED BY <1>1, <2>1, KeepExecution DEF Quiet, WorkInv, RunnerOK
<1>5. ASSUME NEW r \in Range(results'[w]) PROVE ResultOK(w, r)'
  <2>1. r \in Range(results[w])
    BY <1>5
  <2>2. r \in Reports
    BY <2>1 DEF WorkInv, WorkTypeOK, Range
  <2>3. r.job \in Jobs
    BY <2>2 DEF Reports
  <2>4. ResultOK(w, r)
    BY <2>1 DEF WorkInv, RunnerOK
  <2> QED BY <1>1, <2>3, <2>4 DEF Quiet, ResultOK, Progress
<1>6. RunnerOK(w)'
  BY <1>3, <1>4, <1>5 DEF RunnerOK
<1>7. ASSUME NEW x \in Range(requests'[w]) PROVE RequestOK(w, x)'
  <2>1. x \in Requests
    BY <1>7 DEF WorkTypeOK, Range
  <2> QED BY <1>1, <1>7, <2>1, OldRequests, KeepRequest DEF Quiet, WorkInv
<1>8. ASSUME NEW x \in Range(responses'[w]) PROVE ResponseOK(w, x)'
  <2>1. x \in Responses /\ ResponseOK(w, x)
    <3>1. x \in Range(responses[w])
      OBVIOUS
    <3> QED BY <3>1 DEF WorkInv, WorkTypeOK, MessagesOK, Range
  <2>2. x.job \in Jobs
    BY <2>1 DEF Responses, Assignments, Answers, Acks
  <2>3. x.type = "assignment" => Unused(w, x.job, x.lease)'
    BY <1>1, <2>1, <2>2, KeepUnused DEF ResponseOK, Quiet, Steady, WorkInv
  <2>4. x.type = "renewed" /\ active'[w][x.job].phase = "awaitingStart" =>
          Authorized(w, x.job, active[w][x.job].lease)' /\ active'[w][x.job].lease = active[w][x.job].lease
    <3>1. PICK t : t = active[w][x.job].lease
      OBVIOUS
    <3>2. Authorized(w, x.job, t) => Authorized(w, x.job, t)'
      BY <1>1, <2>2, KeepAuthorized DEF Quiet
    <3>3. x.type = "renewed" /\ active'[w][x.job].phase = "awaitingStart" =>
            Authorized(w, x.job, t) /\ active'[w][x.job].lease = t
      BY <1>8, <2>1, <3>1 DEF ResponseOK
    <3> QED BY <3>1, <3>2, <3>3 DEF Authorized, Status, OwnerOf, queue
  <2>5. x.type = "logAck" => x.seq \in 1..Len(stored'[x.job])
    BY <2>1 DEF ResponseOK
  <2> QED BY <2>3, <2>4, <2>5 DEF ResponseOK, Authorized, Status, OwnerOf, queue
<1>9. \A h \in {handler'[w]} : HandlerOK(w, h)'
  BY <1>1, OldHandler, IdleHandler
<1>10. MessagesOK(w)'
  BY <1>7, <1>8, <1>9 DEF MessagesOK
<1> QED BY <1>1, <1>2, <1>6, <1>10 DEF WorkInv

\* What the Runner sends arrives while the handler serves its stream.
LEMMA SendIs ==
  ASSUME WorkTypeOK, NEW w \in Runners, NEW s \in Seq(Requests), Send(w, s)
  PROVE  /\ requests' \in [Runners -> Seq(Requests)]
         /\ \A u \in Runners \ {w} : requests'[u] = requests[u]
         /\ w \in attached => requests'[w] = requests[w] \o s
         /\ w \notin attached => requests'[w] = requests[w]
<1>1. requests[w] \o s \in Seq(Requests)
  BY ConcatAt DEF WorkTypeOK
<1> QED BY <1>1 DEF Send, WorkTypeOK

\* A local job is set.
LEMMA SetIs ==
  ASSUME WorkTypeOK, NEW w \in Runners, NEW j \in Jobs, NEW e \in Entries, SetEntry(w, j, e)
  PROVE  /\ active' \in [Runners -> [Jobs -> Entries]]
         /\ active'[w][j] = e
         /\ \A i \in Jobs : i # j => active'[w][i] = active[w][i]
         /\ \A u \in Runners \ {w} : active'[u] = active[u]
BY DEF SetEntry, WorkTypeOK

\* There are finitely many jobs.
LEMMA JobsFinite == IsFiniteSet(Jobs)
<1>1. IsFiniteSet(1..RunLimit)
  BY StoreAssumption, FS_Interval
<1> QED BY <1>1, StoreAssumption, FS_Product DEF Jobs

\* What Runner w knows of a local job.
LEMMA EntryKnown ==
  ASSUME WorkInv, NEW w \in Runners, NEW j \in Jobs, NEW e, e = active[w][j]
  PROVE  e \in Entries /\ EntryOK(w, j, e)
BY DEF WorkInv, WorkTypeOK, RunnerOK

\* The heartbeat lists leases of executions.
LEMMA HeartbeatOK ==
  ASSUME WorkInv, NEW w \in Runners, NEW m, m = Heartbeat(w)
  PROVE  /\ m \in Requests /\ m.type = "heartbeat" /\ RequestOK(w, m)
         /\ \A l \in Named(m) : /\ l[1] \in Jobs /\ active[w][l[1]].phase # "none"
                                /\ l[2] = active[w][l[1]].lease
<1> DEFINE J == {i \in Jobs : ~active[w][i].lost /\ active[w][i].phase \in {"running", "completed"}}
           f == [j \in J |-> <<j, active[w][j].lease>>]
<1>1. m.type = "heartbeat" /\ m.leases = Reported(w) /\ Named(m) = Reported(w)
  BY DEF Heartbeat, Named
<1>2. Reported(w) = {f[j] : j \in J}
  BY DEF Reported
<1>3. IsFiniteSet(J)
  BY JobsFinite, FS_Subset
<1>4. IsFiniteSet(Reported(w))
  <2>1. f \in Surjection(J, Reported(w))
    BY <1>2 DEF Surjection
  <2> QED BY <1>3, <2>1, FS_Surjection
<1>5. ASSUME NEW l \in Reported(w)
      PROVE  /\ l \in Leases /\ l[1] \in Jobs /\ l[2] = active[w][l[1]].lease
             /\ active[w][l[1]].phase # "none"
             /\ Authorized(w, l[1], l[2]) /\ begun[l[1]] = 1
  <2>1. PICK j \in Jobs : l = <<j, active[w][j].lease>> /\ active[w][j].phase \in {"running", "completed"}
    BY <1>5 DEF Reported
  <2>2. PICK e : e = active[w][j]
    OBVIOUS
  <2>3. e \in Entries /\ EntryOK(w, j, e)
    BY <2>2, EntryKnown
  <2>4. e.lease \in Nat /\ Authorized(w, j, e.lease) /\ begun[j] = 1
    BY <2>1, <2>2, <2>3 DEF Entries, EntryOK, Executed
  <2> QED BY <2>1, <2>2, <2>4 DEF Leases
<1>6. m \in Requests
  BY <1>4, <1>5 DEF Heartbeat, Requests, Heartbeats
<1> QED BY <1>1, <1>5, <1>6 DEF RequestOK

\* A request about local jobs is sent, and nothing else happens.
LEMMA SayStep ==
  ASSUME WorkInv, NEW w \in Runners, NEW m \in Requests, Send(w, <<m>>), RequestOK(w, m),
         m.type \notin {"accepted", "started"},
         \A l \in Named(m) : active[w][l[1]].phase # "none" /\ l[2] = active[w][l[1]].lease,
         UNCHANGED <<queue, token, stored, handler, attached, responses, link, active, executing,
                     results, losses, history>>
  PROVE  WorkInv'
<1>1. <<m>> \in Seq(Requests) /\ Range(<<m>>) = {m}
  BY OneMessage
<1>2. /\ requests' \in [Runners -> Seq(Requests)]
      /\ \A u \in Runners \ {w} : requests'[u] = requests[u]
      /\ w \in attached => requests'[w] = requests[w] \o <<m>>
      /\ w \notin attached => requests'[w] = requests[w]
  BY <1>1, SendIs DEF WorkInv
<1>3. WorkTypeOK'
  BY <1>2 DEF WorkInv, WorkTypeOK, queue, history
<1>4. requests[w] \in Seq(Requests)
  BY DEF WorkInv, WorkTypeOK
<1>5. \A x \in Range(requests'[w]) : x \in Range(requests[w]) \/ RequestOK(w, x)
  BY <1>1, <1>2, <1>4, ConcatRange
<1>6. ResponsesInOrder(active[w], responses[w], handler[w])
  BY DEF WorkInv, MessagesOK
<1>7. w \in attached => RequestsInOrder(active[w], requests'[w], responses[w], handler[w])
  <2> SUFFICES ASSUME w \in attached
               PROVE  RequestsInOrder(active[w], requests[w] \o <<m>>, responses[w], handler[w])
    BY <1>2
  <2>1. RequestsInOrder(active[w], requests[w], responses[w], handler[w])
    BY DEF WorkInv, MessagesOK
  <2>2. m.type # "accepted" /\ m.type # "started"
    OBVIOUS
  <2> QED BY <1>4, <1>6, <2>1, <2>2, SendRequest
<1>8. \A j \in Jobs : EntryOK(w, j, active[w][j])
  BY EntryKnown
<1>9. w \notin link => responses[w] = <<>> /\ w \notin attached
  BY DEF WorkInv, MessagesOK
<1> QED BY <1>2, <1>3, <1>5, <1>6, <1>7, <1>8, <1>9, ClientStep

\* The ticker.
LEMMA SendHeartbeatStep ==
  ASSUME WorkInv, NEW w \in Runners, SendHeartbeat(w) PROVE WorkInv'
<1>1. PICK m : m = Heartbeat(w)
  OBVIOUS
<1>2. /\ m \in Requests /\ m.type = "heartbeat" /\ RequestOK(w, m)
      /\ \A l \in Named(m) : active[w][l[1]].phase # "none" /\ l[2] = active[w][l[1]].lease
  BY <1>1, HeartbeatOK
<1>3. Send(w, <<m>>) /\ UNCHANGED <<queue, token, stored, handler, attached, responses, link, active,
                                    executing, results, losses, history>>
  BY <1>1 DEF SendHeartbeat, client
<1> QED BY <1>2, <1>3, SayStep

\* logTick: only a job that is executed has a chunk to send.
LEMMA SendLogStep ==
  ASSUME WorkInv, NEW w \in Runners, NEW j \in Jobs, SendLog(w, j) PROVE WorkInv'
<1>1. PICK e : e = active[w][j]
  OBVIOUS
<1>2. e \in Entries /\ EntryOK(w, j, e)
  BY <1>1, EntryKnown
<1>3. PICK m : m = [type |-> "log", job |-> j, lease |-> e.lease, seq |-> e.chunk,
                  body |-> e.last]
  OBVIOUS
<1>4. /\ e.chunk # 0 /\ Send(w, <<m>>)
      /\ UNCHANGED <<queue, token, stored, handler, attached, responses, link, active, executing,
                     results, losses, history>>
  BY <1>1, <1>3 DEF SendLog
<1>5. e.lease \in Nat /\ e.chunk \in Nat /\ e.phase \in Phases /\ e.last \in {"none"} \cup Bodies
  BY <1>2 DEF Entries
<1>6. e.phase \in Executed
  BY <1>2, <1>4, <1>5 DEF EntryOK, NoEntry, Phases, AwaitingPhases, Executed
<1>7. /\ m \in Requests /\ m.type = "log" /\ m.job = j /\ m.lease = e.lease /\ m.seq = e.chunk
      /\ Named(m) = {<<j, e.lease>>}
  BY <1>3, <1>5 DEF Requests, Chunks, Named
<1>8. RequestOK(w, m)
  <2>1. Authorized(w, j, e.lease) /\ begun[j] = 1 /\ e.chunk = Len(printed[j])
    BY <1>2, <1>4, <1>6 DEF EntryOK
  <2>2. m.seq \in 1..Len(printed[m.job])
    BY <1>4, <1>5, <1>7, <2>1
  <2> QED BY <1>7, <2>1, <2>2 DEF RequestOK
<1>9. \A l \in Named(m) : active[w][l[1]].phase # "none" /\ l[2] = active[w][l[1]].lease
  BY <1>1, <1>6, <1>7 DEF Executed
<1> QED BY <1>4, <1>7, <1>8, <1>9, SayStep

\* An assignment names a lease.
LEMMA AssignedLeases ==
  ASSUME NEW res \in Seq(Responses)
  PROVE  \A p \in DOMAIN res : res[p].type = "assignment" => res[p].lease \in Nat
<1> SUFFICES ASSUME NEW p \in DOMAIN res, NEW m, m = res[p], m.type = "assignment" PROVE m.lease \in Nat
  OBVIOUS
<1>1. m \in Responses
  OBVIOUS
<1> QED BY <1>1 DEF Responses, Assignments, Answers, Acks

\* A local job is lost or ended: nothing of it has to be said any more.
LEMMA DropStep ==
  ASSUME WorkInv, NEW w \in Runners, NEW j \in Jobs, NEW e \in Entries, SetEntry(w, j, e),
         \/ e = NoEntry \/ e = active[w][j]
         \/ e = [active[w][j] EXCEPT !.lost = TRUE] /\ active[w][j].phase # "none",
         results' \in [Runners -> Seq(Reports)], losses' \in [Runners -> Seq(Jobs)],
         \A u \in Runners \ {w} : results'[u] = results[u], Range(results'[w]) \subseteq Range(results[w]),
         UNCHANGED <<queue, token, stored, handler, wire, executing, history>>
  PROVE  WorkInv'
<1>1. /\ active' \in [Runners -> [Jobs -> Entries]]
      /\ active'[w][j] = e
      /\ \A i \in Jobs : i # j => active'[w][i] = active[w][i]
      /\ \A u \in Runners \ {w} : active'[u] = active[u]
  BY SetIs DEF WorkInv
<1>2. WorkTypeOK'
  BY <1>1 DEF WorkInv, WorkTypeOK, queue, wire, history
<1>3. PICK d : d = active[w][j]
  OBVIOUS
<1>4. d \in Entries /\ EntryOK(w, j, d)
  BY <1>3, EntryKnown
<1>5. \/ e = NoEntry
      \/ e = d
      \/ /\ e.lease = d.lease /\ e.phase = d.phase /\ e.verdict = d.verdict /\ d.phase # "none"
         /\ e.seq = d.seq /\ e.chunk = d.chunk /\ e.lost
  BY <1>3, <1>4 DEF Entries
<1>6. EntryOK(w, j, e)
  <2>1. CASE e = NoEntry
    BY <2>1 DEF EntryOK, NoEntry, AwaitingPhases, Executed
  <2>2. CASE e = d
    BY <1>4, <2>2
  <2>3. CASE e # NoEntry /\ e # d
    BY <1>4, <1>5, <2>3 DEF EntryOK
  <2> QED BY <2>1, <2>2, <2>3
<1>7. ASSUME NEW i \in Jobs
      PROVE  /\ EntryOK(w, i, active'[w][i])
             /\ active'[w][i].phase \in {"none", active[w][i].phase}
             /\ active'[w][i].lease \in {0, active[w][i].lease} /\ active[w][i].lease \in Nat
             /\ active'[w][i].phase # "none" =>
                  /\ active'[w][i].lease = active[w][i].lease
                  /\ ~active'[w][i].lost => active'[w][i] = active[w][i]
  <2>1. CASE i # j
    BY <1>1, <2>1, EntryKnown DEF Entries
  <2>2. CASE i = j
    BY <1>1, <1>3, <1>4, <1>5, <1>6, <2>2 DEF NoEntry, Entries
  <2> QED BY <2>1, <2>2
<1>8. requests[w] \in Seq(Requests) /\ responses[w] \in Seq(Responses) /\ handler[w] \in Handlers
  BY DEF WorkInv, WorkTypeOK
<1>9. ResponsesInOrder(active'[w], responses[w], handler[w])
  <2>1. ResponsesInOrder(active[w], responses[w], handler[w])
    BY DEF WorkInv, MessagesOK
  <2>2. \A p \in DOMAIN responses[w] : responses[w][p].type = "assignment" => responses[w][p].lease \in Nat
    BY <1>8, AssignedLeases
  <2>3. handler[w].at = "issuing" => handler[w].lease \in Nat
    BY <1>8 DEF Handlers
  <2>4. \A i \in Jobs : active'[w][i].lease \in {0, active[w][i].lease} /\ active[w][i].lease \in Nat
                        /\ (active'[w][i].phase = "awaitingAcceptance" =>
                              active[w][i].phase = "awaitingAcceptance")
    BY <1>7
  <2> QED BY <2>1, <2>2, <2>3, <2>4, MoveEntries, ZenonT(60)
<1>10. w \in attached => RequestsInOrder(active'[w], requests[w], responses[w], handler[w])
  <2> SUFFICES ASSUME w \in attached
               PROVE  RequestsInOrder(active'[w], requests[w], responses[w], handler[w])
    OBVIOUS
  <2>1. RequestsInOrder(active[w], requests[w], responses[w], handler[w])
    BY DEF WorkInv, MessagesOK
  <2>2. \A i \in Jobs : active'[w][i].phase # "none" =>
          /\ active[w][i].phase # "none" /\ active'[w][i].lease = active[w][i].lease
          /\ active'[w][i].phase = "awaitingAcceptance" => active[w][i].phase = "awaitingAcceptance"
          /\ active[w][i].phase = "awaitingAcceptance" =>
               \/ active'[w][i].phase = "awaitingAcceptance"
               \/ \E q \in DOMAIN responses[w] : Renews(responses[w][q], i)
    BY <1>7
  <2> QED BY <1>8, <2>1, <2>2, MoveBeside
<1>11. UNCHANGED <<requests, responses, attached, link>>
  BY DEF wire
<1>12. w \notin link => responses[w] = <<>> /\ w \notin attached
  BY DEF WorkInv, MessagesOK
<1>13. ASSUME NEW x \in Range(responses[w]), active'[w][x.job].phase = "awaitingStart"
       PROVE  /\ active[w][x.job].phase = "awaitingStart"
              /\ active'[w][x.job].lease = active[w][x.job].lease
  <2>1. x \in Responses
    BY <1>8, <1>13 DEF Range
  <2>2. x.job \in Jobs
    BY <2>1 DEF Responses, Assignments, Answers, Acks
  <2> QED BY <1>7, <1>13, <2>2
<1>14. \A i \in Jobs :
         active'[w][i].phase = "running" /\ ~active'[w][i].lost /\ active'[w][i].chunk # 0 =>
           active[w][i].phase = "running" /\ ~active[w][i].lost /\ active[w][i].chunk # 0
  BY <1>7
<1>15. \A u \in Runners \ {w} :
         /\ active'[u] = active[u] /\ results'[u] = results[u]
         /\ requests'[u] = requests[u] /\ responses'[u] = responses[u] /\ handler'[u] = handler[u]
         /\ (u \in attached' <=> u \in attached) /\ (u \in link' <=> u \in link)
  BY <1>1, <1>11
<1>16. /\ ResponsesInOrder(active'[w], responses'[w], handler'[w])
       /\ w \in attached' => RequestsInOrder(active'[w], requests'[w], responses'[w], handler'[w])
       /\ w \notin link' => responses'[w] = <<>> /\ w \notin attached'
       /\ Range(responses'[w]) \subseteq Range(responses[w])
       /\ Range(requests'[w]) \subseteq Range(requests[w])
       /\ handler'[w] = handler[w]
  BY <1>9, <1>10, <1>11, <1>12
<1>17. \A x \in Range(responses'[w]) :
         x.type = "renewed" /\ active'[w][x.job].phase = "awaitingStart" =>
           /\ active[w][x.job].phase = "awaitingStart"
           /\ active'[w][x.job].lease = active[w][x.job].lease
  BY <1>11, <1>13
<1> QED BY <1>2, <1>7, <1>14, <1>15, <1>16, <1>17, ClientStep

\* loseLease.
LEMMA LoseStep ==
  ASSUME WorkInv, NEW w \in Runners, NEW j \in Jobs, LocalDeadline(w, j) PROVE WorkInv'
<1>1. PICK d : d = active[w][j]
  OBVIOUS
<1>2. PICK e : e = [d EXCEPT !.lost = TRUE]
  OBVIOUS
<1>3. /\ d.phase # "none" /\ SetEntry(w, j, e)
      /\ losses' = IF Len(losses[w]) < Capacity[w] THEN [losses EXCEPT ![w] = Append(@, j)] ELSE losses
      /\ UNCHANGED <<queue, token, stored, handler, wire, executing, results, sent, history>>
  BY <1>1, <1>2 DEF LocalDeadline, LoseLease, Known
<1>4. e \in Entries
  <2>1. d \in Entries
    BY <1>1, EntryKnown
  <2> QED BY <1>2, <2>1 DEF Entries
<1>5. losses' \in [Runners -> Seq(Jobs)] /\ results' \in [Runners -> Seq(Reports)]
  <2>1. Append(losses[w], j) \in Seq(Jobs)
    BY DEF WorkInv, WorkTypeOK
  <2> QED BY <1>3, <2>1 DEF WorkInv, WorkTypeOK
<1> QED BY <1>1, <1>2, <1>3, <1>4, <1>5, DropStep

\* The notice of a lost lease.
LEMMA LossStep ==
  ASSUME WorkInv, NEW w \in Runners, HandleLoss(w) PROVE WorkInv'
<1>1. losses[w] \in Seq(Jobs) /\ losses[w] # <<>> /\ losses \in [Runners -> Seq(Jobs)]
  BY DEF HandleLoss, WorkInv, WorkTypeOK
<1>2. PICK j : j = Head(losses[w])
  OBVIOUS
<1>3. j \in Jobs /\ Tail(losses[w]) \in Seq(Jobs)
  BY <1>1, <1>2
<1>4. PICK e : e = IF active[w][j].lost THEN NoEntry ELSE active[w][j]
  OBVIOUS
<1>5. NoEntry \in Entries
  BY DEF NoEntry, Entries, Phases
<1>6. e \in Entries /\ (e = NoEntry \/ e = active[w][j])
  BY <1>3, <1>4, <1>5, EntryKnown
<1>7. /\ losses' = [losses EXCEPT ![w] = Tail(@)]
      /\ active' = [active EXCEPT ![w][j] = e]
      /\ UNCHANGED <<queue, token, stored, handler, wire, executing, results, history>>
  BY <1>2, <1>4 DEF HandleLoss
<1>8. SetEntry(w, j, e) /\ losses' \in [Runners -> Seq(Jobs)] /\ results' \in [Runners -> Seq(Reports)]
  BY <1>1, <1>3, <1>7 DEF SetEntry, WorkInv, WorkTypeOK
<1> QED BY <1>3, <1>6, <1>7, <1>8, DropStep

\* An order of a finite set names every element once.
LEMMA OrderIs ==
  ASSUME NEW S, IsFiniteSet(S), NEW s \in Orders(S)
  PROVE  /\ Cardinality(S) \in Nat /\ s \in [1..Cardinality(S) -> S]
         /\ \A i, k \in DOMAIN s : s[i] = s[k] => i = k
<1>1. Cardinality(S) \in Nat /\ s \in [1..Cardinality(S) -> S]
  BY FS_CardinalityType DEF Orders
<1>2. IsFiniteSet(1..Cardinality(S)) /\ Cardinality(1..Cardinality(S)) = Cardinality(S)
  <2>1. /\ IsFiniteSet(1..Cardinality(S))
        /\ Cardinality(1..Cardinality(S)) = IF 1 > Cardinality(S) THEN 0 ELSE Cardinality(S) - 1 + 1
    BY <1>1, FS_Interval
  <2> QED BY <1>1, <2>1
<1>3. s \in Surjection(1..Cardinality(S), S)
  <2>1. \A x \in S : \E i \in 1..Cardinality(S) : s[i] = x
    BY DEF Orders
  <2> QED BY <1>1, <2>1 DEF Surjection
<1>4. s \in Injection(1..Cardinality(S), S)
  BY <1>2, <1>3, FS_SurjSameCardinalityImpliesInj
<1> QED BY <1>1, <1>4 DEF Injection, IsInjective

\* The transition that a waiting job repeats.
LEMMA TransitionOK ==
  ASSUME WorkInv, NEW w \in Runners, NEW j \in Awaiting(w), NEW m, m = Transition(w, j)
  PROVE  /\ m \in Requests /\ RequestOK(w, m) /\ Named(m) = {<<j, active[w][j].lease>>}
         /\ active[w][j].lease \in Nat /\ j \in Jobs
         /\ m.type = IF active[w][j].phase = "awaitingAcceptance" THEN "accepted" ELSE "started"
         /\ m.job = j
<1>1. PICK e : e = active[w][j]
  OBVIOUS
<1>2. j \in Jobs /\ e.phase \in AwaitingPhases
  BY <1>1 DEF Awaiting, AwaitingPhases
<1>3. e \in Entries /\ EntryOK(w, j, e)
  BY <1>1, <1>2, EntryKnown
<1>4. e.lease \in Nat /\ e.lease <= token[j]
  <2>1. Ours(w, j, e.lease) /\ e.lease \in Nat /\ token[j] \in Nat
    BY <1>2, <1>3 DEF EntryOK, Entries, AwaitingPhases, WorkInv, WorkTypeOK
  <2> QED BY <2>1 DEF Ours
<1>5. /\ m.type = IF e.phase = "awaitingAcceptance" THEN "accepted" ELSE "started"
      /\ m.job = j /\ m.lease = e.lease
  BY <1>1 DEF Transition
<1>6. m \in Transitions
  BY <1>1, <1>2, <1>4 DEF Transition, Transitions
<1>7. RequestOK(w, m)
  BY <1>4, <1>5 DEF RequestOK
<1>8. Named(m) = {<<j, e.lease>>}
  BY <1>5 DEF Named
<1> QED BY <1>1, <1>2, <1>4, <1>5, <1>6, <1>7, <1>8 DEF Requests

\* Run, runSession: the waiting jobs repeat their transitions, and the
\* heartbeat lists the executions.
LEMMA ConnectStep ==
  ASSUME WorkInv, NEW w \in Runners, Connect(w) PROVE WorkInv'
<1>1. /\ w \notin link /\ link' = link \cup {w} /\ UNCHANGED <<queue, token, stored, responses, client, history>>
  BY DEF Connect
<1>2. responses[w] = <<>> /\ w \notin attached /\ Range(responses[w]) = {}
  <2>1. responses[w] = <<>> /\ w \notin attached
    BY <1>1 DEF WorkInv, MessagesOK
  <2> QED BY <2>1 DEF Range
<1>3. \A j \in Jobs : EntryOK(w, j, active[w][j])
  BY EntryKnown
<1>4. ResponsesInOrder(active[w], responses[w], handler[w])
  BY DEF WorkInv, MessagesOK
<1>5. CASE handler[w].at = "none"
  <2>1. PICK o \in Orders(Awaiting(w)) :
          requests' = [requests EXCEPT ![w] = [i \in DOMAIN o |-> Transition(w, o[i])] \o <<Heartbeat(w)>>]
    BY <1>5 DEF Connect
  <2>2. /\ attached' = attached \cup {w}
        /\ handler' = [handler EXCEPT ![w] = [at |-> "idle"]]
    BY <1>5 DEF Connect
  <2>3. IsFiniteSet(Awaiting(w))
    BY JobsFinite, FS_Subset DEF Awaiting
  <2>4. /\ Cardinality(Awaiting(w)) \in Nat /\ o \in [1..Cardinality(Awaiting(w)) -> Awaiting(w)]
        /\ \A i, k \in DOMAIN o : o[i] = o[k] => i = k
    BY <2>3, OrderIs
  <2>5. PICK q : q = [i \in DOMAIN o |-> Transition(w, o[i])]
    OBVIOUS
  <2>6. DOMAIN q = DOMAIN o /\ \A i \in DOMAIN q : o[i] \in Awaiting(w) /\ q[i] = Transition(w, o[i])
    BY <2>4, <2>5
  <2>7. ASSUME NEW i \in DOMAIN q
        PROVE  /\ q[i] \in Requests /\ RequestOK(w, q[i]) /\ o[i] \in Jobs
               /\ active[w][o[i]].lease \in Nat /\ Named(q[i]) = {<<o[i], active[w][o[i]].lease>>}
               /\ q[i].type = IF active[w][o[i]].phase = "awaitingAcceptance" THEN "accepted" ELSE "started"
               /\ active[w][o[i]].phase # "none"
    <3>1. o[i] \in Awaiting(w) /\ q[i] = Transition(w, o[i])
      BY <2>6, <2>7
    <3>2. active[w][o[i]].phase # "none"
      BY <3>1 DEF Awaiting
    <3> QED BY <3>1, <3>2, TransitionOK
  <2>8. q \in Seq(Requests)
    <3>1. q \in [1..Cardinality(Awaiting(w)) -> Requests]
      BY <2>4, <2>5, <2>7
    <3> QED BY <2>4, <3>1
  <2>9. PICK m : m = Heartbeat(w)
    OBVIOUS
  <2>10. /\ m \in Requests /\ m.type = "heartbeat" /\ RequestOK(w, m)
         /\ \A l \in Named(m) : /\ l[1] \in Jobs /\ active[w][l[1]].phase # "none"
                                /\ l[2] = active[w][l[1]].lease
    BY <2>9, HeartbeatOK
  <2>11. <<m>> \in Seq(Requests) /\ Range(<<m>>) = {m} /\ DOMAIN <<m>> = {1} /\ <<m>>[1] = m
    BY <2>10, OneMessage
  <2>12. PICK T : T = q \o <<m>>
    OBVIOUS
  <2>13. /\ T \in Seq(Requests)
         /\ \A i \in DOMAIN T : (i \in DOMAIN q /\ T[i] = q[i]) \/ T[i] = m
    BY <2>8, <2>11, <2>12, ConcatAt
  <2>14. /\ requests' \in [Runners -> Seq(Requests)] /\ requests'[w] = T
         /\ \A u \in Runners \ {w} : requests'[u] = requests[u]
    BY <2>1, <2>5, <2>9, <2>12, <2>13 DEF WorkInv, WorkTypeOK
  <2>15. /\ handler' \in [Runners -> Handlers] /\ handler'[w].at = "idle"
         /\ \A u \in Runners \ {w} : handler'[u] = handler[u]
    <3>1. [at |-> "idle"] \in Handlers
      BY DEF Handlers
    <3> QED BY <2>2, <3>1 DEF WorkInv, WorkTypeOK
  <2>16. WorkTypeOK'
    BY <1>1, <2>14, <2>15 DEF WorkInv, WorkTypeOK, queue, client, history
  <2>17. \A x \in Range(requests'[w]) : RequestOK(w, x)
    BY <2>7, <2>10, <2>13, <2>14 DEF Range
  <2>18. ASSUME NEW i \in DOMAIN T, NEW l \in Named(T[i])
         PROVE  /\ active[w][l[1]].phase # "none" /\ l[2] = active[w][l[1]].lease /\ l[2] \in Nat
                /\ T[i].type = "accepted" => active[w][l[1]].phase = "awaitingAcceptance"
                /\ T[i].type = "started" => active[w][l[1]].phase # "awaitingAcceptance"
    <3>1. CASE i \in DOMAIN q /\ T[i] = q[i]
      <4>1. l = <<o[i], active[w][o[i]].lease>>
        BY <2>7, <2>18, <3>1
      <4>2. l[1] = o[i] /\ l[2] = active[w][o[i]].lease
        BY <4>1
      <4> QED BY <2>7, <3>1, <4>2
    <3>2. CASE T[i] = m
      <4>1. l[1] \in Jobs /\ active[w][l[1]].phase # "none" /\ l[2] = active[w][l[1]].lease
        BY <2>10, <2>18, <3>2
      <4>2. active[w][l[1]].lease \in Nat
        BY <4>1, EntryKnown DEF Entries
      <4> QED BY <2>10, <3>2, <4>1, <4>2
    <3> QED BY <2>13, <3>1, <3>2
  <2>19. ASSUME NEW i \in DOMAIN T, NEW k \in DOMAIN T, NEW l \in Named(T[i]),
                T[i].type = "accepted", T[k].type = "accepted", l \in Named(T[k])
         PROVE  i = k
    <3>1. i \in DOMAIN q /\ T[i] = q[i] /\ k \in DOMAIN q /\ T[k] = q[k]
      BY <2>10, <2>13, <2>19
    <3>2. l = <<o[i], active[w][o[i]].lease>> /\ l = <<o[k], active[w][o[k]].lease>>
      BY <2>7, <2>19, <3>1
    <3>3. o[i] = o[k]
      BY <3>2
    <3> QED BY <2>4, <2>6, <3>1, <3>3
  <2>20. RequestsInOrder(active[w], T, <<>>, handler'[w])
    BY <2>15, <2>18, <2>19, FirstRequests
  <2>21. ResponsesInOrder(active[w], responses[w], handler'[w])
    BY <1>4, <2>15, LeaveHandler
  <2>22. UNCHANGED <<active, executing, results, responses>>
    BY <1>1 DEF client
  <2>23. \A u \in Runners \ {w} :
           /\ active'[u] = active[u] /\ results'[u] = results[u]
           /\ requests'[u] = requests[u] /\ responses'[u] = responses[u] /\ handler'[u] = handler[u]
           /\ (u \in attached' <=> u \in attached) /\ (u \in link' <=> u \in link)
    BY <1>1, <2>2, <2>14, <2>15, <2>22
  <2>24. /\ ResponsesInOrder(active'[w], responses'[w], handler'[w])
         /\ RequestsInOrder(active'[w], requests'[w], responses'[w], handler'[w])
         /\ w \in link' /\ Range(responses'[w]) = {} /\ Range(results'[w]) = Range(results[w])
         /\ \A j \in Jobs : EntryOK(w, j, active'[w][j])
         /\ \A j \in Jobs : active'[w][j] = active[w][j]
         /\ handler'[w].at # "issuing"
    BY <1>1, <1>2, <1>3, <2>14, <2>15, <2>20, <2>21, <2>22
  <2> QED BY <1>1, <2>16, <2>17, <2>22, <2>23, <2>24, ClientStep
<1>6. CASE handler[w].at # "none"
  <2>1. UNCHANGED <<attached, handler, requests, active, executing, results, losses, responses>>
    BY <1>1, <1>6 DEF Connect, client
  <2>2. WorkTypeOK'
    BY <1>1, <2>1 DEF WorkInv, WorkTypeOK, queue, history
  <2>3. \A u \in Runners \ {w} :
          /\ active'[u] = active[u] /\ results'[u] = results[u]
          /\ requests'[u] = requests[u] /\ responses'[u] = responses[u] /\ handler'[u] = handler[u]
          /\ (u \in attached' <=> u \in attached) /\ (u \in link' <=> u \in link)
    BY <1>1, <2>1
  <2>4. /\ ResponsesInOrder(active'[w], responses'[w], handler'[w])
        /\ w \notin attached' /\ w \in link' /\ Range(responses'[w]) = {}
        /\ Range(results'[w]) = Range(results[w]) /\ Range(requests'[w]) = Range(requests[w])
        /\ \A j \in Jobs : EntryOK(w, j, active'[w][j])
        /\ \A j \in Jobs : active'[w][j] = active[w][j]
        /\ handler'[w] = handler[w]
    BY <1>1, <1>2, <1>3, <1>4, <2>1
  <2> QED BY <1>1, <2>1, <2>2, <2>3, <2>4, ClientStep
<1> QED BY <1>5, <1>6

-----------------------------------------------------------------------------
(* The Runner's loop: handleResponse.                                      *)

\* The response at the head of the stream.
LEMMA FirstResponse ==
  ASSUME WorkInv, NEW w \in Runners, responses[w] # <<>>, NEW m, m = Head(responses[w])
  PROVE  /\ responses[w] \in Seq(Responses) /\ 1 \in DOMAIN responses[w] /\ responses[w][1] = m
         /\ m \in Responses /\ ResponseOK(w, m) /\ m.job \in Jobs
         /\ Range(Tail(responses[w])) \subseteq Range(responses[w])
<1>1. responses[w] \in Seq(Responses)
  BY DEF WorkInv, WorkTypeOK
<1>2. /\ 1 \in DOMAIN responses[w] /\ responses[w][1] = m /\ m \in Range(responses[w])
      /\ Range(Tail(responses[w])) \subseteq Range(responses[w])
  BY <1>1, TailAt
<1>3. m \in Responses /\ ResponseOK(w, m)
  BY <1>1, <1>2 DEF WorkInv, MessagesOK
<1> QED BY <1>1, <1>2, <1>3 DEF Responses, Assignments, Answers, Acks

\* It is taken.
LEMMA TookIs ==
  ASSUME WorkInv, NEW w \in Runners, responses[w] # <<>>, Took(w)
  PROVE  /\ responses' \in [Runners -> Seq(Responses)] /\ responses'[w] = Tail(responses[w])
         /\ \A u \in Runners \ {w} : responses'[u] = responses[u]
         /\ UNCHANGED <<link, attached>>
<1>1. Tail(responses[w]) \in Seq(Responses)
  BY TailAt DEF WorkInv, WorkTypeOK
<1> QED BY <1>1 DEF Took, WorkInv, WorkTypeOK

\* The local job of the first response ends or goes on, past its acceptance
\* only by a renewal.
LEMMA TakeMove ==
  ASSUME WorkInv, NEW w \in Runners, responses[w] # <<>>, NEW m, m = Head(responses[w]),
         NEW F, F[m.job].lease \in {0, active[w][m.job].lease},
         F[m.job].phase = "awaitingAcceptance" => active[w][m.job].phase = "awaitingAcceptance",
         F[m.job].phase # "none" =>
           /\ active[w][m.job].phase # "none" /\ F[m.job].lease = active[w][m.job].lease
           /\ active[w][m.job].phase = "awaitingAcceptance" =>
                F[m.job].phase = "awaitingAcceptance" \/ Renews(m, m.job),
         \A i \in Jobs : i # m.job => F[i] = active[w][i]
  PROVE  /\ ResponsesInOrder(F, Tail(responses[w]), handler[w])
         /\ w \in attached => RequestsInOrder(F, requests[w], Tail(responses[w]), handler[w])
<1>1. /\ responses[w] \in Seq(Responses) /\ 1 \in DOMAIN responses[w] /\ responses[w][1] = m
      /\ m.job \in Jobs
  BY FirstResponse
<1>2. requests[w] \in Seq(Requests) /\ handler[w] \in Handlers
  BY DEF WorkInv, WorkTypeOK
<1>3. \A i \in Jobs : active[w][i].lease \in Nat
  BY EntryKnown DEF Entries
<1>4. ResponsesInOrder(F, responses[w], handler[w])
  <2>1. ResponsesInOrder(active[w], responses[w], handler[w])
    BY DEF WorkInv, MessagesOK
  <2>2. \A p \in DOMAIN responses[w] : responses[w][p].type = "assignment" => responses[w][p].lease \in Nat
    BY <1>1, AssignedLeases
  <2>3. handler[w].at = "issuing" => handler[w].lease \in Nat
    BY <1>2 DEF Handlers
  <2>4. \A i \in Jobs : F[i].lease \in {0, active[w][i].lease} /\ active[w][i].lease \in Nat
                        /\ (F[i].phase = "awaitingAcceptance" => active[w][i].phase = "awaitingAcceptance")
    BY <1>1, <1>3
  <2> QED BY <2>1, <2>2, <2>3, <2>4, MoveEntries
<1>5. ResponsesInOrder(F, Tail(responses[w]), handler[w])
  BY <1>1, <1>4, TakeResponse
<1>6. ASSUME w \in attached PROVE RequestsInOrder(F, requests[w], Tail(responses[w]), handler[w])
  <2>1. RequestsInOrder(active[w], requests[w], responses[w], handler[w])
    BY <1>6 DEF WorkInv, MessagesOK
  <2>2. \A i \in Jobs : F[i].phase # "none" =>
          /\ active[w][i].phase # "none" /\ F[i].lease = active[w][i].lease
          /\ F[i].phase = "awaitingAcceptance" => active[w][i].phase = "awaitingAcceptance"
          /\ active[w][i].phase = "awaitingAcceptance" =>
               \/ F[i].phase = "awaitingAcceptance"
               \/ \E q \in DOMAIN responses[w] : Renews(responses[w][q], i)
    BY <1>1
  <2>3. RequestsInOrder(F, requests[w], responses[w], handler[w])
    BY <1>2, <2>1, <2>2, MoveBeside
  <2> QED BY <1>1, <2>3, TakeBeside
<1> QED BY <1>5, <1>6

\* A response is taken that moves its local job without beginning an
\* execution; at most one request follows.
LEMMA TakeStep ==
  ASSUME WorkInv, NEW w \in Runners, w \in link, responses[w] # <<>>, NEW m, m = Head(responses[w]),
         Took(w), NEW e \in Entries, SetEntry(w, m.job, e), EntryOK(w, m.job, e),
         UNCHANGED <<queue, token, stored, handler, executing, results, losses, history>>,
         e.lease \in {0, active[w][m.job].lease},
         e.phase = "awaitingAcceptance" => active[w][m.job].phase = "awaitingAcceptance",
         e.phase # "none" =>
           /\ active[w][m.job].phase # "none" /\ e.lease = active[w][m.job].lease
           /\ active[w][m.job].phase = "awaitingAcceptance" =>
                e.phase = "awaitingAcceptance" \/ Renews(m, m.job),
         e.phase = "awaitingStart" => active[w][m.job].phase \in AwaitingPhases,
         e.phase = "running" /\ ~e.lost /\ e.chunk # 0 =>
           active[w][m.job].phase = "running" /\ ~active[w][m.job].lost /\ active[w][m.job].chunk # 0,
         \/ UNCHANGED requests
         \/ \E x \in Requests :
              /\ Send(w, <<x>>) /\ RequestOK(w, x) /\ x.type # "accepted"
              /\ Named(x) = {<<m.job, e.lease>>} /\ e.phase \notin {"none", "awaitingAcceptance"}
  PROVE  WorkInv'
<1>1. /\ responses[w] \in Seq(Responses) /\ 1 \in DOMAIN responses[w] /\ responses[w][1] = m
      /\ m.job \in Jobs /\ Range(Tail(responses[w])) \subseteq Range(responses[w])
  BY FirstResponse
<1>2. /\ responses' \in [Runners -> Seq(Responses)] /\ responses'[w] = Tail(responses[w])
      /\ \A u \in Runners \ {w} : responses'[u] = responses[u]
      /\ UNCHANGED <<link, attached>>
  BY TookIs
<1>3. /\ active' \in [Runners -> [Jobs -> Entries]]
      /\ active'[w][m.job] = e
      /\ \A i \in Jobs : i # m.job => active'[w][i] = active[w][i]
      /\ \A u \in Runners \ {w} : active'[u] = active[u]
  BY <1>1, SetIs DEF WorkInv
<1>4. requests[w] \in Seq(Requests)
  BY DEF WorkInv, WorkTypeOK
<1>5. PICK F : F = active'[w]
  OBVIOUS
<1>6. /\ ResponsesInOrder(F, Tail(responses[w]), handler[w])
      /\ w \in attached => RequestsInOrder(F, requests[w], Tail(responses[w]), handler[w])
  <2>1. F[m.job] = e /\ \A i \in Jobs : i # m.job => F[i] = active[w][i]
    BY <1>3, <1>5
  <2> QED BY <2>1, TakeMove
<1>7. /\ requests' \in [Runners -> Seq(Requests)]
      /\ \A u \in Runners \ {w} : requests'[u] = requests[u]
      /\ \A x \in Range(requests'[w]) : x \in Range(requests[w]) \/ RequestOK(w, x)
      /\ w \in attached => RequestsInOrder(F, requests'[w], Tail(responses[w]), handler[w])
  <2>1. CASE UNCHANGED requests
    BY <1>6, <2>1 DEF WorkInv, WorkTypeOK
  <2>2. CASE ~UNCHANGED requests
    <3>1. PICK x \in Requests :
            /\ Send(w, <<x>>) /\ RequestOK(w, x) /\ x.type # "accepted"
            /\ Named(x) = {<<m.job, e.lease>>} /\ e.phase \notin {"none", "awaitingAcceptance"}
      BY <2>2
    <3>2. <<x>> \in Seq(Requests) /\ Range(<<x>>) = {x}
      BY OneMessage
    <3>3. /\ requests' \in [Runners -> Seq(Requests)]
          /\ \A u \in Runners \ {w} : requests'[u] = requests[u]
          /\ w \in attached => requests'[w] = requests[w] \o <<x>>
          /\ w \notin attached => requests'[w] = requests[w]
      BY <3>1, <3>2, SendIs DEF WorkInv
    <3>4. \A y \in Range(requests'[w]) : y \in Range(requests[w]) \/ RequestOK(w, y)
      BY <1>4, <3>1, <3>2, <3>3, ConcatRange
    <3>5. ASSUME w \in attached
          PROVE  RequestsInOrder(F, requests[w] \o <<x>>, Tail(responses[w]), handler[w])
      <4>1. \A l \in Named(x) : F[l[1]].phase \notin {"none", "awaitingAcceptance"} /\ l[2] = F[l[1]].lease
        BY <1>3, <1>5, <3>1
      <4> QED BY <1>4, <1>6, <3>1, <3>5, <4>1, SendRequest
    <3> QED BY <3>3, <3>4, <3>5
  <2> QED BY <2>1, <2>2
<1>8. WorkTypeOK'
  BY <1>2, <1>3, <1>7 DEF WorkInv, WorkTypeOK, queue, history
<1>9. \A i \in Jobs : EntryOK(w, i, active'[w][i])
  BY <1>3, EntryKnown
<1>10. ASSUME NEW x \in Range(responses'[w]), x.type = "renewed", active'[w][x.job].phase = "awaitingStart"
       PROVE  /\ active[w][x.job].phase = "awaitingStart"
              /\ active'[w][x.job].lease = active[w][x.job].lease
  <2>1. x \in Responses
    BY <1>1, <1>2, <1>10, SMTT(30) DEF Range
  <2>2. x.job \in Jobs
    BY <2>1 DEF Responses, Assignments, Answers, Acks
  <2>3. CASE x.job # m.job
    BY <1>3, <1>10, <2>2, <2>3
  <2>4. CASE x.job = m.job
    <3>1. e.phase = "awaitingStart"
      BY <1>3, <1>10, <2>4
    <3>2. CASE active[w][m.job].phase = "awaitingStart"
      BY <1>3, <2>4, <3>1, <3>2
    <3>3. CASE active[w][m.job].phase = "awaitingAcceptance"
      <4>1. Renews(m, m.job)
        BY <3>1, <3>3
      <4>2. PICK q \in DOMAIN Tail(responses[w]) : x = Tail(responses[w])[q]
        BY <1>2, <1>10 DEF Range
      <4>3. q + 1 \in DOMAIN responses[w] /\ x = responses[w][q + 1] /\ q \in Nat \ {0}
        BY <1>1, <4>2, TailAt
      <4>4. Renews(responses[w][q + 1], m.job)
        BY <1>10, <2>4, <4>3 DEF Renews
      <4>5. q + 1 = 1
        BY <1>1, <3>3, <4>1, <4>3, <4>4 DEF WorkInv, MessagesOK, ResponsesInOrder
      <4> QED BY <4>3, <4>5, SMTT(30)
    <3> QED BY <3>1, <3>2, <3>3 DEF AwaitingPhases
  <2> QED BY <2>3, <2>4
<1>11. \A i \in Jobs :
         active'[w][i].phase = "running" /\ ~active'[w][i].lost /\ active'[w][i].chunk # 0 =>
           active[w][i].phase = "running" /\ ~active[w][i].lost /\ active[w][i].chunk # 0
  BY <1>3
<1>12. \A u \in Runners \ {w} :
         /\ active'[u] = active[u] /\ results'[u] = results[u]
         /\ requests'[u] = requests[u] /\ responses'[u] = responses[u] /\ handler'[u] = handler[u]
         /\ (u \in attached' <=> u \in attached) /\ (u \in link' <=> u \in link)
  BY <1>2, <1>3, <1>7
<1>13. /\ ResponsesInOrder(active'[w], responses'[w], handler'[w])
       /\ w \in attached' => RequestsInOrder(active'[w], requests'[w], responses'[w], handler'[w])
       /\ w \in link' /\ Range(responses'[w]) \subseteq Range(responses[w])
       /\ Range(results'[w]) = Range(results[w])
       /\ handler'[w] = handler[w]
  BY <1>1, <1>2, <1>5, <1>6, <1>7
<1> QED BY <1>7, <1>8, <1>9, <1>10, <1>11, <1>12, <1>13, ClientStep

\* A new lease is taken: every message about the job is of an earlier one.
LEMMA NewJobStep ==
  ASSUME WorkInv, NEW w \in Runners, w \in link, responses[w] # <<>>, NEW m, m = Head(responses[w]),
         m.type = "assignment", Took(w), SetEntry(w, m.job, NewEntry(m.lease)),
         Send(w, <<[type |-> "accepted", job |-> m.job, lease |-> m.lease]>>),
         UNCHANGED <<queue, token, stored, handler, executing, results, losses, history>>
  PROVE  WorkInv'
<1>1. /\ responses[w] \in Seq(Responses) /\ 1 \in DOMAIN responses[w] /\ responses[w][1] = m
      /\ m \in Responses /\ ResponseOK(w, m) /\ m.job \in Jobs
      /\ Range(Tail(responses[w])) \subseteq Range(responses[w])
  BY FirstResponse
<1>2. m.lease \in Nat /\ Unused(w, m.job, m.lease)
  BY <1>1 DEF Responses, Assignments, Answers, Acks, ResponseOK
<1>3. PICK e : e = NewEntry(m.lease)
  OBVIOUS
<1>4. /\ e \in Entries /\ e.lease = m.lease /\ e.phase = "awaitingAcceptance"
      /\ e.seq = 0 /\ e.chunk = 0
  BY <1>2, <1>3 DEF NewEntry, NoEntry, Entries, Phases
<1>5. EntryOK(w, m.job, e)
  BY <1>2, <1>4 DEF EntryOK, Unused, AwaitingPhases, Executed
<1>6. /\ active' \in [Runners -> [Jobs -> Entries]]
      /\ active'[w][m.job] = e
      /\ \A i \in Jobs : i # m.job => active'[w][i] = active[w][i]
      /\ \A u \in Runners \ {w} : active'[u] = active[u]
  BY <1>1, <1>3, <1>4, SetIs DEF WorkInv
<1>7. /\ responses' \in [Runners -> Seq(Responses)] /\ responses'[w] = Tail(responses[w])
      /\ \A u \in Runners \ {w} : responses'[u] = responses[u]
      /\ UNCHANGED <<link, attached>>
  BY TookIs
<1>8. PICK x : x = [type |-> "accepted", job |-> m.job, lease |-> m.lease]
  OBVIOUS
<1>9. x \in Requests /\ x.type = "accepted" /\ x.job = m.job /\ x.lease = m.lease
      /\ Named(x) = {<<m.job, m.lease>>}
  BY <1>1, <1>2, <1>8 DEF Requests, Transitions, Named
<1>10. RequestOK(w, x)
  <2>1. m.lease <= token[m.job]
    BY <1>1, <1>2 DEF Unused, Ours, WorkInv, WorkTypeOK
  <2> QED BY <1>9, <2>1 DEF RequestOK
<1>11. <<x>> \in Seq(Requests) /\ Range(<<x>>) = {x}
  BY <1>9, OneMessage
<1>12. /\ requests' \in [Runners -> Seq(Requests)]
       /\ \A u \in Runners \ {w} : requests'[u] = requests[u]
       /\ w \in attached => requests'[w] = requests[w] \o <<x>>
       /\ w \notin attached => requests'[w] = requests[w]
  BY <1>8, <1>11, SendIs DEF WorkInv
<1>13. requests[w] \in Seq(Requests)
  BY DEF WorkInv, WorkTypeOK
<1>14. \A y \in Range(requests'[w]) : y \in Range(requests[w]) \/ RequestOK(w, y)
  BY <1>10, <1>11, <1>12, <1>13, ConcatRange
<1>15. WorkTypeOK'
  BY <1>6, <1>7, <1>12 DEF WorkInv, WorkTypeOK, queue, history
<1>16. PICK F : F = active'[w]
  OBVIOUS
<1>17. /\ Assigns(Head(responses[w]), m.job) /\ F[m.job].lease = Head(responses[w]).lease
       /\ F[m.job].lease = m.lease /\ F[m.job].phase = "awaitingAcceptance"
       /\ \A j \in Jobs : j # m.job => F[j] = active[w][j]
  BY <1>4, <1>6, <1>16 DEF Assigns
<1>18. /\ ResponsesInOrder(F, Tail(responses[w]), handler[w])
       /\ \A q \in DOMAIN Tail(responses[w]) : ~Renews(Tail(responses[w])[q], m.job)
  <2>1. ResponsesInOrder(active[w], responses[w], handler[w])
    BY DEF WorkInv, MessagesOK
  <2>2. PICK R, E, h, i : R = responses[w] /\ E = active[w] /\ h = handler[w] /\ i = m.job
    OBVIOUS
  <2>3. /\ R \in Seq(Responses) /\ R # <<>> /\ ResponsesInOrder(E, R, h) /\ i \in Jobs
        /\ Assigns(Head(R), i) /\ F[i].lease = Head(R).lease
        /\ \A j \in Jobs : j # i => F[j] = E[j]
    BY <1>1, <1>17, <2>1, <2>2
  <2>4. ResponsesInOrder(F, Tail(R), h) /\ \A q \in DOMAIN Tail(R) : ~Renews(Tail(R)[q], i)
    BY ONLY <2>3, TakeAssigned
  <2> QED BY <2>2, <2>4
<1>19. ASSUME w \in attached
       PROVE  RequestsInOrder(F, requests[w] \o <<x>>, Tail(responses[w]), handler[w])
  <2>1. RequestsInOrder(active[w], requests[w], responses[w], handler[w])
    BY <1>19 DEF WorkInv, MessagesOK
  <2>2. /\ RequestsInOrder(F, requests[w], Tail(responses[w]), handler[w])
        /\ \A k \in DOMAIN requests[w] : <<m.job, F[m.job].lease>> \notin Named(requests[w][k])
    BY <1>1, <1>13, <1>17, <2>1, TakeAssignedBeside
  <2>3. \A l \in Named(x) :
          /\ F[l[1]].phase # "none" /\ l[2] = F[l[1]].lease
          /\ F[l[1]].phase = "awaitingAcceptance"
          /\ \A k \in DOMAIN requests[w] : ~(requests[w][k].type = "accepted" /\ l \in Named(requests[w][k]))
          /\ \A q \in DOMAIN Tail(responses[w]) : ~Renews(Tail(responses[w])[q], l[1])
    BY <1>9, <1>17, <1>18, <2>2
  <2>4. x.type # "started"
    BY <1>9
  <2> QED BY <1>9, <1>13, <1>18, <2>2, <2>3, <2>4, SendRequest
<1>20. \A i \in Jobs : EntryOK(w, i, active'[w][i])
  BY <1>5, <1>6, EntryKnown
<1>21. ASSUME NEW y \in Range(responses'[w]), active'[w][y.job].phase = "awaitingStart"
       PROVE  /\ active[w][y.job].phase = "awaitingStart"
              /\ active'[w][y.job].lease = active[w][y.job].lease
  <2>1. y \in Responses
    BY <1>1, <1>7, <1>21 DEF Range
  <2>2. y.job \in Jobs
    BY <2>1 DEF Responses, Assignments, Answers, Acks
  <2> QED BY <1>4, <1>6, <1>21, <2>2
<1>22. \A i \in Jobs :
         active'[w][i].phase = "running" /\ ~active'[w][i].lost /\ active'[w][i].chunk # 0 =>
           active[w][i].phase = "running" /\ ~active[w][i].lost /\ active[w][i].chunk # 0
  BY <1>4, <1>6
<1>23. \A u \in Runners \ {w} :
         /\ active'[u] = active[u] /\ results'[u] = results[u]
         /\ requests'[u] = requests[u] /\ responses'[u] = responses[u] /\ handler'[u] = handler[u]
         /\ (u \in attached' <=> u \in attached) /\ (u \in link' <=> u \in link)
  BY <1>6, <1>7, <1>12
<1>24. /\ ResponsesInOrder(active'[w], responses'[w], handler'[w])
       /\ w \in attached' => RequestsInOrder(active'[w], requests'[w], responses'[w], handler'[w])
       /\ w \in link' /\ Range(responses'[w]) \subseteq Range(responses[w])
       /\ Range(results'[w]) = Range(results[w])
       /\ handler'[w] = handler[w]
  BY <1>1, <1>7, <1>12, <1>16, <1>18, <1>19
<1> QED BY <1>14, <1>15, <1>20, <1>21, <1>22, <1>23, <1>24, ClientStep

\* An assignment is taken, or ends the session; it never repeats a lease that
\* the Runner has.
LEMMA TakeAssignmentStep ==
  ASSUME WorkInv, NEW w \in Runners, w \in link, responses[w] # <<>>, NEW m, m = Head(responses[w]),
         m.type = "assignment", TakeAssignment(w, m),
         UNCHANGED <<queue, token, stored, handler, results, losses, faults, ran, printed, cut, expired>>
  PROVE  WorkInv'
<1>1. /\ 1 \in DOMAIN responses[w] /\ responses[w][1] = m /\ m.job \in Jobs /\ m \in Responses
  BY FirstResponse
<1>2. active[w][m.job].lease # m.lease
  <2>1. Assigns(responses[w][1], m.job)
    BY <1>1 DEF Assigns
  <2>2. active[w][m.job].lease < m.lease
    BY <1>1, <2>1 DEF WorkInv, MessagesOK, ResponsesInOrder
  <2>3. m.lease \in Nat /\ active[w][m.job].lease \in Nat
    BY <1>1, EntryKnown DEF Entries, Responses, Assignments, Answers, Acks
  <2> QED BY <2>2, <2>3
<1>3. \/ /\ SetEntry(w, m.job, NewEntry(m.lease))
         /\ Send(w, <<[type |-> "accepted", job |-> m.job, lease |-> m.lease]>>)
         /\ Took(w) /\ UNCHANGED <<executing, begun>>
      \/ Break(w)
  BY <1>2 DEF TakeAssignment
<1>4. CASE Break(w)
  BY <1>4, LeaveStep DEF Break, history
<1>5. CASE /\ SetEntry(w, m.job, NewEntry(m.lease))
           /\ Send(w, <<[type |-> "accepted", job |-> m.job, lease |-> m.lease]>>)
           /\ Took(w) /\ UNCHANGED <<executing, begun>>
  BY <1>5, NewJobStep DEF history
<1> QED BY <1>3, <1>4, <1>5

\* A cancellation ends the local job.
LEMMA TakeCancelStep ==
  ASSUME WorkInv, NEW w \in Runners, w \in link, responses[w] # <<>>, NEW m, m = Head(responses[w]),
         SetEntry(w, m.job, NoEntry), Took(w),
         UNCHANGED <<queue, token, stored, handler, requests, executing, results, losses, history>>
  PROVE  WorkInv'
<1>1. NoEntry \in Entries /\ NoEntry.lease = 0 /\ NoEntry.phase = "none"
  BY DEF NoEntry, Entries, Phases
<1>2. EntryOK(w, m.job, NoEntry)
  BY DEF EntryOK, NoEntry, AwaitingPhases, Executed
<1> QED BY <1>1, <1>2, TakeStep

\* A chunk is acknowledged: it is stored, so the log of the job is complete up
\* to what was printed.
LEMMA TakeLogAckStep ==
  ASSUME WorkInv, NEW w \in Runners, w \in link, responses[w] # <<>>, NEW m, m = Head(responses[w]),
         m.type = "logAck", TakeLogAck(w, m),
         UNCHANGED <<queue, token, stored, handler, results, losses, faults, ran, printed, cut, expired>>
  PROVE  WorkInv'
<1>1. m \in Responses /\ ResponseOK(w, m) /\ m.job \in Jobs
  BY FirstResponse
<1>2. PICK j : j = m.job
  OBVIOUS
<1>3. PICK d : d = active[w][j]
  OBVIOUS
<1>4. d \in Entries /\ EntryOK(w, j, d)
  BY <1>1, <1>2, <1>3, EntryKnown
<1>5. PICK e : e = [d EXCEPT !.chunk = IF @ = m.seq THEN 0 ELSE @]
  OBVIOUS
<1>6. active' = [active EXCEPT ![w][j].chunk = IF @ = m.seq THEN 0 ELSE @]
  BY <1>2 DEF TakeLogAck
<1>7. SetEntry(w, j, e)
  <2>1. active \in [Runners -> [Jobs -> Entries]]
    BY DEF WorkInv, WorkTypeOK
  <2> QED BY <1>3, <1>5, <1>6, <2>1 DEF SetEntry
<1>8. /\ e \in Entries /\ e.lease = d.lease /\ e.phase = d.phase /\ e.lost = d.lost
      /\ e.verdict = d.verdict /\ e.seq = d.seq
      /\ e = d \/ (e.chunk = 0 /\ d.chunk = m.seq)
  <2>1. CASE d.chunk = m.seq
    BY <1>4, <1>5, <2>1 DEF Entries
  <2>2. CASE d.chunk # m.seq
    BY <1>4, <1>5, <2>2 DEF Entries
  <2> QED BY <2>1, <2>2
<1>9. m.seq \in 1..Len(stored[j]) /\ Len(stored[j]) \in Nat /\ Len(printed[j]) \in Nat
      /\ Len(stored[j]) <= Len(printed[j])
  BY <1>1, <1>2 DEF ResponseOK, WorkInv, WorkTypeOK, StoreOK
<1>10. EntryOK(w, j, e)
  <2>1. CASE e = d
    BY <1>4, <2>1
  <2>2. CASE e # d
    <3>1. d.chunk = m.seq /\ e.chunk = 0 /\ d.chunk # 0 /\ d.phase \in Phases
      BY <1>4, <1>8, <1>9, <2>2 DEF Entries
    <3>2. d.phase \in Executed
      BY <1>4, <3>1 DEF EntryOK, NoEntry, Phases, AwaitingPhases, Executed
    <3>3. d.seq = Len(printed[j]) /\ d.seq = m.seq
      BY <1>4, <3>1, <3>2 DEF EntryOK
    <3>4. d.seq = Len(stored[j])
      BY <1>9, <3>3
    <3> QED BY <1>4, <1>8, <3>1, <3>2, <3>4 DEF EntryOK, AwaitingPhases, Executed
  <2> QED BY <2>1, <2>2
<1>11. UNCHANGED <<requests, executing, history>> /\ Took(w)
  BY DEF TakeLogAck, history
<1> QED BY <1>2, <1>3, <1>7, <1>8, <1>10, <1>11, TakeStep DEF AwaitingPhases

-----------------------------------------------------------------------------
(* Executions.                                                             *)

\* An earlier lease stays unused.
LEMMA KeepEarlier ==
  ASSUME WorkTypeOK, WorkTypeOK', Grows, NEW w, NEW j \in Jobs, NEW t, Unused(w, j, t),
         begun'[j] = begun[j] \/ t # token[j]
  PROVE  Unused(w, j, t)'
<1>1. CASE begun'[j] = begun[j]
  BY <1>1, KeepUnused
<1>2. CASE t # token[j]
  <2>1. token[j] \in Nat /\ token'[j] \in {token[j], token[j] + 1}
    BY DEF WorkTypeOK, Grows
  <2>2. t \in 1..token[j]
    BY DEF Unused, Ours
  <2>3. t \in 1..token'[j] /\ t # token'[j]
    BY <1>2, <2>1, <2>2
  <2> QED BY <2>3 DEF Unused, Ours
<1> QED BY <1>1, <1>2

\* A local job that is not executed.
LEMMA KeepIdle ==
  ASSUME WorkTypeOK, WorkTypeOK', Grows, NEW w, NEW j \in Jobs, NEW e, EntryOK(w, j, e),
         e.phase \notin Executed, begun'[j] = begun[j] \/ e.lease # token[j]
  PROVE  EntryOK(w, j, e)'
<1>1. e.phase # "none" => Ours(w, j, e.lease)'
  BY KeepOurs DEF EntryOK
<1>2. e.phase \in AwaitingPhases => Unused(w, j, e.lease)'
  BY KeepEarlier DEF EntryOK
<1> QED BY <1>1, <1>2 DEF EntryOK, Executed

\* A step that leaves the rows alone and goes forward with one job, j, which is
\* started for Runner w: what other Runners know, and what was said.
LEMMA OneJob ==
  ASSUME WorkInv, WorkTypeOK', NEW w \in Runners, NEW j \in Jobs,
         UNCHANGED <<queue, token, stored, handler, requests, attached, link>>,
         \A i \in Jobs : Progress(i), \A i \in Jobs : i # j => Steady(i),
         Authorized(w, j, token[j]), ~Ended(j),
         \A u \in Runners \ {w} :
           /\ active'[u] = active[u] /\ executing'[u] = executing[u] /\ results'[u] = results[u]
           /\ responses'[u] = responses[u]
  PROVE  /\ Grows
         /\ \A u \in Runners \ {w} : RunnerOK(u)' /\ MessagesOK(u)'
<1>1. Grows
  BY DEF Grows, queue, Status, OwnerOf
<1>2. OwnerOf(j) = w /\ w # NoRunner
  BY StoreAssumption DEF Authorized
<1>3. ASSUME NEW u \in Runners \ {w}, NEW t, Ours(u, j, t) PROVE t # token[j]
  BY <1>2, <1>3 DEF Ours
<1>4. ASSUME NEW u \in Runners \ {w} PROVE RunnerOK(u)'
  <2>1. ASSUME NEW i \in Jobs, NEW e, e = active'[u][i] PROVE EntryOK(u, i, e)'
    <3>1. e \in Entries /\ EntryOK(u, i, e)
      BY <1>4, <2>1, EntryKnown
    <3>2. CASE i # j
      BY <1>1, <2>1, <3>1, <3>2, KeepEntry DEF WorkInv
    <3>3. CASE i = j
      <4>1. e.phase \notin Executed
        BY <1>2, <1>4, <3>1, <3>3 DEF EntryOK, Authorized
      <4>2. e.phase # "none" => e.lease # token[j]
        BY <1>3, <1>4, <3>1, <3>3 DEF EntryOK
      <4>3. CASE e.phase # "none"
        BY <1>1, <3>1, <3>3, <4>1, <4>2, <4>3, KeepIdle DEF WorkInv
      <4>4. CASE e.phase = "none"
        BY <3>1, <4>4 DEF EntryOK, AwaitingPhases, Executed
      <4> QED BY <4>3, <4>4
    <3> QED BY <3>2, <3>3
  <2>2. ASSUME NEW e \in executing'[u] PROVE ExecutionOK(u, e)'
    <3>1. e \in executing[u] /\ e[1] \in Jobs
      BY <1>4, <2>2 DEF WorkInv, WorkTypeOK, Leases
    <3> QED BY <1>1, <1>4, <3>1, KeepExecution DEF WorkInv, RunnerOK
  <2>3. ASSUME NEW r \in Range(results'[u]) PROVE ResultOK(u, r)'
    <3>1. r \in Range(results[u])
      BY <1>4, <2>3
    <3>2. r \in Reports /\ ResultOK(u, r)
      BY <1>4, <3>1, SMTT(30) DEF WorkInv, WorkTypeOK, Range, RunnerOK
    <3>3. r.job \in Jobs
      BY <3>2 DEF Reports
    <3> QED BY <1>4, <3>2, <3>3 DEF ResultOK, Progress
  <2> QED BY <2>1, <2>2, <2>3 DEF RunnerOK
<1>5. ASSUME NEW u \in Runners \ {w} PROVE MessagesOK(u)'
  <2>1. ASSUME NEW m \in Range(requests'[u]) PROVE RequestOK(u, m)'
    BY <1>1, <1>5, <2>1, OldRequests
  <2>2. ASSUME NEW m \in Range(responses'[u]) PROVE ResponseOK(u, m)'
    <3>1. m \in Range(responses[u])
      BY <1>5, <2>2
    <3>2. m \in Responses /\ ResponseOK(u, m)
      BY <1>5, <3>1, SMTT(30) DEF WorkInv, WorkTypeOK, MessagesOK, Range
    <3>3. m.job \in Jobs
      BY <3>2 DEF Responses, Assignments, Answers, Acks
    <3>4. CASE m.job # j
      BY <1>1, <1>5, <3>2, <3>3, <3>4, KeepResponse DEF WorkInv
    <3>5. CASE m.job = j
      <4>1. m.type = "assignment" => Unused(u, j, m.lease)'
        <5>1. m.type = "assignment" => Unused(u, j, m.lease) /\ m.lease # token[j]
          BY <1>3, <1>5, <3>2, <3>5 DEF ResponseOK, Unused
        <5> QED BY <1>1, <5>1, KeepEarlier DEF WorkInv
      <4>2. ~(m.type = "renewed" /\ active'[u][j].phase = "awaitingStart")
        BY <1>2, <1>5, <3>2, <3>5 DEF ResponseOK, Authorized
      <4>3. m.type = "logAck" => m.seq \in 1..Len(stored'[j])
        BY <3>2, <3>5 DEF ResponseOK
      <4> QED BY <3>5, <4>1, <4>2, <4>3 DEF ResponseOK
    <3> QED BY <3>4, <3>5
  <2>3. ASSUME NEW h, h = handler'[u] PROVE HandlerOK(u, h)'
    <3>1. h \in Handlers /\ HandlerOK(u, h)
      BY <1>5, <2>3 DEF WorkInv, WorkTypeOK, MessagesOK
    <3>2. h.at = "issuing" => h.job \in Jobs /\ Unused(u, h.job, h.lease)
      BY <3>1 DEF Handlers, HandlerOK
    <3>3. h.at = "issuing" => begun'[h.job] = begun[h.job] \/ h.lease # token[h.job]
      BY <1>3, <1>5, <3>2 DEF Unused, Steady
    <3> QED BY <1>1, <3>2, <3>3, KeepEarlier DEF HandlerOK, WorkInv
  <2>4. /\ ResponsesInOrder(active'[u], responses'[u], handler'[u])
        /\ u \in attached' => RequestsInOrder(active'[u], requests'[u], responses'[u], handler'[u])
        /\ u \notin link' => responses'[u] = <<>> /\ u \notin attached'
    BY <1>5 DEF WorkInv, MessagesOK
  <2> QED BY <2>1, <2>2, <2>3, <2>4 DEF MessagesOK
<1> QED BY <1>1, <1>4, <1>5

\* The same for the messages of Runner w itself.
LEMMA OwnMessages ==
  ASSUME WorkInv, WorkTypeOK', NEW w \in Runners, NEW j \in Jobs, Grows,
         UNCHANGED <<queue, token, stored, handler, requests, attached, link>>,
         \A i \in Jobs : Progress(i), \A i \in Jobs : i # j => Steady(i),
         begun'[j] = begun[j] \/ active[w][j].lease = token[j],
         \A i \in Jobs : i # j => active'[w][i] = active[w][i],
         active'[w][j].phase # "awaitingStart", Range(responses'[w]) \subseteq Range(responses[w]),
         ResponsesInOrder(active'[w], responses'[w], handler[w]),
         w \in attached => RequestsInOrder(active'[w], requests[w], responses'[w], handler[w]),
         w \notin link => responses'[w] = <<>>
  PROVE  MessagesOK(w)'
<1>1. ASSUME NEW m \in Range(requests'[w]) PROVE RequestOK(w, m)'
  BY <1>1, OldRequests
<1>2. ResponsesInOrder(active[w], responses[w], handler[w])
  BY DEF WorkInv, MessagesOK
<1>3. ASSUME NEW m \in Range(responses'[w]) PROVE ResponseOK(w, m)'
  <2>1. m \in Range(responses[w])
    BY <1>3
  <2>2. m \in Responses /\ ResponseOK(w, m)
    BY <2>1 DEF WorkInv, WorkTypeOK, MessagesOK, Range
  <2>3. m.job \in Jobs
    BY <2>2 DEF Responses, Assignments, Answers, Acks
  <2>4. CASE m.job # j
    BY <2>2, <2>3, <2>4, KeepResponse DEF WorkInv
  <2>5. CASE m.job = j
    <3>1. ASSUME m.type = "assignment" PROVE Unused(w, j, m.lease)'
      <4>1. PICK p \in DOMAIN responses[w] : responses[w][p] = m
        BY <2>1 DEF Range
      <4>2. active[w][j].lease < m.lease
        BY <1>2, <2>5, <3>1, <4>1 DEF ResponsesInOrder, Assigns
      <4>3. m.lease <= token[j] /\ m.lease \in Nat /\ active[w][j].lease \in Nat /\ token[j] \in Nat
        BY <2>5, <3>1, <4>1, LeasesKnown DEF Assigns
      <4>4. begun'[j] = begun[j]
        BY <4>2, <4>3
      <4> QED BY <2>2, <2>5, <3>1, <4>4, KeepUnused DEF ResponseOK, WorkInv
    <3>2. m.type = "logAck" => m.seq \in 1..Len(stored'[j])
      BY <2>2, <2>5 DEF ResponseOK
    <3> QED BY <2>5, <3>1, <3>2 DEF ResponseOK
  <2> QED BY <2>4, <2>5
<1>4. ASSUME NEW h, h = handler'[w] PROVE HandlerOK(w, h)'
  <2>1. h \in Handlers /\ HandlerOK(w, h)
    BY <1>4 DEF WorkInv, WorkTypeOK, MessagesOK
  <2>2. h.at = "issuing" => h.job \in Jobs /\ h.lease \in Nat /\ Unused(w, h.job, h.lease)
    BY <2>1 DEF Handlers, HandlerOK
  <2>3. ASSUME h.at = "issuing", h.job = j PROVE begun'[j] = begun[j]
    <3>1. active[w][j].lease < h.lease
      BY <1>2, <1>4, <2>3 DEF ResponsesInOrder
    <3>2. h.lease <= token[j] /\ h.lease \in Nat
      BY <2>2, <2>3 DEF Unused, Ours, WorkInv, WorkTypeOK
    <3>3. active[w][j].lease \in Nat /\ token[j] \in Nat
      BY LeasesKnown
    <3> QED BY <3>1, <3>2, <3>3
  <2>4. h.at = "issuing" => begun'[h.job] = begun[h.job]
    BY <2>2, <2>3 DEF Steady
  <2> QED BY <2>2, <2>4, KeepUnused DEF HandlerOK, WorkInv
<1>5. /\ ResponsesInOrder(active'[w], responses'[w], handler'[w])
      /\ w \in attached' => RequestsInOrder(active'[w], requests'[w], responses'[w], handler'[w])
      /\ w \notin link' => responses'[w] = <<>> /\ w \notin attached'
  BY DEF WorkInv, MessagesOK
<1> QED BY <1>1, <1>3, <1>4, <1>5 DEF MessagesOK

\* The local jobs other than j, and the results, when none is of j.
LEMMA OwnRunner ==
  ASSUME WorkInv, WorkTypeOK', NEW w \in Runners, NEW j \in Jobs, Grows,
         \A i \in Jobs : Progress(i), \A i \in Jobs : i # j => Steady(i), ~Ended(j),
         \A i \in Jobs : i # j => active'[w][i] = active[w][i], results'[w] = results[w],
         NEW f, f = active'[w][j], EntryOK(w, j, f)',
         \A e \in executing'[w] \ executing[w] : ExecutionOK(w, e)'
  PROVE  RunnerOK(w)'
<1>1. ASSUME NEW i \in Jobs, NEW e, e = active'[w][i] PROVE EntryOK(w, i, e)'
  <2>1. CASE i = j
    BY <1>1, <2>1
  <2>2. CASE i # j
    <3>1. e \in Entries /\ EntryOK(w, i, e)
      BY <1>1, <2>2, EntryKnown
    <3> QED BY <2>2, <3>1, KeepEntry DEF WorkInv
  <2> QED BY <2>1, <2>2
<1>2. ASSUME NEW e \in executing'[w] PROVE ExecutionOK(w, e)'
  <2>1. CASE e \in executing[w]
    <3>1. e[1] \in Jobs
      BY <2>1 DEF WorkInv, WorkTypeOK, Leases
    <3> QED BY <2>1, <3>1, KeepExecution DEF WorkInv, RunnerOK
  <2> QED BY <1>2, <2>1
<1>3. ASSUME NEW r \in Range(results'[w]) PROVE ResultOK(w, r)'
  <2>1. r \in Range(results[w])
    BY <1>3
  <2>2. r \in Reports /\ ResultOK(w, r)
    BY <2>1 DEF WorkInv, WorkTypeOK, Range, RunnerOK
  <2>3. r.job \in Jobs /\ r.job # j
    BY <2>2 DEF Reports, ResultOK
  <2> QED BY <2>2, <2>3 DEF ResultOK, Progress
<1> QED BY <1>1, <1>2, <1>3 DEF RunnerOK

\* The rows of the jobs other than j.
LEMMA OtherRows ==
  ASSUME WorkInv, WorkTypeOK', NEW j \in Jobs, Grows, UNCHANGED <<queue, token, stored>>,
         \A i \in Jobs : Progress(i), \A i \in Jobs : i # j => Steady(i)
  PROVE  AbsentOK' /\ \A i \in Jobs : i # j => StoreOK(i)'
<1>1. \A i \in Jobs : Status(i)' = Status(i) /\ stored'[i] = stored[i]
  BY DEF Status, queue
<1>2. AbsentOK'
  BY DEF WorkInv, AbsentOK, queue
<1> QED BY <1>1, <1>2, KeepStore DEF WorkInv

\* A local job d of job j becomes e: its execution begins.
Begins(w, j, d, e) ==
  /\ d = active[w][j] /\ d.phase = "awaitingStart"
  /\ e = [d EXCEPT !.phase = "running"] /\ SetEntry(w, j, e)
  /\ executing' = [executing EXCEPT ![w] = @ \cup {<<j, d.lease>>}]
  /\ begun' = [begun EXCEPT ![j] = @ + 1]

\* The accepted start begins the execution.
LEMMA BeginStep ==
  ASSUME WorkInv, NEW w \in Runners, w \in link, responses[w] # <<>>, NEW m, m = Head(responses[w]),
         m.type = "renewed", Took(w), NEW j \in Jobs, j = m.job, NEW d, NEW e, Begins(w, j, d, e),
         UNCHANGED <<queue, token, stored, handler, requests, results, losses, ran, printed, cut, expired>>
  PROVE  WorkInv'
<1>1. /\ responses[w] \in Seq(Responses) /\ ResponseOK(w, m) /\ m.job \in Jobs
      /\ Range(Tail(responses[w])) \subseteq Range(responses[w])
  BY FirstResponse
<1>2. d = active[w][j] /\ d.phase = "awaitingStart"
  BY DEF Begins
<1>3. d \in Entries /\ EntryOK(w, j, d) /\ d.lease \in Nat
  BY <1>2, EntryKnown DEF Entries
<1>4. Authorized(w, j, d.lease) /\ token[j] = d.lease /\ begun[j] = 0
  BY <1>1, <1>2, <1>3 DEF ResponseOK, Authorized, EntryOK, AwaitingPhases, Unused
<1>5. e = [d EXCEPT !.phase = "running"] /\ SetEntry(w, j, e)
  BY DEF Begins
<1>6. /\ e \in Entries /\ e.phase = "running" /\ e.lease = d.lease /\ e.seq = d.seq
      /\ e.chunk = d.chunk /\ d.seq = 0 /\ d.chunk = 0
  BY <1>2, <1>3, <1>5 DEF Entries, Phases, EntryOK, AwaitingPhases
<1>7. /\ active' \in [Runners -> [Jobs -> Entries]]
      /\ active'[w][j] = e
      /\ \A i \in Jobs : i # j => active'[w][i] = active[w][i]
      /\ \A u \in Runners \ {w} : active'[u] = active[u]
  BY <1>5, <1>6, SetIs DEF WorkInv
<1>8. /\ responses' \in [Runners -> Seq(Responses)] /\ responses'[w] = Tail(responses[w])
      /\ \A u \in Runners \ {w} : responses'[u] = responses[u]
      /\ UNCHANGED <<link, attached>>
  BY TookIs
<1>9. /\ executing' \in [Runners -> SUBSET Leases]
      /\ executing'[w] = executing[w] \cup {<<j, d.lease>>}
      /\ \A u \in Runners \ {w} : executing'[u] = executing[u]
  <2>1. executing' = [executing EXCEPT ![w] = @ \cup {<<j, d.lease>>}]
    BY DEF Begins
  <2>2. executing \in [Runners -> SUBSET Leases] /\ <<j, d.lease>> \in Leases
    BY <1>3 DEF WorkInv, WorkTypeOK, Leases
  <2> QED BY <2>1, <2>2
<1>10. /\ begun' \in [Jobs -> {0, 1}] /\ begun'[j] = 1
       /\ \A i \in Jobs : i # j => begun'[i] = begun[i]
  <2>1. begun' = [begun EXCEPT ![j] = @ + 1]
    BY DEF Begins
  <2>2. begun \in [Jobs -> {0, 1}]
    BY DEF WorkInv, WorkTypeOK
  <2> QED BY <1>4, <2>1, <2>2
<1>11. WorkTypeOK'
  BY <1>7, <1>8, <1>9, <1>10 DEF WorkInv, WorkTypeOK, queue
<1>12. ~Ended(j)
  BY <1>4 DEF Ended
<1>13. ASSUME NEW i \in Jobs PROVE Progress(i) /\ (i # j => Steady(i))
  <2>1. ASSUME Ended(i) PROVE Ended(i)'
    <3>1. i # j /\ begun'[i] = 1
      BY <1>10, <1>12, <2>1 DEF Ended
    <3>2. ASSUME NEW u \in Runners, NEW x \in executing'[u] PROVE x[1] # i
      BY <1>9, <2>1, <3>1, <3>2 DEF Ended
    <3> QED BY <3>1, <3>2 DEF Ended
  <2>2. StoreOK(i) /\ Len(printed[i]) \in Nat /\ Len(stored[i]) \in Nat
    BY DEF WorkInv, WorkTypeOK
  <2> QED BY <1>10, <2>1, <2>2 DEF Progress, Steady, StoreOK
<1>14. /\ Grows
       /\ \A u \in Runners \ {w} : RunnerOK(u)' /\ MessagesOK(u)'
  BY <1>4, <1>7, <1>8, <1>9, <1>11, <1>12, <1>13, OneJob
<1>15. AbsentOK' /\ \A i \in Jobs : i # j => StoreOK(i)'
  BY <1>11, <1>13, <1>14, OtherRows
<1>16. StoreOK(j) /\ Len(printed[j]) = 0 /\ Len(stored[j]) = 0
  <2>1. StoreOK(j) /\ Len(stored[j]) \in Nat
    BY DEF WorkInv, WorkTypeOK
  <2>2. Len(printed[j]) = 0
    BY <1>4, <2>1 DEF StoreOK
  <2>3. Len(stored[j]) <= Len(printed[j])
    BY <2>1 DEF StoreOK
  <2> QED BY <2>1, <2>2, <2>3
<1>17. Authorized(w, j, d.lease)'
  BY <1>4, <1>14, KeepAuthorized
<1>18. StoreOK(j)'
  <2>1. Status(j)' = Status(j) /\ Status(j) # "succeeded" /\ Status(j) \in Past
    BY <1>4, <1>12, <1>16 DEF StoreOK, Authorized, Status, queue
  <2> QED BY <1>10, <1>16, <2>1 DEF StoreOK
<1>19. EntryOK(w, j, e)'
  <2>1. Ours(w, j, e.lease)'
    <3>1. Ours(w, j, d.lease)
      BY <1>2, <1>3 DEF EntryOK
    <3>2. Ours(w, j, d.lease)'
      BY <1>11, <1>14, <3>1, KeepOurs DEF WorkInv
    <3> QED BY <1>6, <3>2
  <2>2. /\ Authorized(w, j, e.lease)' /\ begun'[j] = 1
        /\ e.seq = Len(printed'[j]) /\ e.chunk \in {0, e.seq}
        /\ e.seq <= Len(stored'[j]) + 1 /\ e.seq = Len(stored'[j])
    BY <1>6, <1>10, <1>16, <1>17
  <2> QED BY <1>6, <2>1, <2>2 DEF EntryOK, AwaitingPhases, Executed
<1>20. RunnerOK(w)'
  <2>1. ASSUME NEW x \in executing'[w] \ executing[w] PROVE ExecutionOK(w, x)'
    <3>1. x[1] = j /\ x[2] = d.lease
      BY <1>9, <2>1
    <3> QED BY <1>10, <1>17, <3>1 DEF ExecutionOK
  <2> QED BY <1>7, <1>11, <1>12, <1>13, <1>14, <1>19, <2>1, OwnRunner
<1>21. PICK F : F = active'[w]
  OBVIOUS
<1>22. /\ ResponsesInOrder(F, Tail(responses[w]), handler[w])
       /\ w \in attached => RequestsInOrder(F, requests[w], Tail(responses[w]), handler[w])
  <2>1. F[m.job].lease = active[w][m.job].lease /\ F[m.job].phase = "running"
        /\ \A i \in Jobs : i # m.job => F[i] = active[w][i]
    BY <1>2, <1>6, <1>7, <1>21
  <2>2. active[w][m.job].phase = "awaitingStart"
    BY <1>2
  <2> QED BY <2>1, <2>2, TakeMove
<1>23. active'[w][j].phase # "awaitingStart" /\ active[w][j].lease = token[j]
  BY <1>2, <1>4, <1>6, <1>7
<1>24. MessagesOK(w)'
  BY <1>1, <1>7, <1>8, <1>11, <1>13, <1>14, <1>21, <1>22, <1>23, OwnMessages
<1> QED BY <1>11, <1>14, <1>15, <1>18, <1>20, <1>24 DEF WorkInv

\* A renewal moves the local job on: to its start, into its execution, or to
\* the completion that is sent again.
LEMMA TakeRenewalStep ==
  ASSUME WorkInv, NEW w \in Runners, w \in link, responses[w] # <<>>, NEW m, m = Head(responses[w]),
         m.type = "renewed", TakeRenewal(w, m),
         UNCHANGED <<queue, token, stored, handler, results, losses, faults, ran, printed, cut, expired>>
  PROVE  WorkInv'
<1>1. m.job \in Jobs
  BY FirstResponse
<1>2. PICK j \in Jobs : j = m.job
  BY <1>1
<1>3. PICK d : d = active[w][j]
  OBVIOUS
<1>4. d \in Entries /\ EntryOK(w, j, d) /\ d.phase \in Phases /\ d.lost \in BOOLEAN /\ d.lease \in Nat
  BY <1>2, <1>3, EntryKnown DEF Entries
<1>5. Renews(m, m.job)
  BY DEF Renews
<1>6. CASE d.phase = "none"
  <2>1. ~d.lost
    BY <1>4, <1>6 DEF EntryOK, NoEntry
  <2>2. Break(w)
    BY <1>2, <1>3, <1>6, <2>1 DEF TakeRenewal
  <2> QED BY <2>2, LeaveStep DEF Break, history
<1>7. CASE d.phase # "none" /\ d.lost
  <2>1. SetEntry(w, j, NoEntry) /\ Took(w) /\ UNCHANGED <<requests, executing, begun>>
    BY <1>2, <1>3, <1>7 DEF TakeRenewal
  <2> QED BY <1>2, <2>1, TakeCancelStep DEF history
<1>8. CASE d.phase = "awaitingAcceptance" /\ ~d.lost
  <2>1. PICK e : e = [d EXCEPT !.phase = "awaitingStart"]
    OBVIOUS
  <2>2. PICK x : x = [type |-> "started", job |-> j, lease |-> d.lease]
    OBVIOUS
  <2>3. SetEntry(w, j, e) /\ Send(w, <<x>>) /\ Took(w) /\ UNCHANGED <<executing, begun>>
    BY <1>2, <1>3, <1>8, <2>1, <2>2 DEF TakeRenewal
  <2>4. /\ e \in Entries /\ e.phase = "awaitingStart" /\ e.lease = d.lease /\ e.seq = d.seq
        /\ e.chunk = d.chunk
    BY <1>4, <2>1 DEF Entries, Phases
  <2>5. EntryOK(w, j, e)
    BY <1>4, <1>8, <2>4 DEF EntryOK, AwaitingPhases, Executed
  <2>6. x \in Requests /\ x.type = "started" /\ x.job = j /\ x.lease = d.lease /\ Named(x) = {<<j, d.lease>>}
    BY <1>4, <2>2 DEF Requests, Transitions, Named
  <2>7. RequestOK(w, x)
    <3>1. d.lease <= token[j]
      BY <1>3, LeasesKnown
    <3> QED BY <2>6, <3>1 DEF RequestOK
  <2>8. UNCHANGED <<queue, token, stored, handler, executing, results, losses, history>>
    BY <2>3 DEF history
  <2>9. \E y \in Requests :
          /\ Send(w, <<y>>) /\ RequestOK(w, y) /\ y.type # "accepted"
          /\ Named(y) = {<<m.job, e.lease>>} /\ e.phase \notin {"none", "awaitingAcceptance"}
    BY <1>2, <2>3, <2>4, <2>6, <2>7
  <2>10. active[w][m.job] = d /\ "awaitingAcceptance" \in AwaitingPhases
    BY <1>2, <1>3 DEF AwaitingPhases
  <2> QED BY <1>2, <1>5, <1>8, <2>3, <2>4, <2>5, <2>8, <2>9, <2>10, TakeStep
<1>9. CASE d.phase = "awaitingStart" /\ ~d.lost
  <2>1. PICK e : e = [d EXCEPT !.phase = "running"]
    OBVIOUS
  <2>2. Begins(w, j, d, e) /\ Took(w) /\ UNCHANGED requests
    BY <1>2, <1>3, <1>9, <2>1 DEF TakeRenewal, Begins
  <2> QED BY <1>2, <2>2, BeginStep
<1>10. SetEntry(w, j, d) <=> UNCHANGED active
  <2>1. active \in [Runners -> [Jobs -> Entries]]
    BY DEF WorkInv, WorkTypeOK
  <2>2. [active EXCEPT ![w][j] = d] = active
    BY <1>3, <2>1
  <2> QED BY <2>2 DEF SetEntry
<1>11. CASE d.phase = "running" /\ ~d.lost
  <2>1. Took(w) /\ UNCHANGED <<requests, active, executing, begun>>
    BY <1>2, <1>3, <1>11 DEF TakeRenewal
  <2>2. UNCHANGED <<queue, token, stored, handler, executing, results, losses, history>>
    BY <2>1 DEF history
  <2>3. SetEntry(w, m.job, d) /\ EntryOK(w, m.job, d) /\ active[w][m.job] = d
    BY <1>2, <1>3, <1>4, <1>10, <2>1
  <2> QED BY <1>4, <1>11, <2>1, <2>2, <2>3, TakeStep
<1>12. CASE d.phase = "completed" /\ ~d.lost
  <2>1. PICK x : x = Completion(j, d)
    OBVIOUS
  <2>2. Send(w, <<x>>) /\ Took(w) /\ UNCHANGED <<active, executing, begun>>
    BY <1>2, <1>3, <1>12, <2>1 DEF TakeRenewal, Resend
  <2>3. /\ d.verdict \in Q!JobResults /\ Authorized(w, j, d.lease) /\ Ended(j)
        /\ d.verdict = "succeeded" => Complete(j)
    BY <1>4, <1>12 DEF EntryOK, Executed
  <2>4. /\ x \in Requests /\ x.type = "completed" /\ x.job = j /\ x.lease = d.lease
        /\ x.verdict = d.verdict /\ Named(x) = {<<j, d.lease>>}
    BY <1>4, <2>1, <2>3 DEF Completion, Requests, Completions, Named
  <2>5. RequestOK(w, x)
    BY <2>3, <2>4 DEF RequestOK
  <2>6. \E y \in Requests :
          /\ Send(w, <<y>>) /\ RequestOK(w, y) /\ y.type # "accepted"
          /\ Named(y) = {<<m.job, d.lease>>} /\ d.phase \notin {"none", "awaitingAcceptance"}
    BY <1>2, <1>12, <2>2, <2>4, <2>5
  <2>7. UNCHANGED <<queue, token, stored, handler, executing, results, losses, history>>
    BY <2>2 DEF history
  <2>8. SetEntry(w, m.job, d) /\ EntryOK(w, m.job, d) /\ active[w][m.job] = d
    BY <1>2, <1>3, <1>4, <1>10, <2>2
  <2> QED BY <1>4, <1>12, <2>2, <2>6, <2>7, <2>8, TakeStep
<1> QED BY <1>4, <1>6, <1>7, <1>8, <1>9, <1>11, <1>12 DEF Phases

\* handleResponse.
LEMMA ReceiveStep ==
  ASSUME WorkInv, NEW w \in Runners, Receive(w) PROVE WorkInv'
<1>1. PICK m : m = Head(responses[w])
  OBVIOUS
<1>2. /\ w \in link /\ responses[w] # <<>>
      /\ UNCHANGED <<queue, token, stored, handler, results, losses, faults, ran, printed, cut, expired>>
  BY DEF Receive
<1>3. m \in Responses
  BY <1>1, <1>2, FirstResponse
<1>4. m.type \in {"assignment", "renewed", "logAck", "cancel"}
  BY <1>3 DEF Responses, Assignments, Answers, Acks
<1>5. CASE m.type = "assignment"
  <2>1. TakeAssignment(w, m)
    BY <1>1, <1>5 DEF Receive
  <2> QED BY <1>1, <1>2, <1>5, <2>1, TakeAssignmentStep
<1>6. CASE m.type = "renewed"
  <2>1. TakeRenewal(w, m)
    BY <1>1, <1>6 DEF Receive
  <2> QED BY <1>1, <1>2, <1>6, <2>1, TakeRenewalStep
<1>7. CASE m.type = "logAck"
  <2>1. TakeLogAck(w, m)
    BY <1>1, <1>7 DEF Receive
  <2> QED BY <1>1, <1>2, <1>7, <2>1, TakeLogAckStep
<1>8. CASE m.type = "cancel"
  <2>1. TakeCancel(w, m)
    BY <1>1, <1>8 DEF Receive
  <2> QED BY <1>1, <1>2, <2>1, TakeCancelStep DEF TakeCancel, history
<1> QED BY <1>4, <1>5, <1>6, <1>7, <1>8

\* logWriter.Write: the chunk before is stored, and only the Runner with the
\* started lease prints.
LEMMA WriteStep ==
  ASSUME WorkInv, NEW w \in Runners, NEW j \in Jobs, WriteLog(w, j) PROVE WorkInv'
<1>1. PICK d : d = active[w][j]
  OBVIOUS
<1>a. PICK b : /\ b \in NextBodies(d)
               /\ SetEntry(w, j, [d EXCEPT !.seq = @ + 1, !.chunk = d.seq + 1, !.last = b])
               /\ printed' = [printed EXCEPT ![j] = Append(@, b)]
  BY <1>1 DEF WriteLog
<1>0. b \in Bodies
  BY <1>a DEF NextBodies, Bodies
<1>2. PICK e : e = [d EXCEPT !.seq = @ + 1, !.chunk = d.seq + 1, !.last = b]
  OBVIOUS
<1>3. /\ <<j, d.lease>> \in executing[w] /\ d.phase # "none" /\ ~d.lost /\ d.chunk = 0
      /\ SetEntry(w, j, e) /\ printed' = [printed EXCEPT ![j] = Append(@, b)]
      /\ UNCHANGED <<queue, token, stored, handler, wire, executing, results, losses, sent, begun, ran>>
  BY <1>a, <1>1, <1>2 DEF WriteLog, Canceled
<1>4. /\ d \in Entries /\ EntryOK(w, j, d) /\ d.lease \in Nat /\ d.seq \in Nat /\ d.phase \in Phases
      /\ Len(printed[j]) \in Nat /\ Len(stored[j]) \in Nat
  BY <1>1, EntryKnown DEF Entries, WorkInv, WorkTypeOK
<1>5. Authorized(w, j, d.lease) /\ token[j] = d.lease /\ begun[j] = 1
  <2>1. PICK x : x = <<j, d.lease>>
    OBVIOUS
  <2>2. ExecutionOK(w, x) /\ x[1] = j /\ x[2] = d.lease
    BY <1>3, <2>1 DEF WorkInv, RunnerOK
  <2> QED BY <2>2 DEF ExecutionOK, Authorized
<1>6. ~Ended(j)
  BY <1>3 DEF Ended
<1>7. d.phase = "running"
  BY <1>3, <1>4, <1>5, <1>6 DEF EntryOK, Unused, Phases, AwaitingPhases
<1>8. d.seq = Len(printed[j]) /\ d.seq = Len(stored[j])
  BY <1>3, <1>4, <1>7 DEF EntryOK, Executed
<1>9. /\ e \in Entries /\ e.phase = "running" /\ e.lease = d.lease /\ e.seq = d.seq + 1
      /\ e.chunk = d.seq + 1
  <2>1. PICK n : n = d.seq + 1
    OBVIOUS
  <2>2. n \in Nat /\ e = [d EXCEPT !.seq = n, !.chunk = n, !.last = b]
    BY <1>2, <1>4, <2>1
  <2>3. e \in Entries /\ e.phase = d.phase /\ e.lease = d.lease /\ e.seq = n /\ e.chunk = n
    BY <1>0, <1>4, <2>2 DEF Entries
  <2> QED BY <1>7, <2>1, <2>3
<1>10. /\ active' \in [Runners -> [Jobs -> Entries]]
       /\ active'[w][j] = e
       /\ \A i \in Jobs : i # j => active'[w][i] = active[w][i]
       /\ \A u \in Runners \ {w} : active'[u] = active[u]
  BY <1>3, <1>9, SetIs DEF WorkInv
<1>11. /\ printed' \in [Jobs -> Seq(Bodies)] /\ Len(printed'[j]) = Len(printed[j]) + 1
       /\ \A i \in Jobs : i # j => Len(printed'[i]) = Len(printed[i])
  <2>1. printed \in [Jobs -> Seq(Bodies)]
    BY DEF WorkInv, WorkTypeOK
  <2>2. PICK s : s = Append(printed[j], b)
    OBVIOUS
  <2>3. s \in Seq(Bodies) /\ Len(s) = Len(printed[j]) + 1
    BY <1>0, <2>1, <2>2
  <2>4. printed' = [printed EXCEPT ![j] = s]
    BY <1>3, <2>1, <2>2
  <2> QED BY <2>1, <2>3, <2>4
<1>12. UNCHANGED <<requests, responses, attached, link>>
  BY <1>3 DEF wire
<1>13. WorkTypeOK'
  BY <1>3, <1>10, <1>11, <1>12 DEF WorkInv, WorkTypeOK, queue
<1>14. ASSUME NEW i \in Jobs PROVE Progress(i) /\ (i # j => Steady(i))
  <2>1. Ended(i) => Ended(i)' /\ i # j
    BY <1>3, <1>6 DEF Ended
  <2>2. Len(stored[i]) <= Len(printed[i]) /\ Len(printed[i]) \in Nat /\ Len(stored[i]) \in Nat
    BY DEF WorkInv, WorkTypeOK, StoreOK
  <2>3. Len(printed[i]) <= Len(printed'[i]) /\ Len(stored[i]) <= Len(printed'[i]) /\ (i # j => Len(printed'[i]) = Len(printed[i]))
    <3>1. CASE i # j
      BY <1>11, <2>2, <3>1
    <3>2. CASE i = j
      BY <1>11, <2>2, <3>2
    <3> QED BY <3>1, <3>2
  <2> QED BY <1>3, <2>1, <2>2, <2>3 DEF Progress, Steady
<1>15. /\ Grows
       /\ \A u \in Runners \ {w} : RunnerOK(u)' /\ MessagesOK(u)'
  BY <1>3, <1>5, <1>6, <1>10, <1>12, <1>13, <1>14, OneJob
<1>16. AbsentOK' /\ \A i \in Jobs : i # j => StoreOK(i)'
  BY <1>3, <1>13, <1>14, <1>15, OtherRows
<1>17. StoreOK(j)'
  <2>1. StoreOK(j) /\ Status(j)' = Status(j)
    BY <1>3 DEF WorkInv, Status, queue
  <2>2. Len(stored'[j]) <= Len(printed'[j])
    BY <1>14 DEF Progress
  <2> QED BY <1>3, <1>5, <1>6, <2>1, <2>2 DEF StoreOK
<1>18. EntryOK(w, j, e)'
  <2>1. Authorized(w, j, e.lease)'
    BY <1>5, <1>9, <1>15, KeepAuthorized
  <2>2. Ours(w, j, e.lease)'
    <3>1. Ours(w, j, d.lease)
      BY <1>4, <1>7 DEF EntryOK
    <3>2. Ours(w, j, d.lease)'
      BY <1>13, <1>15, <3>1, KeepOurs DEF WorkInv
    <3> QED BY <1>9, <3>2
  <2>3. /\ e.seq = Len(printed'[j]) /\ e.chunk \in {0, e.seq} /\ begun'[j] = 1 /\ e.chunk # 0
        /\ e.seq <= Len(stored'[j]) + 1
    BY <1>3, <1>4, <1>5, <1>8, <1>9, <1>11
  <2> QED BY <1>9, <2>1, <2>2, <2>3 DEF EntryOK, AwaitingPhases, Executed
<1>19. RunnerOK(w)'
  <2>1. executing'[w] \ executing[w] = {} /\ results'[w] = results[w]
    BY <1>3
  <2> QED BY <1>6, <1>10, <1>13, <1>14, <1>15, <1>18, <2>1, OwnRunner
<1>20. /\ requests[w] \in Seq(Requests) /\ responses[w] \in Seq(Responses) /\ handler[w] \in Handlers
       /\ \A i \in Jobs : active[w][i].lease \in Nat
  BY EntryKnown DEF WorkInv, WorkTypeOK, Entries
<1>21. PICK F : F = active'[w]
  OBVIOUS
<1>22. \A i \in Jobs : F[i].lease = active[w][i].lease /\ F[i].phase = active[w][i].phase
  BY <1>1, <1>7, <1>9, <1>10, <1>21
<1>23. ResponsesInOrder(F, responses[w], handler[w])
  <2>1. ResponsesInOrder(active[w], responses[w], handler[w])
    BY DEF WorkInv, MessagesOK
  <2>2. \A p \in DOMAIN responses[w] : responses[w][p].type = "assignment" => responses[w][p].lease \in Nat
    BY <1>20, AssignedLeases
  <2>3. handler[w].at = "issuing" => handler[w].lease \in Nat
    BY <1>20 DEF Handlers
  <2> QED BY <1>20, <1>22, <2>1, <2>2, <2>3, MoveEntries
<1>24. ASSUME w \in attached PROVE RequestsInOrder(F, requests[w], responses[w], handler[w])
  <2>1. RequestsInOrder(active[w], requests[w], responses[w], handler[w])
    BY <1>24 DEF WorkInv, MessagesOK
  <2> QED BY <1>20, <1>22, <2>1, MoveBeside
<1>25. /\ active'[w][j].phase # "awaitingStart" /\ begun'[j] = begun[j]
       /\ w \notin link => responses'[w] = <<>>
  BY <1>3, <1>9, <1>10, <1>12 DEF WorkInv, MessagesOK
<1>26. MessagesOK(w)'
  BY <1>3, <1>10, <1>12, <1>13, <1>14, <1>15, <1>21, <1>23, <1>24, <1>25, OwnMessages
<1> QED BY <1>13, <1>15, <1>16, <1>17, <1>19, <1>26 DEF WorkInv

\* executeJob returns: the execution was the only one of the job.
LEMMA FinishStep ==
  ASSUME WorkInv, NEW w \in Runners, NEW x \in executing[w], NEW v \in Q!JobResults,
         FinishExecution(w, x[1], x[2], v)
  PROVE  WorkInv'
<1>1. PICK j, t : j = x[1] /\ t = x[2]
  OBVIOUS
<1>2. x \in Leases /\ j \in Jobs /\ t \in Nat /\ x = <<j, t>>
  BY <1>1 DEF WorkInv, WorkTypeOK, Leases
<1>3. Authorized(w, j, t) /\ begun[j] = 1
  BY <1>1 DEF WorkInv, RunnerOK, ExecutionOK
<1>4. PICK r : r = [job |-> j, verdict |-> v]
  OBVIOUS
<1>5. r \in Reports /\ r.job = j /\ r.verdict = v
  BY <1>2, <1>4 DEF Reports
<1>6. /\ Canceled(w, j, t) \/ active[w][j].chunk = 0
      /\ executing' = [executing EXCEPT ![w] = @ \ {x}]
      /\ results' = [results EXCEPT ![w] = Append(@, r)] \/ UNCHANGED results
      /\ ran' = IF v = "succeeded" THEN ran \cup {j} ELSE ran
      /\ UNCHANGED <<queue, token, stored, handler, wire, active, losses, sent, begun, printed, cut, expired>>
  BY <1>1, <1>2, <1>4 DEF FinishExecution
<1>7. /\ executing' \in [Runners -> SUBSET Leases] /\ executing'[w] = executing[w] \ {x}
      /\ \A u \in Runners \ {w} : executing'[u] = executing[u]
      /\ ran' \subseteq Jobs /\ ran \subseteq ran' /\ (v = "succeeded" => j \in ran')
  BY <1>2, <1>6 DEF WorkInv, WorkTypeOK
<1>8. /\ results' \in [Runners -> Seq(Reports)]
      /\ \A u \in Runners \ {w} : results'[u] = results[u]
      /\ results'[w] = Append(results[w], r) \/ results'[w] = results[w]
      /\ results[w] \in Seq(Reports)
  <2>1. results \in [Runners -> Seq(Reports)] /\ Append(results[w], r) \in Seq(Reports)
    BY <1>5 DEF WorkInv, WorkTypeOK
  <2> QED BY <1>6, <2>1
<1>9. WorkTypeOK'
  BY <1>6, <1>7, <1>8 DEF WorkInv, WorkTypeOK, queue, wire
<1>10. UNCHANGED <<requests, responses, attached, link>>
  BY <1>6 DEF wire
<1>11. Quiet /\ AbsentOK' /\ \A i \in Jobs : StoreOK(i)'
  <2>1. StoreTypes
    BY DEF WorkInv, WorkTypeOK, StoreTypes
  <2>2. StoreStep({}, "none")
    BY <1>6, <2>1, StoreQuiet DEF queue
  <2>3. \A u \in Runners : executing'[u] \subseteq executing[u]
    BY <1>7
  <2> QED BY <1>6, <1>7, <1>9, <2>2, <2>3, Unmoved
<1>12. \A u \in Runners \ {w} : RunnerOK(u)' /\ MessagesOK(u)'
  BY <1>6, <1>7, <1>8, <1>9, <1>10, <1>11, Others
<1>13. MessagesOK(w)'
  BY <1>6, <1>9, <1>10, <1>11, KeepMessages DEF WorkInv
<1>14. Ended(j)'
  <2>1. ASSUME NEW u \in Runners, NEW y \in executing'[u], y[1] = j PROVE FALSE
    <3>1. y \in executing[u] /\ y \in Leases /\ (u = w => y # x)
      BY <1>7, <1>9, <2>1 DEF WorkTypeOK
    <3>2. Authorized(u, j, y[2])
      BY <2>1, <3>1 DEF WorkInv, RunnerOK, ExecutionOK
    <3>3. u = w /\ y[2] = t
      BY <1>3, <3>2 DEF Authorized
    <3>4. y = <<j, t>>
      BY <2>1, <3>1, <3>3 DEF Leases
    <3> QED BY <1>2, <3>1, <3>3, <3>4
  <2> QED BY <1>3, <1>6, <2>1 DEF Ended
<1>15. active[w][j].phase = "running" /\ ~active[w][j].lost => active[w][j].chunk = 0
  <2>1. PICK e : e = active[w][j]
    OBVIOUS
  <2>2. EntryOK(w, j, e)
    BY <1>2, <2>1, EntryKnown
  <2>3. e.phase = "running" => e.lease = t
    BY <1>3, <2>2 DEF EntryOK, Executed, Authorized
  <2> QED BY <1>6, <2>1, <2>3 DEF Canceled
<1>16. RunnerOK(w)'
  <2>1. ASSUME NEW i \in Jobs, NEW e, e = active'[w][i] PROVE EntryOK(w, i, e)'
    <3>1. e \in Entries /\ EntryOK(w, i, e)
      BY <1>6, <2>1, EntryKnown
    <3> QED BY <1>9, <1>11, <3>1, KeepEntry DEF WorkInv, Quiet
  <2>2. ASSUME NEW e \in executing'[w] PROVE ExecutionOK(w, e)'
    <3>1. e \in executing[w] /\ e[1] \in Jobs
      BY <1>7, <2>2 DEF WorkInv, WorkTypeOK, Leases
    <3> QED BY <1>11, <3>1, KeepExecution DEF WorkInv, RunnerOK, Quiet
  <2>3. ASSUME NEW y \in Range(results'[w]) PROVE ResultOK(w, y)'
    <3>1. y \in Range(results[w]) \/ y = r
      <4>1. CASE results'[w] = results[w]
        BY <2>3, <4>1
      <4>2. CASE results'[w] = Append(results[w], r)
        BY <1>5, <1>8, <2>3, <4>2 DEF Range
      <4> QED BY <1>8, <4>1, <4>2
    <3>2. CASE y \in Range(results[w])
      <4>1. y \in Reports /\ ResultOK(w, y)
        BY <3>2 DEF WorkInv, WorkTypeOK, Range, RunnerOK
      <4>2. y.job \in Jobs
        BY <4>1 DEF Reports
      <4> QED BY <1>6, <1>11, <4>1, <4>2 DEF ResultOK, Quiet, Progress
    <3>3. CASE y = r
      BY <1>5, <1>6, <1>7, <1>14, <1>15, <3>3 DEF ResultOK
    <3> QED BY <3>1, <3>2, <3>3
  <2> QED BY <2>1, <2>2, <2>3 DEF RunnerOK
<1> QED BY <1>9, <1>11, <1>12, <1>13, <1>16 DEF WorkInv

\* A result is reported with the log stored, or dropped with its lost job.
LEMMA ResultStep ==
  ASSUME WorkInv, NEW w \in Runners, HandleResult(w) PROVE WorkInv'
<1>1. /\ results[w] \in Seq(Reports) /\ results[w] # <<>> /\ results \in [Runners -> Seq(Reports)]
  BY DEF HandleResult, WorkInv, WorkTypeOK
<1>2. PICK r : r = Head(results[w])
  OBVIOUS
<1>3. r \in Reports /\ r \in Range(results[w]) /\ ResultOK(w, r)
      /\ Tail(results[w]) \in Seq(Reports) /\ Range(Tail(results[w])) \subseteq Range(results[w])
  <2>1. /\ Tail(results[w]) \in Seq(Reports) /\ Range(Tail(results[w])) \subseteq Range(results[w])
        /\ r \in Range(results[w])
    BY <1>1, <1>2, TailAt
  <2>2. r \in Reports
    BY <1>1, <2>1 DEF Range
  <2> QED BY <2>1, <2>2 DEF WorkInv, RunnerOK
<1>4. PICK j \in Jobs : j = r.job
  BY <1>3 DEF Reports
<1>5. r.verdict \in Q!JobResults
  BY <1>3 DEF Reports
<1>6. /\ results' = [results EXCEPT ![w] = Tail(@)] /\ w \in link
      /\ UNCHANGED <<queue, token, stored, handler, attached, responses, link, executing, losses, sent,
                     faults, history>>
  BY DEF HandleResult
<1>7. /\ results' \in [Runners -> Seq(Reports)] /\ results'[w] = Tail(results[w])
      /\ \A u \in Runners \ {w} : results'[u] = results[u]
  BY <1>1, <1>3, <1>6
<1>8. PICK d : d = active[w][j]
  OBVIOUS
<1>9. d \in Entries /\ EntryOK(w, j, d)
  BY <1>8, EntryKnown
<1>10. CASE ~Reportable(w)
  <2>1. PICK e : e = IF d.lost THEN NoEntry ELSE d
    OBVIOUS
  <2>2. active' = [active EXCEPT ![w][j] = IF @.lost THEN NoEntry ELSE @] /\ UNCHANGED requests
    BY <1>2, <1>4, <1>10 DEF HandleResult
  <2>3. SetEntry(w, j, e)
    <3>1. active \in [Runners -> [Jobs -> Entries]]
      BY DEF WorkInv, WorkTypeOK
    <3> QED BY <1>8, <2>1, <2>2, <3>1 DEF SetEntry
  <2>4. NoEntry \in Entries
    BY DEF NoEntry, Entries, Phases
  <2>5. e \in Entries /\ (e = NoEntry \/ e = active[w][j])
    BY <1>8, <1>9, <2>1, <2>4
  <2>6. UNCHANGED <<queue, token, stored, handler, wire, executing, history>> /\ losses' \in [Runners -> Seq(Jobs)]
    BY <1>6, <2>2 DEF wire, WorkInv, WorkTypeOK
  <2> QED BY <1>3, <1>7, <2>3, <2>5, <2>6, DropStep
<1>11. CASE Reportable(w)
  <2>1. PICK e : e = [d EXCEPT !.phase = "completed", !.verdict = r.verdict]
    OBVIOUS
  <2>2. PICK x : x = Completion(j, e)
    OBVIOUS
  <2>3. SetEntry(w, j, e) /\ Send(w, <<x>>)
    BY <1>2, <1>4, <1>8, <1>11, <2>1, <2>2 DEF HandleResult
  <2>4. d.phase = "running" /\ ~d.lost
    BY <1>2, <1>4, <1>8, <1>11 DEF Reportable
  <2>5. /\ e \in Entries /\ e.phase = "completed" /\ e.verdict = r.verdict /\ e.lease = d.lease
        /\ e.seq = d.seq /\ e.chunk = d.chunk
    BY <1>5, <1>9, <2>1 DEF Entries, Phases
  <2>6. d.chunk = 0 /\ Ended(j) /\ (r.verdict = "succeeded" => j \in ran)
    BY <1>3, <1>4, <1>8, <2>4 DEF ResultOK
  <2>7. /\ Authorized(w, j, d.lease) /\ begun[j] = 1 /\ d.seq = Len(printed[j]) /\ d.seq = Len(stored[j])
        /\ Ours(w, j, d.lease) /\ d.lease \in Nat
    BY <1>9, <2>4, <2>6 DEF EntryOK, Executed, Entries
  <2>8. r.verdict = "succeeded" => Complete(j)
    BY <2>6, <2>7 DEF Complete
  <2>9. EntryOK(w, j, e)
    BY <1>5, <1>9, <2>4, <2>5, <2>6, <2>7, <2>8 DEF EntryOK, AwaitingPhases, Executed
  <2>10. /\ x \in Requests /\ x.type = "completed" /\ x.job = j /\ x.lease = d.lease
         /\ x.verdict = r.verdict /\ Named(x) = {<<j, d.lease>>}
    BY <1>5, <2>2, <2>5, <2>7 DEF Completion, Requests, Completions, Named
  <2>11. RequestOK(w, x)
    BY <2>6, <2>7, <2>8, <2>10 DEF RequestOK
  <2>12. /\ active' \in [Runners -> [Jobs -> Entries]]
         /\ active'[w][j] = e
         /\ \A i \in Jobs : i # j => active'[w][i] = active[w][i]
         /\ \A u \in Runners \ {w} : active'[u] = active[u]
    BY <2>3, <2>5, SetIs DEF WorkInv
  <2>13. <<x>> \in Seq(Requests) /\ Range(<<x>>) = {x}
    BY <2>10, OneMessage
  <2>14. /\ requests' \in [Runners -> Seq(Requests)]
         /\ \A u \in Runners \ {w} : requests'[u] = requests[u]
         /\ w \in attached => requests'[w] = requests[w] \o <<x>>
         /\ w \notin attached => requests'[w] = requests[w]
    BY <2>3, <2>13, SendIs DEF WorkInv
  <2>15. /\ requests[w] \in Seq(Requests) /\ responses[w] \in Seq(Responses) /\ handler[w] \in Handlers
         /\ \A i \in Jobs : active[w][i].lease \in Nat
    BY EntryKnown DEF WorkInv, WorkTypeOK, Entries
  <2>16. \A y \in Range(requests'[w]) : y \in Range(requests[w]) \/ RequestOK(w, y)
    BY <2>11, <2>13, <2>14, <2>15, ConcatRange
  <2>17. WorkTypeOK'
    BY <1>6, <1>7, <2>12, <2>14 DEF WorkInv, WorkTypeOK, queue, history
  <2>18. PICK F : F = active'[w]
    OBVIOUS
  <2>19. \A i \in Jobs : /\ F[i].lease = active[w][i].lease
                         /\ F[i].phase = IF i = j THEN "completed" ELSE active[w][i].phase
    BY <1>8, <2>5, <2>12, <2>18
  <2>20. ResponsesInOrder(F, responses[w], handler[w])
    <3>1. ResponsesInOrder(active[w], responses[w], handler[w])
      BY DEF WorkInv, MessagesOK
    <3>2. \A p \in DOMAIN responses[w] : responses[w][p].type = "assignment" => responses[w][p].lease \in Nat
      BY <2>15, AssignedLeases
    <3>3. handler[w].at = "issuing" => handler[w].lease \in Nat
      BY <2>15 DEF Handlers
    <3> QED BY <2>15, <2>19, <3>1, <3>2, <3>3, MoveEntries
  <2>21. ASSUME w \in attached
         PROVE  RequestsInOrder(F, requests[w] \o <<x>>, responses[w], handler[w])
    <3>1. RequestsInOrder(active[w], requests[w], responses[w], handler[w])
      BY <2>21 DEF WorkInv, MessagesOK
    <3>2. \A i \in Jobs : F[i].phase # "none" =>
            /\ active[w][i].phase # "none" /\ F[i].lease = active[w][i].lease
            /\ F[i].phase = "awaitingAcceptance" => active[w][i].phase = "awaitingAcceptance"
            /\ active[w][i].phase = "awaitingAcceptance" => F[i].phase = "awaitingAcceptance"
      BY <1>8, <2>4, <2>19
    <3>3. RequestsInOrder(F, requests[w], responses[w], handler[w])
      BY <2>15, <3>1, <3>2, MoveBeside
    <3>4. \A l \in Named(x) : F[l[1]].phase = "completed" /\ l[2] = F[l[1]].lease
      BY <1>8, <2>10, <2>19
    <3> QED BY <2>10, <2>15, <2>20, <3>3, <3>4, SendRequest
  <2>22. \A i \in Jobs : EntryOK(w, i, active'[w][i])
    BY <2>9, <2>12, EntryKnown
  <2>23. ASSUME NEW y \in Range(responses[w]), active'[w][y.job].phase = "awaitingStart"
         PROVE  /\ active[w][y.job].phase = "awaitingStart"
                /\ active'[w][y.job].lease = active[w][y.job].lease
    <3>1. y \in Responses
      BY <2>15, <2>23 DEF Range
    <3>2. y.job \in Jobs
      BY <3>1 DEF Responses, Assignments, Answers, Acks
    <3> QED BY <2>18, <2>19, <2>23, <3>2
  <2>24. \A i \in Jobs :
           active'[w][i].phase = "running" /\ ~active'[w][i].lost /\ active'[w][i].chunk # 0 =>
             active[w][i].phase = "running" /\ ~active[w][i].lost /\ active[w][i].chunk # 0
    BY <2>5, <2>12
  <2>25. \A u \in Runners \ {w} :
           /\ active'[u] = active[u] /\ results'[u] = results[u]
           /\ requests'[u] = requests[u] /\ responses'[u] = responses[u] /\ handler'[u] = handler[u]
           /\ (u \in attached' <=> u \in attached) /\ (u \in link' <=> u \in link)
    BY <1>6, <1>7, <2>12, <2>14
  <2>26. /\ ResponsesInOrder(active'[w], responses'[w], handler'[w])
         /\ w \in attached' => RequestsInOrder(active'[w], requests'[w], responses'[w], handler'[w])
         /\ w \in link' /\ Range(responses'[w]) = Range(responses[w])
         /\ Range(results'[w]) \subseteq Range(results[w])
         /\ handler'[w] = handler[w]
    BY <1>3, <1>6, <1>7, <2>14, <2>18, <2>20, <2>21
  <2> QED BY <1>6, <2>16, <2>17, <2>22, <2>23, <2>24, <2>25, <2>26, ClientStep
<1> QED BY <1>10, <1>11

-----------------------------------------------------------------------------
(* The invariant of the specification.                                     *)

\* Before the first run is created nothing is leased, sent or executed.
LEMMA WorkInitInv == Init => WorkInv
<1> SUFFICES ASSUME Init PROVE WorkInv
  OBVIOUS
<1>1. NoEntry \in Entries /\ NoEntry.phase = "none" /\ NoEntry.lease = 0
  BY DEF NoEntry, Entries, Phases
<1>2. PICK h : h = [at |-> "none"]
  OBVIOUS
<1>3. h \in Handlers /\ h.at = "none"
  BY <1>2 DEF Handlers
<1>4. DOMAIN <<>> = {} /\ Range(<<>>) = {} /\ Len(<<>>) = 0
  BY DEF Range
<1>5. /\ runStatus = [r \in 1..RunLimit |-> "absent"]
      /\ jobStatus = [r \in 1..RunLimit |-> [k \in Keys |-> "none"]]
      /\ owner = [r \in 1..RunLimit |-> [k \in Keys |-> NoRunner]]
  BY DEF Init, Q!Init, Q!Runs, Q!NoJobs
<1>6. \A j \in Jobs : Status(j) = "none"
  BY <1>5 DEF Status, Jobs
<1>7. WorkTypeOK
  <2>1. /\ runStatus \in [1..RunLimit -> Q!RunStatuses]
        /\ jobStatus \in [1..RunLimit -> [Keys -> Q!JobStatuses]]
        /\ owner \in [1..RunLimit -> [Keys -> Runners \cup {NoRunner}]]
    BY <1>5 DEF Q!RunStatuses, Q!JobStatuses
  <2>2. /\ <<>> \in Seq(Rows) /\ <<>> \in Seq(Requests) /\ <<>> \in Seq(Responses)
        /\ <<>> \in Seq(Reports) /\ <<>> \in Seq(Jobs)
    OBVIOUS
  <2>3. handler = [w \in Runners |-> h]
    BY <1>2 DEF Init
  <2> QED BY <1>1, <1>3, <2>1, <2>2, <2>3 DEF Init, WorkTypeOK
<1>8. AbsentOK
  BY <1>5 DEF AbsentOK
<1>9. ASSUME NEW j \in Jobs PROVE StoreOK(j)
  <2>1. begun[j] = 0 /\ Len(printed[j]) = 0 /\ stored[j] = <<>>
    BY DEF Init
  <2> QED BY <1>4, <1>6, <2>1 DEF StoreOK
<1>10. ASSUME NEW w \in Runners PROVE RunnerOK(w)
  <2>1. /\ \A j \in Jobs : active[w][j] = NoEntry
        /\ executing[w] = {} /\ results[w] = <<>>
    BY DEF Init
  <2>2. \A j \in Jobs : EntryOK(w, j, NoEntry)
    BY <1>1 DEF EntryOK, AwaitingPhases, Executed
  <2> QED BY <1>4, <2>1, <2>2 DEF RunnerOK
<1>11. ASSUME NEW w \in Runners PROVE MessagesOK(w)
  <2>1. /\ requests[w] = <<>> /\ responses[w] = <<>> /\ handler[w] = h
        /\ \A j \in Jobs : active[w][j] = NoEntry
        /\ w \notin attached
    BY <1>2 DEF Init
  <2>2. HandlerOK(w, h)
    BY <1>3 DEF HandlerOK
  <2>3. ResponsesInOrder(active[w], responses[w], handler[w])
    BY <1>1, <1>3, <1>4, <2>1 DEF ResponsesInOrder
  <2> QED BY <1>4, <2>1, <2>2, <2>3 DEF MessagesOK
<1> QED BY <1>7, <1>8, <1>9, <1>10, <1>11 DEF WorkInv

\* Every step of the stream keeps the invariant: one case for each action.
LEMMA WorkStep == WorkInv /\ [Next]_vars => WorkInv'
<1> SUFFICES ASSUME WorkInv, [Next]_vars PROVE WorkInv'
  OBVIOUS
<1>1. CASE UNCHANGED vars
  <2>1. UNCHANGED rest /\ UNCHANGED <<runStatus, jobStatus, owner>>
    BY <1>1 DEF vars, rest, queue
  <2>2. StoreStep({}, "none")
    BY <2>1, StoreQuiet DEF WorkInv, WorkTypeOK, StoreTypes
  <2> QED BY <2>1, <2>2, StoreOnly
<1>2. ASSUME NEW w \in Runners,
             StreamEnds(w) \/ Disconnect(w)
      PROVE  WorkInv'
  BY <1>2, LeaveStep DEF StreamEnds, Disconnect
<1>3. ASSUME NEW w \in Runners,
             Connect(w) \/ OrphanEnds(w) \/ Crash(w)
      PROVE  WorkInv'
  BY <1>3, ConnectStep, OrphanStep, CrashStep
<1>4. ASSUME NEW w \in Runners,
             Serve(w) \/ Claim(w) \/ StopClaiming(w) \/ IssueCredential(w)
      PROVE  WorkInv'
  BY <1>4, ServeStep, ClaimStep, StopStep, IssueStep
<1>5. ASSUME NEW w \in Runners, NEW p \in BOOLEAN, CredentialUnavailable(w, p)
      PROVE  WorkInv'
  BY <1>5, CredentialStep
<1>6. ASSUME NEW w \in Runners,
             Receive(w) \/ AssignmentExpired(w) \/ HandleResult(w) \/ SendHeartbeat(w) \/ HandleLoss(w)
      PROVE  WorkInv'
  BY <1>6, ReceiveStep, ExpiredStep, ResultStep, SendHeartbeatStep, LossStep
<1>7. ASSUME NEW w \in Runners, NEW j \in Jobs,
             SendLog(w, j) \/ LocalDeadline(w, j) \/ WriteLog(w, j)
      PROVE  WorkInv'
  BY <1>7, SendLogStep, LoseStep, WriteStep
<1>8. ASSUME NEW w \in Runners, NEW e \in executing[w], NEW v \in Q!JobResults,
             FinishExecution(w, e[1], e[2], v)
      PROVE  WorkInv'
  BY <1>8, FinishStep
<1>9. CASE \/ \E r \in 1..RunLimit, c \in Kinds : Submit(r, c)
           \/ \E r \in 1..RunLimit : Cancel(r) \/ Recover(r)
           \/ \E j \in Jobs : StoreDeadline(j)
  BY <1>9, StoreSteps
<1>10. ASSUME NEW j \in Jobs, LogExpires(j) PROVE WorkInv'
  BY <1>10, ExpiryStep
<1> QED BY <1>1, <1>2, <1>3, <1>4, <1>5, <1>6, <1>7, <1>8, <1>9, <1>10 DEF Next

\* The invariant holds in every reachable state, whatever the number of
\* Runners, jobs, messages under way and failures.
THEOREM WorkInvariance == Spec => []WorkInv
BY WorkInitInv, WorkStep, PTL DEF Spec

-----------------------------------------------------------------------------
(* What follows from it.                                                   *)

\* A Runner executes a job only under the lease the store has started
\* (StartRunnerJob) and has not handed to anyone else since.
THEOREM ExecutionAlwaysAuthorized == Spec => []ExecutionAuthorized
<1>1. WorkInv => ExecutionAuthorized
  BY DEF WorkInv, RunnerOK, ExecutionOK, Authorized, OwnerOf, Past, ExecutionAuthorized
<1> QED BY <1>1, WorkInvariance, PTL

-----------------------------------------------------------------------------
(* What the logs hold.                                                     *)

\* What a log ends in.
EndOf(s) == IF s = <<>> THEN "none" ELSE s[Len(s)]

\* The rows hold what the Runner made of the output, of which the marker is the
\* last, if there is one.
BodyOK(j) ==
  /\ \A i \in DOMAIN stored[j] : stored[j][i].body = printed[j][i]
  /\ \A i \in DOMAIN printed[j] : printed[j][i] = "marker" => i = Len(printed[j])
  /\ j \in cut <=> EndOf(printed[j]) = "marker"

\* The log buffer knows what it made last.
EntryBody(e, j) ==
  /\ e.phase \in AwaitingPhases => e.last = "none"
  /\ e.phase \in Executed => e.last = EndOf(printed[j])

\* A chunk that is under way is the one that was made.
RequestBody(m) == m.type = "log" => m.body = printed[m.job][m.seq]

\* The invariant of the content, which rests on the one of the counts.
BodyInv ==
  /\ \A j \in Jobs : BodyOK(j)
  /\ \A w \in Runners, j \in Jobs : EntryBody(active[w][j], j)
  /\ \A w \in Runners : \A m \in Range(requests[w]) : RequestBody(m)

\* No chunk is sent in the step.
NoNewLogs == \A w \in Runners : \A m \in Range(requests'[w]) : m.type = "log" => m \in Range(requests[w])

\* The log buffer of a local job d of job j is that of e, or both are unused.
SameBuffer(d, e, j) ==
  \/ d = e
  \/ e.phase = "none"
  \/ /\ e.last = d.last
     /\ e.phase \in AwaitingPhases => d.phase \in AwaitingPhases
     /\ e.phase \in Executed => d.phase \in Executed
  \/ e.last = "none" /\ e.phase \in AwaitingPhases
  \/ e.last = "none" /\ printed[j] = <<>>

\* A step that writes and stores nothing.
LEMMA KeepBodies ==
  ASSUME BodyInv, UNCHANGED <<stored, printed, cut>>, NoNewLogs,
         \A w \in Runners, j \in Jobs : SameBuffer(active[w][j], active'[w][j], j)
  PROVE  BodyInv'
<1>1. \A j \in Jobs : BodyOK(j)'
  BY DEF BodyInv, BodyOK, EndOf
<1>2. ASSUME NEW w \in Runners, NEW j \in Jobs PROVE EntryBody(active[w][j], j)'
  <2>1. EntryBody(active[w][j], j) /\ SameBuffer(active[w][j], active'[w][j], j)
    BY DEF BodyInv
  <2> QED BY <2>1 DEF EntryBody, SameBuffer, EndOf, AwaitingPhases, Executed
<1>3. ASSUME NEW w \in Runners, NEW m \in Range(requests'[w]) PROVE RequestBody(m)'
  BY <1>3 DEF NoNewLogs, BodyInv, RequestBody
<1> QED BY <1>1, <1>2, <1>3 DEF BodyInv

\* The same, where the local jobs stay as they are.
LEMMA KeepLogs ==
  ASSUME BodyInv, UNCHANGED <<stored, printed, cut, active>>, NoNewLogs PROVE BodyInv'
BY KeepBodies DEF SameBuffer

\* Requests that stay, are dropped or are taken.
LEMMA FewerRequests ==
  ASSUME WorkInv, NEW w \in Runners,
         \/ UNCHANGED requests
         \/ requests' = [requests EXCEPT ![w] = <<>>]
         \/ requests[w] # <<>> /\ requests' = [requests EXCEPT ![w] = Tail(@)]
  PROVE  NoNewLogs
<1>1. requests \in [Runners -> Seq(Requests)]
  BY DEF WorkInv, WorkTypeOK
<1>2. CASE UNCHANGED requests
  BY <1>2 DEF NoNewLogs
<1>3. CASE requests' = [requests EXCEPT ![w] = <<>>]
  BY <1>1, <1>3 DEF NoNewLogs, Range
<1>4. CASE requests[w] # <<>> /\ requests' = [requests EXCEPT ![w] = Tail(@)]
  <2>1. Range(Tail(requests[w])) \subseteq Range(requests[w])
    BY <1>1, <1>4, TailAt
  <2> QED BY <1>1, <1>4, <2>1 DEF NoNewLogs
<1> QED BY <1>2, <1>3, <1>4

\* Requests sent that are not chunks.
LEMMA OtherRequests ==
  ASSUME WorkInv, NEW w \in Runners, NEW s \in Seq(Requests), Send(w, s),
         \A m \in Range(s) : m.type # "log"
  PROVE  NoNewLogs
<1>1. requests \in [Runners -> Seq(Requests)]
  BY DEF WorkInv, WorkTypeOK
<1>2. /\ \A u \in Runners \ {w} : requests'[u] = requests[u]
      /\ requests'[w] = requests[w] \o s \/ requests'[w] = requests[w]
  BY SendIs DEF WorkInv
<1>3. Range(requests[w] \o s) \subseteq Range(requests[w]) \cup Range(s)
  BY <1>1, ConcatRange
<1> QED BY <1>2, <1>3 DEF NoNewLogs

\* One of them, and none.
LEMMA OtherRequest ==
  ASSUME WorkInv, NEW w \in Runners, NEW m \in Requests, m.type # "log", Send(w, <<m>>)
  PROVE  NoNewLogs
<1>1. <<m>> \in Seq(Requests) /\ Range(<<m>>) = {m}
  BY OneMessage
<1> QED BY <1>1, OtherRequests

\* Nothing is sent.
LEMMA NoRequest ==
  ASSUME WorkInv, NEW w \in Runners, Send(w, <<>>) PROVE NoNewLogs
<1>1. <<>> \in Seq(Requests) /\ Range(<<>>) = {}
  BY DEF Range
<1> QED BY <1>1, OtherRequests

\* handleLog stores the chunk that was made.
LEMMA LogBodies ==
  ASSUME WorkInv, BodyInv, NEW w \in Runners, requests[w] # <<>>,
         NEW m, m = Head(requests[w]), m.type = "log", HandleLog(w, m),
         UNCHANGED <<link, client, faults, history>>
  PROVE  BodyInv'
<1>1. m \in Requests /\ RequestOK(w, m) /\ m \in Range(requests[w])
  BY FirstRequest, TailAt
<1>2. m \in Chunks /\ m.job \in Jobs /\ m.seq \in Nat
  BY <1>1 DEF Requests, Transitions, Completions, Chunks, Heartbeats
<1>3. CASE Refuse(w)
  <2>1. requests' = [requests EXCEPT ![w] = <<>>] /\ UNCHANGED <<stored, printed, cut, active>>
    BY <1>3 DEF Refuse, CloseStream, client, history
  <2> QED BY <2>1, FewerRequests, KeepLogs
<1>4. CASE ~Refuse(w)
  <2>1. PICK j, rows : j = m.job /\ rows = AppendLogChunk(stored[j], m)
    OBVIOUS
  <2>2. /\ rows # <<>> /\ stored' = [stored EXCEPT ![j] = rows]
        /\ requests' = [requests EXCEPT ![w] = Tail(@)]
        /\ UNCHANGED <<printed, cut, active>>
    BY <1>4, <2>1 DEF HandleLog, Handled, client, history
  <2>3. /\ j \in Jobs /\ stored \in [Jobs -> Seq(Rows)] /\ stored[j] \in Seq(Rows)
        /\ m.seq # 0 /\ m.body = printed[j][m.seq]
    BY <1>1, <1>2, <2>1 DEF WorkInv, WorkTypeOK, RequestOK, BodyInv, RequestBody
  <2>4. /\ rows \in Seq(Rows)
        /\ \/ rows = stored[j]
           \/ /\ Len(rows) = Len(stored[j]) + 1 /\ m.seq = Len(rows) /\ rows[Len(rows)] = Row(m)
              /\ \A i \in 1..Len(stored[j]) : rows[i] = stored[j][i]
    BY <1>2, <2>1, <2>2, <2>3, AppendedRows
  <2>5. stored'[j] = rows /\ \A i \in Jobs : i # j => stored'[i] = stored[i]
    BY <2>2, <2>3
  <2>6. \A n \in DOMAIN rows : rows[n].body = printed[j][n]
    <3>1. \A n \in 1..Len(stored[j]) : stored[j][n].body = printed[j][n]
      BY <2>3 DEF BodyInv, BodyOK
    <3>2. Len(stored[j]) \in Nat /\ Len(rows) \in Nat /\ DOMAIN rows = 1..Len(rows)
      BY <2>3, <2>4
    <3>3. Row(m).body = m.body
      BY DEF Row
    <3>4. CASE rows = stored[j]
      BY <3>1, <3>2, <3>4
    <3>5. CASE /\ Len(rows) = Len(stored[j]) + 1 /\ m.seq = Len(rows) /\ rows[Len(rows)] = Row(m)
               /\ \A i \in 1..Len(stored[j]) : rows[i] = stored[j][i]
      <4>1. \A n \in 1..Len(rows) : n \in 1..Len(stored[j]) \/ n = Len(rows)
        BY <3>2, <3>5
      <4> QED BY <2>3, <3>1, <3>2, <3>3, <3>5, <4>1
    <3> QED BY <2>4, <3>4, <3>5
  <2>7. ASSUME NEW i \in Jobs PROVE BodyOK(i)'
    <3>1. BodyOK(i)
      BY DEF BodyInv
    <3>2. \A n \in DOMAIN stored'[i] : stored'[i][n].body = printed[i][n]
      BY <2>5, <2>6, <3>1 DEF BodyOK
    <3> QED BY <2>2, <3>1, <3>2 DEF BodyOK, EndOf
  <2>8. ASSUME NEW u \in Runners, NEW i \in Jobs PROVE EntryBody(active[u][i], i)'
    BY <2>2 DEF BodyInv, EntryBody, EndOf
  <2>9. ASSUME NEW u \in Runners, NEW x \in Range(requests'[u]) PROVE RequestBody(x)'
    <3>1. NoNewLogs
      BY <2>2, FewerRequests
    <3> QED BY <2>2, <2>9, <3>1 DEF NoNewLogs, BodyInv, RequestBody
  <2> QED BY <2>7, <2>8, <2>9 DEF BodyInv
<1> QED BY <1>3, <1>4

\* The handler of every other message stores no chunk.
LEMMA ServeBodies ==
  ASSUME WorkInv, BodyInv, NEW w \in Runners, Serve(w) PROVE BodyInv'
<1>1. PICK m : m = Head(requests[w])
  OBVIOUS
<1>2. requests[w] # <<>> /\ UNCHANGED <<link, client, faults, history>>
  BY DEF Serve
<1>3. m \in Requests
  BY <1>1, <1>2, FirstRequest
<1>4. m.type \in {"accepted", "started", "completed", "log", "heartbeat"}
  BY <1>3 DEF Requests, Transitions, Completions, Chunks, Heartbeats
<1>5. CASE m.type = "log"
  <2>1. HandleLog(w, m)
    BY <1>1, <1>5 DEF Serve
  <2> QED BY <1>1, <1>2, <1>5, <2>1, LogBodies
<1>6. CASE m.type \in {"accepted", "started", "completed", "heartbeat"}
  <2>1. /\ UNCHANGED stored
        /\ \/ requests' = [requests EXCEPT ![w] = <<>>]
           \/ requests' = [requests EXCEPT ![w] = Tail(@)]
    <3>1. CASE m.type = "accepted"
      BY <1>1, <3>1 DEF Serve, HandleAccepted, Refuse, CloseStream, Handled
    <3>2. CASE m.type = "started"
      BY <1>1, <3>2 DEF Serve, HandleStarted, Refuse, CloseStream, Handled
    <3>3. CASE m.type = "completed"
      BY <1>1, <3>3 DEF Serve, HandleCompletion, Refuse, CloseStream, Handled
    <3>4. CASE m.type = "heartbeat"
      BY <1>1, <3>4 DEF Serve, HandleHeartbeat
    <3> QED BY <1>6, <3>1, <3>2, <3>3, <3>4
  <2> QED BY <1>2, <2>1, FewerRequests, KeepLogs DEF client, history
<1> QED BY <1>4, <1>5, <1>6

\* The pending chunk is the last that was made.
LEMMA SendLogBodies ==
  ASSUME WorkInv, BodyInv, NEW w \in Runners, NEW j \in Jobs, SendLog(w, j) PROVE BodyInv'
<1>1. PICK e : e = active[w][j]
  OBVIOUS
<1>2. e \in Entries /\ EntryOK(w, j, e) /\ EntryBody(e, j)
  BY <1>1, EntryKnown DEF BodyInv
<1>3. PICK m : m = [type |-> "log", job |-> j, lease |-> e.lease, seq |-> e.chunk, body |-> e.last]
  OBVIOUS
<1>4. e.chunk # 0 /\ Send(w, <<m>>) /\ UNCHANGED <<stored, printed, cut, active>>
  BY <1>1, <1>3 DEF SendLog, history
<1>5. /\ e.lease \in Nat /\ e.chunk \in Nat /\ e.phase \in Phases /\ e.last \in {"none"} \cup Bodies
      /\ printed[j] \in Seq(Bodies)
  BY <1>2 DEF Entries, WorkInv, WorkTypeOK
<1>6. e.phase \in Executed
  BY <1>2, <1>4, <1>5 DEF EntryOK, NoEntry, Phases, AwaitingPhases, Executed
<1>7. m \in Requests /\ m.type = "log" /\ m.job = j /\ m.seq = e.chunk /\ m.body = e.last
  BY <1>3, <1>5 DEF Requests, Chunks
<1>8. e.chunk = Len(printed[j]) /\ e.last = EndOf(printed[j])
  BY <1>2, <1>4, <1>6 DEF EntryOK, EntryBody
<1>9. RequestBody(m)
  <2>1. printed[j] # <<>>
    BY <1>4, <1>5, <1>8
  <2> QED BY <1>7, <1>8, <2>1 DEF RequestBody, EndOf
<1>10. ASSUME NEW u \in Runners, NEW x \in Range(requests'[u]) PROVE RequestBody(x)'
  <2>1. <<m>> \in Seq(Requests) /\ Range(<<m>>) = {m}
    BY <1>7, OneMessage
  <2>2. /\ \A v \in Runners \ {w} : requests'[v] = requests[v]
        /\ requests'[w] = requests[w] \o <<m>> \/ requests'[w] = requests[w]
    BY <1>4, <2>1, SendIs DEF WorkInv
  <2>3. Range(requests[w] \o <<m>>) \subseteq Range(requests[w]) \cup {m}
    <3>1. requests[w] \in Seq(Requests)
      BY DEF WorkInv, WorkTypeOK
    <3> QED BY <2>1, <3>1, ConcatRange
  <2>4. x \in Range(requests[u]) \/ x = m
    BY <1>10, <2>2, <2>3
  <2>5. RequestBody(x)
    BY <1>9, <2>4 DEF BodyInv
  <2> QED BY <1>4, <2>5 DEF RequestBody
<1>11. \A i \in Jobs : BodyOK(i)'
  BY <1>4 DEF BodyInv, BodyOK, EndOf
<1>12. \A u \in Runners, i \in Jobs : EntryBody(active[u][i], i)'
  BY <1>4 DEF BodyInv, EntryBody, EndOf
<1> QED BY <1>10, <1>11, <1>12 DEF BodyInv

\* One local job changes, and its log buffer does not.
LEMMA SetBodies ==
  ASSUME WorkInv, BodyInv, NEW w \in Runners, NEW j \in Jobs, NEW e \in Entries, SetEntry(w, j, e),
         SameBuffer(active[w][j], e, j), UNCHANGED <<stored, printed, cut>>, NoNewLogs
  PROVE  BodyInv'
<1>1. /\ active'[w][j] = e
      /\ \A i \in Jobs : i # j => active'[w][i] = active[w][i]
      /\ \A u \in Runners \ {w} : active'[u] = active[u]
  BY SetIs DEF WorkInv
<1>2. ASSUME NEW u \in Runners, NEW i \in Jobs PROVE SameBuffer(active[u][i], active'[u][i], i)
  <2>1. CASE u = w /\ i = j
    BY <1>1, <2>1
  <2>2. CASE u # w \/ i # j
    <3>1. active'[u][i] = active[u][i]
      BY <1>1, <2>2
    <3> QED BY <3>1 DEF SameBuffer
  <2> QED BY <2>1, <2>2
<1> QED BY <1>2, KeepBodies

\* A local job is removed, or stays.
LEMMA DropBodies ==
  ASSUME WorkInv, BodyInv, NEW w \in Runners, NEW j \in Jobs, NEW e, SetEntry(w, j, e),
         e = NoEntry \/ e = active[w][j], UNCHANGED <<stored, printed, cut, requests>>
  PROVE  BodyInv'
<1>1. e \in Entries
  <2>1. NoEntry \in Entries
    BY DEF NoEntry, Entries, Phases
  <2> QED BY <2>1, EntryKnown
<1>2. SameBuffer(active[w][j], e, j)
  BY DEF SameBuffer, NoEntry
<1>3. NoNewLogs
  BY DEF NoNewLogs
<1> QED BY <1>1, <1>2, <1>3, SetBodies

\* handleResponse, assignment: the log buffer is new.
LEMMA AssignmentBodies ==
  ASSUME WorkInv, BodyInv, NEW w \in Runners, responses[w] # <<>>, NEW m, m = Head(responses[w]),
         m.type = "assignment", TakeAssignment(w, m), UNCHANGED <<stored, printed, cut>>
  PROVE  BodyInv'
<1>1. m \in Responses /\ m.job \in Jobs
  BY FirstResponse
<1>2. m.lease \in Nat
  BY <1>1 DEF Responses, Assignments, Answers, Acks
<1>3. CASE Break(w)
  BY <1>3, FewerRequests, KeepLogs DEF Break
<1>4. CASE /\ SetEntry(w, m.job, NewEntry(m.lease))
           /\ Send(w, <<[type |-> "accepted", job |-> m.job, lease |-> m.lease]>>)
  <2>1. PICK x : x = [type |-> "accepted", job |-> m.job, lease |-> m.lease]
    OBVIOUS
  <2>2. x \in Requests /\ x.type = "accepted" /\ Send(w, <<x>>)
    BY <1>1, <1>2, <1>4, <2>1 DEF Requests, Transitions
  <2>3. NoNewLogs
    BY <2>2, OtherRequest
  <2>4. PICK e : e = NewEntry(m.lease)
    OBVIOUS
  <2>5. e \in Entries /\ e.last = "none" /\ e.phase = "awaitingAcceptance"
    BY <1>2, <2>4 DEF NewEntry, NoEntry, Entries, Phases
  <2>6. SameBuffer(active[w][m.job], e, m.job)
    BY <2>5 DEF SameBuffer, AwaitingPhases
  <2> QED BY <1>1, <1>4, <2>3, <2>4, <2>5, <2>6, SetBodies
<1>5. CASE /\ Send(w, IF m.job \in Awaiting(w) THEN <<Transition(w, m.job)>> ELSE <<>>)
           /\ UNCHANGED active
  <2>1. CASE m.job \in Awaiting(w)
    <3>1. PICK x : x = Transition(w, m.job)
      OBVIOUS
    <3>2. /\ x \in Requests
          /\ x.type = IF active[w][m.job].phase = "awaitingAcceptance" THEN "accepted" ELSE "started"
      BY <2>1, <3>1, TransitionOK
    <3>3. x.type # "log" /\ Send(w, <<x>>)
      BY <1>5, <2>1, <3>1, <3>2
    <3>4. NoNewLogs
      BY <3>2, <3>3, OtherRequest
    <3> QED BY <1>5, <3>4, KeepLogs
  <2>2. CASE m.job \notin Awaiting(w)
    <3>1. Send(w, <<>>)
      BY <1>5, <2>2
    <3>2. NoNewLogs
      BY <3>1, NoRequest
    <3> QED BY <1>5, <3>2, KeepLogs
  <2> QED BY <2>1, <2>2
<1> QED BY <1>3, <1>4, <1>5 DEF TakeAssignment

\* handleResponse, renewal: a job begins with nothing written.
LEMMA RenewalBodies ==
  ASSUME WorkInv, BodyInv, NEW w \in Runners, responses[w] # <<>>, NEW m, m = Head(responses[w]),
         m.type = "renewed", TakeRenewal(w, m), UNCHANGED <<stored, printed, cut>>
  PROVE  BodyInv'
<1>1. m \in Responses /\ m.job \in Jobs /\ ResponseOK(w, m)
  BY FirstResponse
<1>2. PICK j \in Jobs : j = m.job
  BY <1>1
<1>3. PICK d : d = active[w][j]
  OBVIOUS
<1>4. /\ d \in Entries /\ EntryOK(w, j, d) /\ d.phase \in Phases /\ d.lost \in BOOLEAN /\ d.lease \in Nat
      /\ EntryBody(d, j)
  BY <1>2, <1>3, EntryKnown DEF Entries, BodyInv
<1>6. CASE d.phase = "none"
  <2>1. ~d.lost
    BY <1>4, <1>6 DEF EntryOK, NoEntry
  <2>2. Break(w)
    BY <1>2, <1>3, <1>6, <2>1 DEF TakeRenewal
  <2> QED BY <2>2, FewerRequests, KeepLogs DEF Break
<1>7. CASE d.phase # "none" /\ d.lost
  <2>1. SetEntry(w, j, NoEntry) /\ UNCHANGED requests
    BY <1>2, <1>3, <1>7 DEF TakeRenewal
  <2> QED BY <2>1, DropBodies
<1>8. CASE d.phase = "awaitingAcceptance" /\ ~d.lost
  <2>1. PICK e : e = [d EXCEPT !.phase = "awaitingStart"]
    OBVIOUS
  <2>2. PICK x : x = [type |-> "started", job |-> j, lease |-> d.lease]
    OBVIOUS
  <2>3. SetEntry(w, j, e) /\ Send(w, <<x>>)
    BY <1>2, <1>3, <1>8, <2>1, <2>2 DEF TakeRenewal
  <2>4. e \in Entries /\ e.phase = "awaitingStart" /\ e.last = d.last
    BY <1>4, <2>1 DEF Entries, Phases
  <2>5. SameBuffer(active[w][j], e, j)
    BY <1>3, <1>8, <2>4 DEF SameBuffer, AwaitingPhases, Executed
  <2>6. x \in Requests /\ x.type # "log"
    BY <1>4, <2>2 DEF Requests, Transitions
  <2>7. NoNewLogs
    BY <2>3, <2>6, OtherRequest
  <2> QED BY <2>3, <2>4, <2>5, <2>7, SetBodies
<1>9. CASE d.phase = "awaitingStart" /\ ~d.lost
  <2>1. PICK e : e = [d EXCEPT !.phase = "running"]
    OBVIOUS
  <2>2. SetEntry(w, j, e) /\ UNCHANGED requests
    BY <1>2, <1>3, <1>9, <2>1 DEF TakeRenewal
  <2>3. e \in Entries /\ e.phase = "running" /\ e.last = d.last
    BY <1>4, <2>1 DEF Entries, Phases
  <2>4. d.last = "none"
    BY <1>4, <1>9 DEF EntryBody, AwaitingPhases
  <2>5. token[j] = d.lease /\ begun[j] = 0
    BY <1>1, <1>2, <1>3, <1>4, <1>9 DEF ResponseOK, Authorized, EntryOK, AwaitingPhases, Unused
  <2>6. printed[j] = <<>>
    <3>1. Len(printed[j]) = 0 /\ printed[j] \in Seq(Bodies)
      BY <2>5 DEF WorkInv, WorkTypeOK, StoreOK
    <3> QED BY <3>1
  <2>7. SameBuffer(active[w][j], e, j)
    BY <2>3, <2>4, <2>6 DEF SameBuffer
  <2>8. NoNewLogs
    BY <2>2 DEF NoNewLogs
  <2> QED BY <2>2, <2>3, <2>7, <2>8, SetBodies
<1>10. CASE d.phase = "running" /\ ~d.lost
  <2>1. UNCHANGED <<requests, active>>
    BY <1>2, <1>3, <1>10 DEF TakeRenewal
  <2> QED BY <2>1, FewerRequests, KeepLogs
<1>11. CASE d.phase = "completed" /\ ~d.lost
  <2>1. PICK x : x = Completion(j, d)
    OBVIOUS
  <2>2. Send(w, <<x>>) /\ UNCHANGED active
    BY <1>2, <1>3, <1>11, <2>1 DEF TakeRenewal, Resend
  <2>3. d.verdict \in Q!JobResults
    BY <1>4, <1>11 DEF EntryOK
  <2>4. x \in Requests /\ x.type # "log"
    BY <1>4, <2>1, <2>3 DEF Completion, Requests, Completions
  <2> QED BY <2>2, <2>4, OtherRequest, KeepLogs
<1> QED BY <1>4, <1>6, <1>7, <1>8, <1>9, <1>10, <1>11 DEF Phases

\* handleResponse.
LEMMA ReceiveBodies ==
  ASSUME WorkInv, BodyInv, NEW w \in Runners, Receive(w) PROVE BodyInv'
<1>1. PICK m : m = Head(responses[w])
  OBVIOUS
<1>2. responses[w] # <<>> /\ UNCHANGED <<stored, printed, cut>>
  BY DEF Receive
<1>3. m \in Responses /\ m.job \in Jobs
  BY <1>1, <1>2, FirstResponse
<1>4. m.type \in {"assignment", "renewed", "logAck", "cancel"}
  BY <1>3 DEF Responses, Assignments, Answers, Acks
<1>5. CASE m.type = "assignment"
  <2>1. TakeAssignment(w, m)
    BY <1>1, <1>5 DEF Receive
  <2> QED BY <1>1, <1>2, <1>5, <2>1, AssignmentBodies
<1>6. CASE m.type = "renewed"
  <2>1. TakeRenewal(w, m)
    BY <1>1, <1>6 DEF Receive
  <2> QED BY <1>1, <1>2, <1>6, <2>1, RenewalBodies
<1>7. CASE m.type = "logAck"
  <2>1. TakeLogAck(w, m)
    BY <1>1, <1>7 DEF Receive
  <2>2. PICK j \in Jobs : j = m.job
    BY <1>3
  <2>3. PICK d : d = active[w][j]
    OBVIOUS
  <2>4. PICK e : e = [d EXCEPT !.chunk = IF @ = m.seq THEN 0 ELSE @]
    OBVIOUS
  <2>5. d \in Entries
    BY <2>3, EntryKnown
  <2>6. e \in Entries /\ e.last = d.last /\ e.phase = d.phase
    <3>1. CASE d.chunk = m.seq
      BY <2>4, <2>5, <3>1 DEF Entries
    <3>2. CASE d.chunk # m.seq
      BY <2>4, <2>5, <3>2 DEF Entries
    <3> QED BY <3>1, <3>2
  <2>7. SetEntry(w, j, e)
    <3>1. active \in [Runners -> [Jobs -> Entries]]
      BY DEF WorkInv, WorkTypeOK
    <3>2. active' = [active EXCEPT ![w][j].chunk = IF @ = m.seq THEN 0 ELSE @]
      BY <2>1, <2>2 DEF TakeLogAck
    <3> QED BY <2>3, <2>4, <3>1, <3>2 DEF SetEntry
  <2>8. SameBuffer(active[w][j], e, j)
    BY <2>3, <2>6 DEF SameBuffer
  <2>9. NoNewLogs
    BY <2>1 DEF TakeLogAck, NoNewLogs
  <2> QED BY <1>2, <2>6, <2>7, <2>8, <2>9, SetBodies
<1>8. CASE m.type = "cancel"
  <2>1. SetEntry(w, m.job, NoEntry) /\ UNCHANGED requests
    BY <1>1, <1>8 DEF Receive, TakeCancel
  <2> QED BY <1>2, <1>3, <2>1, DropBodies
<1> QED BY <1>4, <1>5, <1>6, <1>7, <1>8

\* logWriter.Write: the buffer held the last chunk, which is no marker, and only
\* the Runner with the started lease writes.
LEMMA WriteBodies ==
  ASSUME WorkInv, BodyInv, NEW w \in Runners, NEW j \in Jobs, WriteLog(w, j) PROVE BodyInv'
<1>1. PICK d : d = active[w][j]
  OBVIOUS
<1>2. PICK b : /\ b \in NextBodies(d)
               /\ SetEntry(w, j, [d EXCEPT !.seq = @ + 1, !.chunk = d.seq + 1, !.last = b])
               /\ printed' = [printed EXCEPT ![j] = Append(@, b)]
               /\ cut' = IF b = "marker" THEN cut \cup {j} ELSE cut
  BY <1>1 DEF WriteLog
<1>3. /\ <<j, d.lease>> \in executing[w] /\ d.phase # "none" /\ ~d.lost /\ d.last # "marker"
      /\ UNCHANGED <<requests, stored>>
  BY <1>1 DEF WriteLog, Canceled, wire
<1>4. b \in Bodies
  BY <1>2 DEF NextBodies, Bodies
<1>5. d \in Entries /\ EntryOK(w, j, d) /\ d.seq \in Nat /\ d.phase \in Phases /\ EntryBody(d, j)
  BY <1>1, EntryKnown DEF Entries, BodyInv
<1>6. Authorized(w, j, d.lease) /\ begun[j] = 1 /\ OwnerOf(j) = w
  <2>1. PICK x : x = <<j, d.lease>>
    OBVIOUS
  <2>2. ExecutionOK(w, x) /\ x[1] = j /\ x[2] = d.lease
    BY <1>3, <2>1 DEF WorkInv, RunnerOK
  <2> QED BY <2>2 DEF ExecutionOK, Authorized
<1>7. ~Ended(j)
  BY <1>3 DEF Ended
<1>8. d.phase = "running"
  BY <1>3, <1>5, <1>6, <1>7 DEF EntryOK, Unused, Authorized, Phases, AwaitingPhases
<1>9. PICK e : e = [d EXCEPT !.seq = @ + 1, !.chunk = d.seq + 1, !.last = b]
  OBVIOUS
<1>10. e \in Entries /\ e.phase = "running" /\ e.last = b
  <2>1. PICK n : n = d.seq + 1
    OBVIOUS
  <2>2. n \in Nat /\ e = [d EXCEPT !.seq = n, !.chunk = n, !.last = b]
    BY <1>5, <1>9, <2>1
  <2> QED BY <1>4, <1>5, <1>8, <2>2 DEF Entries
<1>11. /\ active'[w][j] = e
       /\ \A i \in Jobs : i # j => active'[w][i] = active[w][i]
       /\ \A u \in Runners \ {w} : active'[u] = active[u]
  BY <1>2, <1>9, <1>10, SetIs DEF WorkInv
<1>12. PICK s : s = Append(printed[j], b)
  OBVIOUS
<1>13. printed \in [Jobs -> Seq(Bodies)] /\ printed[j] \in Seq(Bodies) /\ Len(printed[j]) \in Nat
  BY DEF WorkInv, WorkTypeOK
<1>14. /\ s \in Seq(Bodies) /\ s # <<>> /\ Len(s) = Len(printed[j]) + 1 /\ s[Len(s)] = b
       /\ \A i \in 1..Len(printed[j]) : s[i] = printed[j][i]
  BY <1>4, <1>12, <1>13, SMTT(30)
<1>15. printed'[j] = s /\ \A i \in Jobs : i # j => printed'[i] = printed[i]
  BY <1>2, <1>12, <1>13
<1>16. EndOf(s) = b /\ EndOf(printed[j]) # "marker"
  BY <1>3, <1>5, <1>8, <1>14 DEF EndOf, EntryBody, Executed
<1>17. ASSUME NEW i \in Jobs PROVE BodyOK(i)'
  <2>1. BodyOK(i)
    BY DEF BodyInv
  <2>2. CASE i # j
    <3>1. printed'[i] = printed[i] /\ (i \in cut' <=> i \in cut) /\ stored'[i] = stored[i]
      BY <1>2, <1>3, <1>15, <2>2
    <3> QED BY <2>1, <3>1 DEF BodyOK, EndOf
  <2>3. CASE i = j
    <3>1. stored[j] \in Seq(Rows) /\ Len(stored[j]) \in Nat /\ Len(stored[j]) <= Len(printed[j])
      BY DEF WorkInv, WorkTypeOK, StoreOK
    <3>2. \A n \in DOMAIN stored[j] : stored[j][n].body = s[n]
      <4>1. \A n \in DOMAIN stored[j] : n \in 1..Len(printed[j]) /\ stored[j][n].body = printed[j][n]
        BY <1>13, <2>1, <2>3, <3>1 DEF BodyOK
      <4> QED BY <1>14, <4>1
    <3>3. \A n \in DOMAIN printed[j] : printed[j][n] # "marker"
      <4>1. ASSUME NEW n \in DOMAIN printed[j], printed[j][n] = "marker" PROVE FALSE
        <5>1. n = Len(printed[j]) /\ printed[j] # <<>>
          BY <1>13, <2>1, <2>3, <4>1 DEF BodyOK
        <5> QED BY <1>16, <4>1, <5>1 DEF EndOf
      <4> QED BY <4>1
    <3>4. \A n \in DOMAIN s : s[n] = "marker" => n = Len(s)
      <4>1. \A n \in DOMAIN s : n \in DOMAIN printed[j] \/ n = Len(s)
        BY <1>13, <1>14
      <4>2. \A n \in DOMAIN printed[j] : s[n] = printed[j][n]
        BY <1>13, <1>14
      <4> QED BY <3>3, <4>1, <4>2
    <3>5. j \in cut' <=> EndOf(s) = "marker"
      BY <1>2, <1>16, <2>1, <2>3 DEF BodyOK
    <3>6. printed'[i] = s /\ stored'[i] = stored[j]
      BY <1>3, <1>15, <2>3
    <3> QED BY <2>3, <3>2, <3>4, <3>5, <3>6 DEF BodyOK, EndOf
  <2> QED BY <2>2, <2>3
<1>18. ASSUME NEW u \in Runners, NEW i \in Jobs PROVE EntryBody(active[u][i], i)'
  <2>1. PICK x : x = active[u][i]
    OBVIOUS
  <2>2. x \in Entries /\ EntryOK(u, i, x) /\ EntryBody(x, i)
    BY <2>1, EntryKnown DEF BodyInv
  <2>3. CASE i # j
    <3>1. active'[u][i] = x /\ printed'[i] = printed[i]
      BY <1>11, <1>15, <2>1, <2>3
    <3> QED BY <2>2, <3>1 DEF EntryBody, EndOf
  <2>4. CASE i = j /\ u = w
    <3>1. active'[u][i] = e /\ printed'[i] = s
      BY <1>11, <1>15, <2>4
    <3> QED BY <1>10, <1>16, <3>1 DEF EntryBody, EndOf, AwaitingPhases
  <2>5. CASE i = j /\ u # w
    <3>1. active'[u][i] = x
      BY <1>11, <2>1, <2>5
    <3>2. x.phase \notin Executed
      BY <1>6, <2>2, <2>5 DEF EntryOK, Authorized
    <3> QED BY <2>2, <3>1, <3>2 DEF EntryBody
  <2> QED BY <2>3, <2>4, <2>5
<1>19. ASSUME NEW u \in Runners, NEW x \in Range(requests'[u]) PROVE RequestBody(x)'
  <2>1. x \in Range(requests[u]) /\ RequestBody(x) /\ RequestOK(u, x)
    BY <1>3, <1>19 DEF BodyInv, WorkInv, MessagesOK
  <2>2. x \in Requests
    <3>1. requests[u] \in Seq(Requests)
      BY DEF WorkInv, WorkTypeOK
    <3> QED BY <2>1, <3>1 DEF Range
  <2>3. CASE x.type = "log"
    <3>1. x.job \in Jobs /\ x.seq \in 1..Len(printed[x.job])
      BY <2>1, <2>2, <2>3 DEF RequestOK, Requests, Transitions, Completions, Chunks, Heartbeats
    <3>2. printed'[x.job][x.seq] = printed[x.job][x.seq]
      BY <1>14, <1>15, <3>1
    <3> QED BY <2>1, <3>2 DEF RequestBody
  <2> QED BY <2>3 DEF RequestBody
<1> QED BY <1>17, <1>18, <1>19 DEF BodyInv

\* A result is reported, or the local job of a lost lease is removed.
LEMMA ResultBodies ==
  ASSUME WorkInv, BodyInv, NEW w \in Runners, HandleResult(w) PROVE BodyInv'
<1>1. results[w] \in Seq(Reports) /\ results[w] # <<>> /\ UNCHANGED <<stored, printed, cut>>
  BY DEF HandleResult, WorkInv, WorkTypeOK, history
<1>2. PICK r : r = Head(results[w])
  OBVIOUS
<1>3. r \in Reports
  BY <1>1, <1>2
<1>4. PICK j \in Jobs : j = r.job
  BY <1>3 DEF Reports
<1>5. r.verdict \in Q!JobResults
  BY <1>3 DEF Reports
<1>6. PICK d : d = active[w][j]
  OBVIOUS
<1>7. d \in Entries /\ d.lease \in Nat
  BY <1>6, EntryKnown DEF Entries
<1>8. CASE ~Reportable(w)
  <2>1. PICK e : e = IF d.lost THEN NoEntry ELSE d
    OBVIOUS
  <2>2. active' = [active EXCEPT ![w][j] = IF @.lost THEN NoEntry ELSE @] /\ UNCHANGED requests
    BY <1>2, <1>4, <1>8 DEF HandleResult
  <2>3. SetEntry(w, j, e)
    <3>1. active \in [Runners -> [Jobs -> Entries]]
      BY DEF WorkInv, WorkTypeOK
    <3> QED BY <1>6, <2>1, <2>2, <3>1 DEF SetEntry
  <2> QED BY <1>1, <1>6, <2>1, <2>2, <2>3, DropBodies
<1>9. CASE Reportable(w)
  <2>1. PICK e : e = [d EXCEPT !.phase = "completed", !.verdict = r.verdict]
    OBVIOUS
  <2>2. PICK x : x = Completion(j, e)
    OBVIOUS
  <2>3. SetEntry(w, j, e) /\ Send(w, <<x>>)
    BY <1>2, <1>4, <1>6, <1>9, <2>1, <2>2 DEF HandleResult
  <2>4. d.phase = "running"
    BY <1>2, <1>4, <1>6, <1>9 DEF Reportable
  <2>5. /\ e \in Entries /\ e.phase = "completed" /\ e.last = d.last /\ e.lease = d.lease
        /\ e.verdict = r.verdict
    BY <1>5, <1>7, <2>1 DEF Entries, Phases
  <2>6. SameBuffer(active[w][j], e, j)
    BY <1>6, <2>4, <2>5 DEF SameBuffer, AwaitingPhases, Executed
  <2>7. x \in Requests /\ x.type # "log"
    BY <1>5, <1>7, <2>2, <2>5 DEF Completion, Requests, Completions
  <2>8. NoNewLogs
    BY <2>3, <2>7, OtherRequest
  <2> QED BY <1>1, <2>3, <2>5, <2>6, <2>8, SetBodies
<1> QED BY <1>8, <1>9

\* A lease is lost, and the notice of it is taken.
LEMMA LoseBodies ==
  ASSUME WorkInv, BodyInv, NEW w \in Runners, NEW j \in Jobs, LocalDeadline(w, j) PROVE BodyInv'
<1>1. PICK d : d = active[w][j]
  OBVIOUS
<1>2. PICK e : e = [d EXCEPT !.lost = TRUE]
  OBVIOUS
<1>3. SetEntry(w, j, e) /\ UNCHANGED <<stored, printed, cut, requests>>
  BY <1>1, <1>2 DEF LocalDeadline, LoseLease, wire, history
<1>4. d \in Entries
  BY <1>1, EntryKnown
<1>5. e \in Entries /\ e.last = d.last /\ e.phase = d.phase
  BY <1>2, <1>4 DEF Entries
<1>6. SameBuffer(active[w][j], e, j)
  BY <1>1, <1>5 DEF SameBuffer
<1>7. NoNewLogs
  BY <1>3 DEF NoNewLogs
<1> QED BY <1>3, <1>5, <1>6, <1>7, SetBodies

\* HandleLoss.
LEMMA LossBodies ==
  ASSUME WorkInv, BodyInv, NEW w \in Runners, HandleLoss(w) PROVE BodyInv'
<1>1. losses[w] \in Seq(Jobs) /\ losses[w] # <<>>
  BY DEF HandleLoss, WorkInv, WorkTypeOK
<1>2. PICK j \in Jobs : j = Head(losses[w])
  BY <1>1
<1>3. PICK e : e = IF active[w][j].lost THEN NoEntry ELSE active[w][j]
  OBVIOUS
<1>4. active' = [active EXCEPT ![w][j] = e] /\ UNCHANGED <<stored, printed, cut, requests>>
  BY <1>2, <1>3 DEF HandleLoss, wire, history
<1>5. SetEntry(w, j, e)
  BY <1>4 DEF SetEntry
<1> QED BY <1>3, <1>4, <1>5, DropBodies

\* The process dies: no local job is left.
LEMMA CrashBodies ==
  ASSUME WorkInv, BodyInv, NEW w \in Runners, Crash(w) PROVE BodyInv'
<1>1. /\ active' = [active EXCEPT ![w] = [j \in Jobs |-> NoEntry]]
      /\ UNCHANGED <<requests, stored, printed, cut>>
  BY DEF Crash, history
<1>2. ASSUME NEW u \in Runners, NEW i \in Jobs PROVE SameBuffer(active[u][i], active'[u][i], i)
  <2>1. active'[u][i] = NoEntry \/ active'[u][i] = active[u][i]
    BY <1>1 DEF WorkInv, WorkTypeOK
  <2> QED BY <2>1 DEF SameBuffer, NoEntry
<1>3. NoNewLogs
  BY <1>1 DEF NoNewLogs
<1> QED BY <1>1, <1>2, <1>3, KeepBodies

\* A new stream begins with transitions and a heartbeat.
LEMMA ConnectBodies ==
  ASSUME WorkInv, BodyInv, NEW w \in Runners, Connect(w) PROVE BodyInv'
<1>1. UNCHANGED <<stored, printed, cut, active>>
  BY DEF Connect, client, history
<1>2. CASE handler[w].at # "none"
  BY <1>1, <1>2, FewerRequests, KeepLogs DEF Connect
<1>3. CASE handler[w].at = "none"
  <2>1. PICK o \in Orders(Awaiting(w)) :
          requests' = [requests EXCEPT ![w] = [i \in DOMAIN o |-> Transition(w, o[i])] \o <<Heartbeat(w)>>]
    BY <1>3 DEF Connect
  <2>2. IsFiniteSet(Awaiting(w))
    BY JobsFinite, FS_Subset DEF Awaiting
  <2>3. Cardinality(Awaiting(w)) \in Nat /\ o \in [1..Cardinality(Awaiting(w)) -> Awaiting(w)]
    BY <2>2, OrderIs
  <2>4. PICK q : q = [i \in DOMAIN o |-> Transition(w, o[i])]
    OBVIOUS
  <2>5. ASSUME NEW i \in DOMAIN q PROVE q[i] \in Requests /\ q[i].type # "log"
    <3>1. o[i] \in Awaiting(w) /\ q[i] = Transition(w, o[i])
      BY <2>3, <2>4, <2>5
    <3>2. /\ q[i] \in Requests
          /\ q[i].type = IF active[w][o[i]].phase = "awaitingAcceptance" THEN "accepted" ELSE "started"
      BY <3>1, TransitionOK
    <3> QED BY <3>2
  <2>6. q \in Seq(Requests)
    <3>1. q \in [1..Cardinality(Awaiting(w)) -> Requests]
      BY <2>3, <2>4, <2>5
    <3> QED BY <2>3, <3>1
  <2>7. PICK m : m = Heartbeat(w)
    OBVIOUS
  <2>8. m \in Requests /\ m.type = "heartbeat"
    BY <2>7, HeartbeatOK
  <2>9. <<m>> \in Seq(Requests) /\ Range(<<m>>) = {m}
    BY <2>8, OneMessage
  <2>10. Range(q \o <<m>>) \subseteq Range(q) \cup {m}
    BY <2>6, <2>9, ConcatRange
  <2>11. /\ requests'[w] = q \o <<m>>
         /\ \A u \in Runners \ {w} : requests'[u] = requests[u]
    BY <2>1, <2>4, <2>7 DEF WorkInv, WorkTypeOK
  <2>12. \A x \in Range(q) : x.type # "log"
    BY <2>5 DEF Range
  <2>13. NoNewLogs
    BY <2>8, <2>10, <2>11, <2>12 DEF NoNewLogs
  <2> QED BY <1>1, <2>13, KeepLogs
<1> QED BY <1>2, <1>3

\* The ticker.
LEMMA HeartbeatBodies ==
  ASSUME WorkInv, BodyInv, NEW w \in Runners, SendHeartbeat(w) PROVE BodyInv'
<1>1. PICK m : m = Heartbeat(w)
  OBVIOUS
<1>2. m \in Requests /\ m.type = "heartbeat"
  BY <1>1, HeartbeatOK
<1>3. Send(w, <<m>>) /\ UNCHANGED <<stored, printed, cut, active>>
  BY <1>1 DEF SendHeartbeat, client, history
<1> QED BY <1>2, <1>3, OtherRequest, KeepLogs

\* In the beginning there is no log.
LEMMA BodyInitInv == Init => BodyInv
<1> SUFFICES ASSUME Init PROVE BodyInv
  OBVIOUS
<1>1. \A j \in Jobs : BodyOK(j)
  BY DEF Init, BodyOK, EndOf
<1>2. \A w \in Runners, j \in Jobs : EntryBody(active[w][j], j)
  BY DEF Init, EntryBody, NoEntry, AwaitingPhases, Executed
<1>3. \A w \in Runners : Range(requests[w]) = {}
  BY DEF Init, Range
<1> QED BY <1>1, <1>2, <1>3 DEF BodyInv

\* Every step keeps the content: the actions that write, store or send chunks or
\* change a local job have a lemma of their own.
LEMMA BodyStep == WorkInv /\ BodyInv /\ [Next]_vars => BodyInv'
<1> SUFFICES ASSUME WorkInv, BodyInv, [Next]_vars PROVE BodyInv'
  OBVIOUS
<1>1. ASSUME UNCHANGED requests PROVE NoNewLogs
  BY <1>1 DEF NoNewLogs
<1>2. CASE UNCHANGED vars
  BY <1>1, <1>2, KeepLogs DEF vars, wire, client, history
<1>3. ASSUME NEW w \in Runners, StreamEnds(w) \/ Disconnect(w) PROVE BodyInv'
  BY <1>1, <1>3, KeepLogs DEF StreamEnds, Disconnect, history
<1>4. ASSUME NEW w \in Runners, Connect(w) \/ Crash(w) PROVE BodyInv'
  BY <1>4, ConnectBodies, CrashBodies
<1>5. ASSUME NEW w \in Runners, OrphanEnds(w) PROVE BodyInv'
  BY <1>5, FewerRequests, KeepLogs DEF OrphanEnds, CloseStream, client, history
<1>6. ASSUME NEW w \in Runners, Claim(w) \/ StopClaiming(w) \/ IssueCredential(w) PROVE BodyInv'
  BY <1>1, <1>6, KeepLogs DEF Claim, StopClaiming, IssueCredential, client, history, wire
<1>7. ASSUME NEW w \in Runners, NEW p \in BOOLEAN, CredentialUnavailable(w, p) PROVE BodyInv'
  BY <1>7, FewerRequests, KeepLogs DEF CredentialUnavailable, CloseStream, client, history
<1>8. ASSUME NEW w \in Runners, AssignmentExpired(w) PROVE BodyInv'
  BY <1>1, <1>8, KeepLogs DEF AssignmentExpired, Break
<1>9. ASSUME NEW w \in Runners,
             Serve(w) \/ Receive(w) \/ HandleResult(w) \/ SendHeartbeat(w) \/ HandleLoss(w)
      PROVE  BodyInv'
  BY <1>9, ServeBodies, ReceiveBodies, ResultBodies, HeartbeatBodies, LossBodies
<1>10. ASSUME NEW w \in Runners, NEW j \in Jobs,
              SendLog(w, j) \/ LocalDeadline(w, j) \/ WriteLog(w, j)
       PROVE  BodyInv'
  BY <1>10, SendLogBodies, LoseBodies, WriteBodies
<1>11. ASSUME NEW w \in Runners, NEW e \in executing[w], NEW v \in Q!JobResults,
              FinishExecution(w, e[1], e[2], v)
       PROVE  BodyInv'
  BY <1>1, <1>11, KeepLogs DEF FinishExecution, wire
<1>12. CASE \/ \E r \in 1..RunLimit, c \in Kinds : Submit(r, c)
            \/ \E r \in 1..RunLimit : Cancel(r) \/ Recover(r)
            \/ \E j \in Jobs : StoreDeadline(j)
  <2>1. UNCHANGED rest
    BY <1>12 DEF Submit, Cancel, Recover, StoreDeadline
  <2> QED BY <1>1, <2>1, KeepLogs DEF rest, wire, client, history
<1>13. ASSUME NEW j \in Jobs, LogExpires(j) PROVE BodyInv'
  BY <1>1, <1>13, KeepLogs DEF LogExpires, wire, client
<1> QED BY <1>2, <1>3, <1>4, <1>5, <1>6, <1>7, <1>8, <1>9, <1>10, <1>11, <1>12, <1>13 DEF Next

\* The content of the logs, on top of their counts.
THEOREM BodyInvariance == Spec => []BodyInv
BY BodyInitInv, BodyStep, WorkInvariance, PTL DEF Spec

\* The stored log of a job is what the Runner made of its output: no gap, no
\* repetition, no chunk of another lease, nothing after the marker that closes
\* it; and once the job has succeeded nothing of it is missing, and the marker
\* is there exactly if output was thrown away (AppendLogChunk, logWriter.Write).
THEOREM LogAlwaysExact == Spec => []LogExact
<1>1. WorkInv /\ BodyInv => LogExact
  <2> SUFFICES ASSUME WorkInv, BodyInv PROVE LogExact
    OBVIOUS
  <2>1. ASSUME NEW j \in Jobs
        PROVE  /\ Len(stored[j]) <= Len(printed[j])
               /\ \A i \in DOMAIN stored[j] :
                    stored[j][i] = [lease |-> token[j], seq |-> i, body |-> printed[j][i]]
               /\ \A i \in DOMAIN stored[j] : stored[j][i].body = "marker" => i = Len(stored[j])
               /\ Status(j) = "succeeded" =>
                    /\ Len(stored[j]) = Len(printed[j])
                    /\ j \in cut <=> LastBody(stored[j]) = "marker"
    <3>1. /\ stored[j] \in Seq(Rows) /\ printed[j] \in Seq(Bodies)
          /\ Len(stored[j]) \in Nat /\ Len(printed[j]) \in Nat
          /\ StoreOK(j) /\ BodyOK(j)
      BY DEF WorkInv, WorkTypeOK, BodyInv
    <3>2. Len(stored[j]) <= Len(printed[j])
      BY <3>1 DEF StoreOK
    <3>3. ASSUME NEW i \in DOMAIN stored[j]
          PROVE  stored[j][i] = [lease |-> token[j], seq |-> i, body |-> printed[j][i]]
      <4>1. /\ stored[j][i] \in Rows /\ stored[j][i].lease = token[j] /\ stored[j][i].seq = i
            /\ stored[j][i].body = printed[j][i]
        BY <3>1, <3>3 DEF StoreOK, BodyOK
      <4> QED BY <4>1 DEF Rows
    <3>4. ASSUME NEW i \in DOMAIN stored[j], stored[j][i].body = "marker" PROVE i = Len(stored[j])
      <4>1. i \in 1..Len(stored[j]) /\ i \in DOMAIN printed[j] /\ printed[j][i] = "marker"
        BY <3>1, <3>2, <3>4 DEF BodyOK
      <4>2. i = Len(printed[j])
        BY <3>1, <4>1 DEF BodyOK
      <4> QED BY <3>1, <3>2, <4>1, <4>2
    <3>5. ASSUME Status(j) = "succeeded"
          PROVE  Len(stored[j]) = Len(printed[j]) /\ (j \in cut <=> LastBody(stored[j]) = "marker")
      <4>1. Len(stored[j]) = Len(printed[j])
        BY <3>1, <3>5 DEF StoreOK, Complete
      <4>2. CASE stored[j] = <<>>
        <5>1. printed[j] = <<>>
          BY <3>1, <4>1, <4>2
        <5> QED BY <3>1, <4>1, <4>2, <5>1 DEF BodyOK, EndOf, LastBody
      <4>3. CASE stored[j] # <<>>
        <5>1. Len(stored[j]) \in DOMAIN stored[j] /\ printed[j] # <<>>
          BY <3>1, <4>1, <4>3
        <5>2. LastBody(stored[j]) = EndOf(printed[j])
          BY <3>1, <4>1, <4>3, <5>1 DEF BodyOK, EndOf, LastBody
        <5> QED BY <3>1, <4>1, <5>2 DEF BodyOK
      <4> QED BY <4>2, <4>3
    <3> QED BY <3>2, <3>3, <3>4, <3>5
  <2>2. ASSUME NEW w \in Runners, NEW j \in Jobs, NEW e, e = active[w][j], e.phase # "none", e.seq > 0
        PROVE  e.seq - Len(stored[j]) \in {0, IF e.chunk = 0 THEN 0 ELSE 1}
    <3>1. e \in Entries /\ EntryOK(w, j, e)
      BY <2>2, EntryKnown
    <3>2. e.phase \in Executed /\ e.seq \in Nat /\ e.chunk \in Nat
      BY <2>2, <3>1 DEF Entries, EntryOK, Phases, AwaitingPhases, Executed
    <3>3. Len(stored[j]) \in Nat /\ Len(printed[j]) \in Nat /\ Len(stored[j]) <= Len(printed[j])
      BY <2>1 DEF WorkInv, WorkTypeOK
    <3>4. /\ e.seq = Len(printed[j]) /\ e.seq <= Len(stored[j]) + 1
          /\ e.chunk = 0 => e.seq = Len(stored[j])
      BY <3>1, <3>2 DEF EntryOK
    <3>5. e.chunk = 0 => e.seq - Len(stored[j]) = 0
      BY <3>2, <3>3, <3>4
    <3>6. e.seq - Len(stored[j]) = 0 \/ e.seq - Len(stored[j]) = 1
      BY <3>2, <3>3, <3>4
    <3> QED BY <3>5, <3>6
  <2> QED BY <2>1, <2>2 DEF LogExact
<1> QED BY <1>1, WorkInvariance, BodyInvariance, PTL

-----------------------------------------------------------------------------
(* The stream implements JobPromise.                                       *)

\* What the job counts as.
Recorded(j) == IF Status(j) \in Q!JobResults THEN Status(j) ELSE "open"

\* A step that begins nothing, ends no execution and records no result is a
\* stuttering step of the promise.
LEMMA PromiseStutters ==
  ASSUME UNCHANGED <<begun, ran>>, \A j \in Jobs : Recorded(j)' = Recorded(j)
  PROVE  UNCHANGED Promise!promised
BY DEF Promise!promised, Recorded

\* The statuses stay: so does what is recorded.
LEMMA SameStatuses ==
  ASSUME UNCHANGED <<jobStatus, begun, ran>> PROVE UNCHANGED Promise!promised
<1>1. \A j \in Jobs : Recorded(j)' = Recorded(j)
  BY DEF Recorded, Status
<1> QED BY <1>1, PromiseStutters

\* A transaction of the store that gives results v to jobs in S concludes
\* them; a success is recorded of one job only, which ran to the end.
LEMMA StoreConcludes ==
  ASSUME WorkInv, NEW S \in SUBSET Jobs, NEW v, StoreStep(S, v), UNCHANGED <<begun, ran>>,
         \/ v \in {"none", "failed", "canceled"}
         \/ v = "succeeded" /\ \E j \in Jobs : S = {j} /\ j \in ran
  PROVE  [Promise!PromiseNext]_(Promise!promised)
<1> DEFINE T == {j \in S : Status(j) \notin Q!JobResults /\ Status(j)' \in Q!JobResults}
<1>1. ASSUME NEW j \in Jobs
      PROVE  /\ j \in T => Recorded(j) = "open" /\ Recorded(j)' = v
             /\ j \notin T => Recorded(j)' = Recorded(j)
  BY DEF StoreStep, Recorded
<1>2. T \subseteq S /\ (T # {} => v \in Q!JobResults)
  BY DEF StoreStep
<1> HIDE DEF T
<1>3. CASE T = {}
  BY <1>1, <1>3, PromiseStutters
<1>4. CASE T # {} /\ v # "succeeded"
  <2>1. v \in {"failed", "canceled"}
    BY <1>2, <1>4 DEF Q!JobResults
  <2>2. Promise!ConcludeAll(T, v)
    <3>1. [j \in Jobs |-> Recorded(j)'] = [j \in Jobs |-> IF j \in T THEN v ELSE Recorded(j)]
      BY <1>1
    <3>2. [j \in Jobs |-> Recorded(j)'] = [j \in Jobs |-> IF j \in T THEN v ELSE [i \in Jobs |-> Recorded(i)][j]]
      BY <3>1
    <3>3. \A j \in T : [i \in Jobs |-> Recorded(i)][j] = "open"
      BY <1>1, <1>2
    <3> QED BY <1>4, <3>2, <3>3 DEF Promise!ConcludeAll, Recorded
  <2> QED BY <1>2, <2>1, <2>2 DEF Promise!PromiseNext
<1>5. CASE T # {} /\ v = "succeeded"
  <2>1. PICK j \in Jobs : T = {j} /\ j \in ran
    BY <1>2, <1>5
  <2>2. Promise!Conclude(j, v)
    <3>1. [i \in Jobs |-> Recorded(i)'] = [[i \in Jobs |-> Recorded(i)] EXCEPT ![j] = v]
      BY <1>1, <2>1
    <3>2. [i \in Jobs |-> Recorded(i)][j] = "open"
      BY <1>1, <2>1
    <3> QED BY <2>1, <3>1, <3>2 DEF Promise!Conclude, Recorded
  <2> QED BY <1>5, <2>2 DEF Promise!PromiseNext
<1> QED BY <1>3, <1>4, <1>5

\* Serving a request concludes a job only on a completion.
LEMMA ServePromise ==
  ASSUME WorkInv, NEW w \in Runners, Serve(w) PROVE [Promise!PromiseNext]_(Promise!promised)
<1>1. PICK m : m = Head(requests[w])
  OBVIOUS
<1>2. requests[w] # <<>> /\ UNCHANGED <<begun, ran>>
  BY DEF Serve, history
<1>3. m \in Requests /\ RequestOK(w, m)
  BY <1>1, <1>2, FirstRequest
<1>4. m.type \in {"accepted", "started", "completed", "log", "heartbeat"}
  BY <1>3 DEF Requests, Transitions, Completions, Chunks, Heartbeats
<1>5. StoreTypes
  BY DEF WorkInv, WorkTypeOK, StoreTypes
<1>6. CASE Refuse(w)
  BY <1>2, <1>6, SameStatuses DEF Refuse, queue
<1>7. CASE m.type = "accepted" /\ ~Refuse(w)
  <2>1. UNCHANGED jobStatus
    BY <1>1, <1>7 DEF Serve, HandleAccepted, Q!AcknowledgeRunnerJob
  <2> QED BY <1>2, <2>1, SameStatuses
<1>8. CASE m.type = "started" /\ ~Refuse(w)
  <2>1. m.job \in Jobs
    BY <1>3, <1>8 DEF Requests, Transitions, Completions, Chunks, Heartbeats
  <2>2. Q!StartRunnerJob(w, m.job[1], m.job[2])
    BY <1>1, <1>8 DEF Serve, HandleStarted
  <2>3. StoreStep({}, "none")
    BY <1>5, <2>1, <2>2, StoreStart
  <2> QED BY <1>2, <2>3, StoreConcludes
<1>9. CASE m.type = "completed" /\ ~Refuse(w)
  <2>1. m.job \in Jobs /\ m.verdict \in Q!JobResults
    BY <1>3, <1>9 DEF Requests, Transitions, Completions, Chunks, Heartbeats
  <2>2. Q!CompleteRunnerJob(w, m.job[1], m.job[2], m.verdict)
    BY <1>1, <1>9 DEF Serve, HandleCompletion
  <2>3. StoreStep({m.job}, m.verdict)
    BY <1>5, <2>1, <2>2, StoreComplete
  <2>4. m.verdict = "succeeded" => m.job \in ran
    BY <1>3, <1>9 DEF RequestOK, Complete
  <2> QED BY <1>2, <2>1, <2>3, <2>4, StoreConcludes DEF Q!JobResults
<1>10. CASE m.type = "log" /\ ~Refuse(w)
  <2>1. UNCHANGED jobStatus
    BY <1>1, <1>10 DEF Serve, HandleLog, queue
  <2> QED BY <1>2, <2>1, SameStatuses
<1>11. CASE m.type = "heartbeat"
  <2>1. UNCHANGED jobStatus
    BY <1>1, <1>11 DEF Serve, HandleHeartbeat, Q!RenewRunnerLeases
  <2> QED BY <1>2, <2>1, SameStatuses
<1> QED BY <1>4, <1>6, <1>7, <1>8, <1>9, <1>10, <1>11

\* A claim leaves what is recorded alone.
LEMMA ClaimPromise ==
  ASSUME WorkInv, NEW w \in Runners, Claim(w) PROVE UNCHANGED Promise!promised
<1>1. PICK j \in Jobs : Q!ClaimRunnerJob(w, j[1], j[2])
  BY DEF Claim
<1>2. /\ Status(j) = "queued" /\ Status(j)' = "assigned"
      /\ \A i \in Jobs : i # j => Status(i)' = Status(i)
  BY <1>1, StoreClaim DEF WorkInv, WorkTypeOK, StoreTypes
<1>3. \A i \in Jobs : Recorded(i)' = Recorded(i)
  BY <1>2 DEF Recorded, Q!JobResults
<1> QED BY <1>3, PromiseStutters DEF Claim, history

\* A job whose credential cannot be issued fails, or is given back.
LEMMA CredentialPromise ==
  ASSUME WorkInv, NEW w \in Runners, NEW p \in BOOLEAN, CredentialUnavailable(w, p)
  PROVE  [Promise!PromiseNext]_(Promise!promised)
<1>1. StoreTypes /\ UNCHANGED <<begun, ran>>
  BY DEF WorkInv, WorkTypeOK, StoreTypes, CredentialUnavailable, history
<1>2. PICK h : h = handler[w]
  OBVIOUS
<1>3. h.at = "issuing" /\ h.job \in Jobs
  BY <1>2 DEF CredentialUnavailable, WorkInv, WorkTypeOK, Handlers
<1>4. \/ UNCHANGED queue
      \/ Q!CompleteRunnerJob(w, h.job[1], h.job[2], "failed")
      \/ Q!ReleaseRunnerJob(w, h.job[1], h.job[2])
  BY <1>2 DEF CredentialUnavailable
<1>5. CASE UNCHANGED queue
  BY <1>1, <1>5, SameStatuses DEF queue
<1>6. CASE Q!CompleteRunnerJob(w, h.job[1], h.job[2], "failed")
  <2>1. "failed" \in Q!JobResults
    BY DEF Q!JobResults
  <2>2. StoreStep({h.job}, "failed")
    BY <1>1, <1>3, <1>6, <2>1, StoreComplete
  <2> QED BY <1>1, <1>3, <2>2, StoreConcludes
<1>7. CASE Q!ReleaseRunnerJob(w, h.job[1], h.job[2])
  <2>1. StoreStep({}, "none")
    BY <1>1, <1>3, <1>7, StoreRelease
  <2> QED BY <1>1, <2>1, StoreConcludes
<1> QED BY <1>4, <1>5, <1>6, <1>7

\* An execution begins at most once: the renewal that begins it is the
\* accepted start of a lease under which nothing was executed before, and of
\* the last lease there will be.
LEMMA BeginPromise ==
  ASSUME WorkInv, NEW w \in Runners, Receive(w) PROVE [Promise!PromiseNext]_(Promise!promised)
<1>1. PICK m : m = Head(responses[w])
  OBVIOUS
<1>2. responses[w] # <<>> /\ UNCHANGED <<jobStatus, ran>>
  BY DEF Receive, queue
<1>3. m \in Responses /\ m.job \in Jobs /\ ResponseOK(w, m)
  BY <1>1, <1>2, FirstResponse
<1>4. m.type \in {"assignment", "renewed", "logAck", "cancel"}
  BY <1>3 DEF Responses, Assignments, Answers, Acks
<1>5. CASE UNCHANGED begun
  BY <1>2, <1>5, SameStatuses
<1>6. CASE begun' # begun
  <2>1. m.type = "renewed" /\ TakeRenewal(w, m)
    <3>1. m.type # "assignment"
      BY <1>1, <1>6 DEF Receive, TakeAssignment, Break
    <3>2. m.type \notin {"logAck", "cancel"}
      BY <1>1, <1>6 DEF Receive, TakeLogAck, TakeCancel
    <3> QED BY <1>1, <1>4, <3>1, <3>2 DEF Receive
  <2>2. PICK d : d = active[w][m.job]
    OBVIOUS
  <2>3. d \in Entries /\ EntryOK(w, m.job, d) /\ d.phase \in Phases /\ d.lost \in BOOLEAN
    BY <1>3, <2>2, EntryKnown DEF Entries
  <2>4. d.phase = "awaitingStart" /\ ~d.lost /\ begun' = [begun EXCEPT ![m.job] = @ + 1]
    BY <1>6, <2>1, <2>2, <2>3 DEF TakeRenewal, Break, Phases
  <2>5. begun[m.job] = 0
    BY <1>3, <2>1, <2>2, <2>3, <2>4 DEF ResponseOK, Authorized, EntryOK, AwaitingPhases, Unused
  <2>6. begun' = [begun EXCEPT ![m.job] = 1]
    BY <2>4, <2>5
  <2>7. [j \in Jobs |-> Recorded(j)'] = [j \in Jobs |-> Recorded(j)]
    BY <1>2 DEF Recorded, Status
  <2>8. Promise!Begin(m.job)
    BY <1>2, <2>5, <2>6, <2>7 DEF Promise!Begin, Recorded
  <2> QED BY <1>3, <2>8 DEF Promise!PromiseNext
<1> QED BY <1>5, <1>6

\* An executor that returns no error has run to the end.
LEMMA FinishPromise ==
  ASSUME WorkInv, NEW w \in Runners, NEW x \in executing[w], NEW v \in Q!JobResults,
         FinishExecution(w, x[1], x[2], v)
  PROVE  [Promise!PromiseNext]_(Promise!promised)
<1>1. PICK j \in Jobs : j = x[1]
  BY DEF WorkInv, WorkTypeOK, Leases
<1>2. begun[j] = 1
  BY <1>1 DEF WorkInv, RunnerOK, ExecutionOK
<1>3. UNCHANGED <<jobStatus, begun>> /\ ran' = IF v = "succeeded" THEN ran \cup {j} ELSE ran
  BY <1>1 DEF FinishExecution, queue
<1>4. CASE v = "succeeded"
  <2>1. [i \in Jobs |-> Recorded(i)'] = [i \in Jobs |-> Recorded(i)]
    BY <1>3 DEF Recorded, Status
  <2>2. Promise!RunToEnd(j)
    BY <1>2, <1>3, <1>4, <2>1 DEF Promise!RunToEnd, Recorded
  <2> QED BY <1>1, <2>2 DEF Promise!PromiseNext
<1>5. CASE v # "succeeded"
  BY <1>3, <1>5, SameStatuses
<1> QED BY <1>4, <1>5

\* The store's own transactions.
LEMMA StorePromise ==
  ASSUME WorkInv,
         \/ \E r \in 1..RunLimit, c \in Kinds : Submit(r, c)
         \/ \E r \in 1..RunLimit : Cancel(r) \/ Recover(r)
         \/ \E j \in Jobs : StoreDeadline(j)
  PROVE  [Promise!PromiseNext]_(Promise!promised)
<1>1. StoreTypes
  BY DEF WorkInv, WorkTypeOK, StoreTypes
<1>2. UNCHANGED <<begun, ran>>
  BY DEF Submit, Cancel, Recover, StoreDeadline, rest, history
<1>3. PICK S \in SUBSET Jobs, v \in {"none", "failed", "canceled"} : StoreStep(S, v)
  <2>1. ASSUME NEW r \in 1..RunLimit, NEW c, Submit(r, c) PROVE StoreStep({}, "none")
    BY <1>1, <2>1, StoreCreate DEF Submit
  <2>2. ASSUME NEW r \in 1..RunLimit, Cancel(r) PROVE StoreStep(Jobs, "canceled")
    BY <1>1, <2>2, StoreCancel DEF Cancel
  <2>3. ASSUME NEW r \in 1..RunLimit, Recover(r) PROVE StoreStep(Jobs, "failed")
    BY <1>1, <2>3, StoreRecover DEF Recover
  <2>4. ASSUME NEW j \in Jobs, StoreDeadline(j) PROVE StoreStep({}, "none")
    BY <1>1, <2>4, StoreElapse DEF StoreDeadline
  <2> QED BY <2>1, <2>2, <2>3, <2>4
<1> QED BY <1>2, <1>3, StoreConcludes

\* Every step of the stream is a step of the promise or leaves it alone.
LEMMA PromiseStep ==
  ASSUME WorkInv, [Next]_vars PROVE [Promise!PromiseNext]_(Promise!promised)
<1>1. CASE UNCHANGED vars
  BY <1>1, SameStatuses DEF vars, queue, history
<1>2. ASSUME NEW w \in Runners,
             Connect(w) \/ StreamEnds(w) \/ Disconnect(w) \/ OrphanEnds(w) \/ Crash(w)
      PROVE  UNCHANGED Promise!promised
  BY <1>2, SameStatuses DEF Connect, StreamEnds, Disconnect, OrphanEnds, Crash, queue, history
<1>3. ASSUME NEW w \in Runners,
             \/ StopClaiming(w) \/ IssueCredential(w) \/ HandleResult(w) \/ SendHeartbeat(w)
             \/ HandleLoss(w) \/ AssignmentExpired(w)
      PROVE  UNCHANGED Promise!promised
  BY <1>3, SameStatuses
     DEF StopClaiming, IssueCredential, HandleResult, SendHeartbeat, HandleLoss, AssignmentExpired,
         Break, queue, history
<1>4. ASSUME NEW w \in Runners, NEW j \in Jobs, SendLog(w, j) \/ LocalDeadline(w, j) \/ WriteLog(w, j)
      PROVE  UNCHANGED Promise!promised
  BY <1>4, SameStatuses DEF SendLog, LocalDeadline, LoseLease, WriteLog, queue, history
<1>5. ASSUME NEW w \in Runners, Serve(w) \/ Claim(w) \/ Receive(w)
      PROVE  [Promise!PromiseNext]_(Promise!promised)
  BY <1>5, ServePromise, ClaimPromise, BeginPromise
<1>6. ASSUME NEW w \in Runners, NEW p \in BOOLEAN, CredentialUnavailable(w, p)
      PROVE  [Promise!PromiseNext]_(Promise!promised)
  BY <1>6, CredentialPromise
<1>7. ASSUME NEW w \in Runners, NEW e \in executing[w], NEW v \in Q!JobResults,
             FinishExecution(w, e[1], e[2], v)
      PROVE  [Promise!PromiseNext]_(Promise!promised)
  BY <1>7, FinishPromise
<1>8. CASE \/ \E r \in 1..RunLimit, c \in Kinds : Submit(r, c)
           \/ \E r \in 1..RunLimit : Cancel(r) \/ Recover(r)
           \/ \E j \in Jobs : StoreDeadline(j)
  BY <1>8, StorePromise
<1>9. ASSUME NEW j \in Jobs, LogExpires(j) PROVE UNCHANGED Promise!promised
  BY <1>9, SameStatuses DEF LogExpires, queue
<1> QED BY <1>1, <1>2, <1>3, <1>4, <1>5, <1>6, <1>7, <1>8, <1>9 DEF Next

\* The stream with its breaks, retries, lapsed leases and dead processes
\* implements the promise: every job is begun at most once, and recorded as
\* succeeded only after it ran to the end.
THEOREM PromiseKept == Spec => KeepsPromise
<1>1. Init => Promise!PromiseInit
  <2> SUFFICES ASSUME Init PROVE Promise!PromiseInit
    OBVIOUS
  <2>1. \A j \in Jobs : Status(j) = "none"
    BY DEF Init, Q!Init, Q!Runs, Q!NoJobs, Status, Jobs
  <2>2. [j \in Jobs |-> Recorded(j)] = [j \in Jobs |-> "open"]
    BY <2>1 DEF Recorded, Q!JobResults
  <2> QED BY <2>2 DEF Init, Promise!PromiseInit, Recorded
<1>2. WorkInv /\ [Next]_vars => [Promise!PromiseNext]_(Promise!promised)
  BY PromiseStep
<1> QED BY <1>1, <1>2, WorkInvariance, PTL DEF Spec, KeepsPromise, Promise!PromiseSpec
=============================================================================
