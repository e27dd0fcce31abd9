------------------------------ MODULE RunQueue ------------------------------
(***************************************************************************)
(* The run and job tables of the PostgreSQL store, and every transaction   *)
(* that changes them: creating a run, the Runner's claim, acknowledge,     *)
(* start, renewal, release and completion of a job, recovery of expired    *)
(* leases, cancellation and rerun.                                         *)
(*                                                                         *)
(* Each transaction is one action.  Those that relate several jobs of a    *)
(* run (claim, completion, recovery, cancellation, rerun) lock the run row *)
(* first; the others are a single UPDATE of one job row, so the committed  *)
(* transactions are serialisable and an aborted one changes nothing.       *)
(*                                                                         *)
(* All runs share one compiled plan, the constant Deps.  The runs are      *)
(* numbered in the order of runs.created_at.  A request that does not      *)
(* carry the current lease token of a job is refused without effect, so an *)
(* action of Runner w on a job is a request under the job's current lease. *)
(***************************************************************************)
EXTENDS Integers, FiniteSets

CONSTANTS
  RunLimit,     \* how many runs are ever created
  Keys,         \* jobs.job_key of the plan
  Deps,         \* jobs.dependencies: the keys a key waits for
  Kinds,        \* which kinds of run are submitted
  Runners,
  Descriptors,  \* the capabilities each Runner may announce in a heartbeat
  SourceCapable,\* runners that speak protocol version 2
  Retirable,    \* runners an administrator may disable
  Requests,     \* (user, request id) pairs of rerun requests
  LeaseTicks,   \* length of a lease, in units of the clock's resolution
  NoRunner      \* NULL in jobs.runner_id

Runs == 1..RunLimit

\* A run with and without runs.repository_id and runs.commit_sha.
AllKinds == {"bare", "checkout", "nosha", "norepo"}

\* What a heartbeat says of its Runner: how many jobs it takes at once, and the
\* keys whose pool, os, architecture, executor, labels and disk it meets.
RunnerDescriptor == [capacity : Nat \ {0}, fits : SUBSET Keys]

ASSUME RunLimitAssumption == RunLimit \in Nat
ASSUME KeysAssumption == IsFiniteSet(Keys) /\ Keys # {}
ASSUME DepsAssumption == Deps \in [Keys -> SUBSET Keys]
ASSUME KindsAssumption == Kinds \subseteq AllKinds
ASSUME RunnersAssumption == IsFiniteSet(Runners) /\ NoRunner \notin Runners
ASSUME DescriptorsAssumption ==
  \A w \in Runners : Descriptors[w] # {} /\ Descriptors[w] \subseteq RunnerDescriptor
ASSUME SubsetsAssumption == SourceCapable \subseteq Runners /\ Retirable \subseteq Runners
ASSUME LeaseTicksAssumption == LeaseTicks \in Nat \ {0}

VARIABLES
  runStatus,  \* runs.status; "absent" before the row is inserted
  kind,       \* the kind of each run
  jobStatus,  \* jobs.status; "none" where the run has no such row
  owner,      \* jobs.runner_id
  accepted,   \* jobs whose accepted_at is set
  ttl,        \* time left until lease_expires_at, 0 once it passed or is NULL
  disabled,   \* runners whose status is 'disabled'
  descriptor, \* the capabilities in the row of each Runner
  pending,    \* runs with a commit_status_outbox row <run>:pending
  final,      \* commit_state of the row <run>:final, or "none"
  rerunKey    \* the rerun request that created a run, or <<>>

vars == <<runStatus, kind, jobStatus, owner, accepted, ttl, disabled, descriptor, pending, final, rerunKey>>

-----------------------------------------------------------------------------
(* Statuses.                                                               *)

TerminalRun == {"succeeded", "failed", "canceled"}
RunStatuses == {"absent", "queued", "running"} \cup TerminalRun

Waiting == {"blocked", "queued"}
Leased == {"assigned", "running"}
Unfinished == Waiting \cup Leased
JobResults == {"succeeded", "failed", "canceled"}
JobStatuses == {"none", "skipped"} \cup Unfinished \cup JobResults

MutantStatusAsState(status) == status
CommitState(status) ==
  CASE status = "succeeded" -> "success"
    [] status = "failed"    -> "failure"
    [] status = "canceled"  -> "error"
    [] OTHER                -> "none"

Modes == {"full", "failed"}

-----------------------------------------------------------------------------
(* The job graph of one run: s is its row of jobStatus.                    *)

MutantAnyDependencyMet(s, k) == Deps[k] = {} \/ \E d \in Deps[k] : s[d] = "succeeded"
DependenciesMet(s, k) == \A d \in Deps[k] : s[d] = "succeeded"

\* UPDATE jobs SET status='queued' of the blocked jobs that wait for nothing.
MutantUnblockNothing(s) == s
Unblock(s) ==
  [k \in Keys |-> IF s[k] = "blocked" /\ DependenciesMet(s, k) THEN "queued" ELSE s[k]]

\* UPDATE jobs SET status='skipped' of the blocked and queued jobs.
Skip(s) == [k \in Keys |-> IF s[k] \in Waiting THEN "skipped" ELSE s[k]]

\* The jobs insertRun writes for a plan.
PlannedJobs == [k \in Keys |-> IF Deps[k] = {} THEN "queued" ELSE "blocked"]

NoJobs == [k \in Keys |-> "none"]

\* finalizeRunJobs: the graph after a job of the run ended with result.
Propagate(s, result) == IF result = "succeeded" THEN Unblock(s) ELSE Skip(s)

MutantConcludedWithQueued(s) == \A k \in Keys : s[k] \notin {"blocked"} \cup Leased
MutantSkippedRemain(s) == \A k \in Keys : s[k] \notin Unfinished \cup {"skipped"}
Concluded(s) == \A k \in Keys : s[k] \notin Unfinished

\* finalizeRunJobs: the status of a run none of whose jobs is unfinished.
MutantCanceledFirst(s) ==
  IF \E k \in Keys : s[k] = "canceled" THEN "canceled"
  ELSE IF \E k \in Keys : s[k] = "failed" THEN "failed" ELSE "succeeded"
Outcome(s) ==
  IF \E k \in Keys : s[k] = "failed" THEN "failed"
  ELSE IF \E k \in Keys : s[k] = "canceled" THEN "canceled" ELSE "succeeded"

-----------------------------------------------------------------------------
(* enqueueCommitStatusForRun for a terminal status.  An existing row with  *)
(* another state makes it fail, and with it the transaction.               *)

FinalCompatible(r, status) == kind[r] = "checkout" => final[r] \in {"none", CommitState(status)}

MutantForgetFinal(r, status) == FinalCompatible(r, status) /\ UNCHANGED final
EnqueueFinal(r, status) ==
  /\ FinalCompatible(r, status)
  /\ final' = IF kind[r] = "checkout" THEN [final EXCEPT ![r] = CommitState(status)] ELSE final

-----------------------------------------------------------------------------
Init ==
  /\ runStatus = [r \in Runs |-> "absent"]
  /\ kind = [r \in Runs |-> "bare"]
  /\ jobStatus = [r \in Runs |-> NoJobs]
  /\ owner = [r \in Runs |-> [k \in Keys |-> NoRunner]]
  /\ accepted = {}
  /\ ttl = [r \in Runs |-> [k \in Keys |-> 0]]
  /\ disabled = {}
  /\ descriptor \in [Runners -> UNION {Descriptors[w] : w \in Runners}]
  /\ \A w \in Runners : descriptor[w] \in Descriptors[w]
  /\ pending = {}
  /\ final = [r \in Runs |-> "none"]
  /\ rerunKey = [r \in Runs |-> <<>>]

-----------------------------------------------------------------------------
(* Creating runs.                                                          *)

\* The next row in the order of created_at.
Fresh(r) == runStatus[r] = "absent" /\ \A q \in 1..(r - 1) : runStatus[q] # "absent"

\* insertRun: the run, its jobs, and the commit status of its first state.
InsertRun(r, c, status, jobs, request) ==
  /\ Fresh(r)
  /\ runStatus' = [runStatus EXCEPT ![r] = status]
  /\ kind' = [kind EXCEPT ![r] = c]
  /\ jobStatus' = [jobStatus EXCEPT ![r] = jobs]
  /\ rerunKey' = [rerunKey EXCEPT ![r] = request]
  /\ pending' = IF c = "checkout" /\ status = "queued" THEN pending \cup {r} ELSE pending
  /\ final' = IF c = "checkout" THEN [final EXCEPT ![r] = CommitState(status)] ELSE final
  /\ UNCHANGED <<owner, accepted, ttl, disabled, descriptor>>

\* Create, CreateAuthorizedRun and CommitWebhookRun.
CreateRun(r, c) == InsertRun(r, c, "queued", PlannedJobs, <<>>)

\* CommitWebhookFailedRun: the configuration of the commit does not compile.
CreateFailedRun(r) == InsertRun(r, "checkout", "failed", NoJobs, <<>>)

\* RerunAuthorizedRun: run n repeats run o, all of it or what did not succeed.
Reused(o) == [k \in Keys |-> IF jobStatus[o][k] = "succeeded" THEN "succeeded" ELSE PlannedJobs[k]]

MutantRerunJobs(o, mode) == IF mode = "failed" THEN Reused(o) ELSE PlannedJobs
RerunJobs(o, mode) == IF mode = "failed" THEN Unblock(Reused(o)) ELSE PlannedJobs

RerunAuthorizedRun(o, n, mode, request) ==
  /\ kind[o] \in {"checkout", "nosha"}
  /\ runStatus[o] \in TerminalRun
  /\ mode = "failed" => runStatus[o] = "failed"
  /\ \A q \in Runs : rerunKey[q] # <<o, mode, request>>
  /\ jobStatus[o] # NoJobs
  /\ InsertRun(n, kind[o], "queued", RerunJobs(o, mode), <<o, mode, request>>)

-----------------------------------------------------------------------------
(* The Runner's requests.                                                  *)

\* The jobs of Runner w whose lease has not run out.
LiveLeases(w) ==
  {j \in Runs \X Keys : /\ owner[j[1]][j[2]] = w
                        /\ jobStatus[j[1]][j[2]] \in Leased
                        /\ ttl[j[1]][j[2]] > 0}

\* The queued jobs of run r whose requirements Runner w meets.
MutantMatchingAssigned(w, r) ==
  {k \in Keys : jobStatus[r][k] \in {"queued", "assigned"} /\ k \in descriptor[w].fits}
MutantMatchingLapsed(w, r) ==
  {k \in Keys : /\ jobStatus[r][k] = "queued" \/ (jobStatus[r][k] \in Leased /\ ttl[r][k] = 0)
                /\ k \in descriptor[w].fits}
Matching(w, r) ==
  {k \in Keys : /\ jobStatus[r][k] = "queued"
                /\ k \in descriptor[w].fits
                /\ kind[r] = "checkout" => w \in SourceCapable}

Claimable(w) == {r \in Runs : runStatus[r] \in {"queued", "running"} /\ Matching(w, r) # {}}

\* The oldest claimable run, or a later one while other transactions hold the
\* older ones (SKIP LOCKED).  A run with only half of the source metadata makes
\* the claim fail.
ClaimRunnerJob(w, r, k) ==
  /\ w \notin disabled
  /\ Cardinality(LiveLeases(w)) < descriptor[w].capacity
  /\ r \in Claimable(w)
  /\ k \in Matching(w, r)
  /\ kind[r] \in {"bare", "checkout"}
  /\ jobStatus' = [jobStatus EXCEPT ![r][k] = "assigned"]
  /\ owner' = [owner EXCEPT ![r][k] = w]
  /\ accepted' = accepted \ {<<r, k>>}
  /\ ttl' = [ttl EXCEPT ![r][k] = LeaseTicks]
  /\ runStatus' = [runStatus EXCEPT ![r] = "running"]
  /\ UNCHANGED <<kind, disabled, descriptor, pending, final, rerunKey>>

\* The lease every later request of the Runner must hold.
MutantHoldsIgnoringExpiry(w, r, k) == owner[r][k] = w /\ jobStatus[r][k] \in Leased
Holds(w, r, k) ==
  /\ owner[r][k] = w
  /\ jobStatus[r][k] \in Leased
  /\ ttl[r][k] > 0

\* attachSourceCredential gives back a job with source that it has just claimed.
ReleaseRunnerJob(w, r, k) ==
  /\ kind[r] = "checkout"
  /\ Holds(w, r, k)
  /\ jobStatus[r][k] = "assigned"
  /\ <<r, k>> \notin accepted
  /\ jobStatus' = [jobStatus EXCEPT ![r][k] = "queued"]
  /\ owner' = [owner EXCEPT ![r][k] = NoRunner]
  /\ ttl' = [ttl EXCEPT ![r][k] = 0]
  /\ UNCHANGED <<runStatus, kind, accepted, disabled, descriptor, pending, final, rerunKey>>

AcknowledgeRunnerJob(w, r, k) ==
  /\ Holds(w, r, k)
  /\ accepted' = accepted \cup {<<r, k>>}
  /\ UNCHANGED <<runStatus, kind, jobStatus, owner, ttl, disabled, descriptor, pending, final, rerunKey>>

StartRunnerJob(w, r, k) ==
  /\ Holds(w, r, k)
  /\ <<r, k>> \in accepted
  /\ jobStatus' = [jobStatus EXCEPT ![r][k] = "running"]
  /\ UNCHANGED <<runStatus, kind, owner, accepted, ttl, disabled, descriptor, pending, final, rerunKey>>

\* The jobs that were assigned to Runner w last.
Assigned(w) == {j \in Runs \X Keys : owner[j[1]][j[2]] = w}

\* A heartbeat that announces the capabilities d and lists the jobs S of the
\* Runner.  It replaces what was announced before, whatever leases are live.
RenewRunnerLeases(w, S, d) ==
  /\ w \notin disabled
  /\ Cardinality(S) <= d.capacity
  /\ descriptor' = [descriptor EXCEPT ![w] = d]
  /\ ttl' = [r \in Runs |-> [k \in Keys |->
               IF <<r, k>> \in S /\ Holds(w, r, k) THEN LeaseTicks ELSE ttl[r][k]]]
  /\ UNCHANGED <<runStatus, kind, jobStatus, owner, accepted, disabled, pending, final, rerunKey>>

\* The graph of run r after job k of it ended with result.
Completed(r, k, result) == Propagate([jobStatus[r] EXCEPT ![k] = result], result)

CompleteRunnerJob(w, r, k, result) ==
  LET s == Completed(r, k, result)
  IN  /\ Holds(w, r, k)
      /\ jobStatus' = [jobStatus EXCEPT ![r] = s]
      /\ ttl' = [ttl EXCEPT ![r][k] = 0]
      /\ IF Concluded(s)
           THEN /\ runStatus' = [runStatus EXCEPT ![r] = Outcome(s)]
                /\ EnqueueFinal(r, Outcome(s))
           ELSE UNCHANGED <<runStatus, final>>
      /\ UNCHANGED <<kind, owner, accepted, disabled, descriptor, pending, rerunKey>>

-----------------------------------------------------------------------------
(* Recovery, cancellation and administration.                              *)

Expired(r) == {k \in Keys : jobStatus[r][k] \in Leased /\ ttl[r][k] = 0}

\* RecoverExpiredRunnerLeases handles the expired jobs S of a run one after
\* another, in the order of their deadlines: an assigned job is queued again, a
\* running one fails and skips the jobs that are blocked or queued by then.
\* The jobs in late are assigned ones that come after the last running one.
MutantRequeueLost(s, S, late) == [k \in Keys |-> IF k \in S THEN "queued" ELSE s[k]]
RecoveredJobs(s, S, late) ==
  LET lost == {k \in S : s[k] = "running"}
  IN  [k \in Keys |->
        CASE k \in lost      -> "failed"
          [] k \in S \ lost  -> IF k \in late \/ lost = {} THEN "queued" ELSE "skipped"
          [] OTHER           -> IF lost = {} THEN s[k] ELSE Skip(s)[k]]

RecoverExpiredRunnerLeases(r, S, late) ==
  LET s    == RecoveredJobs(jobStatus[r], S, late)
      back == {k \in S : jobStatus[r][k] = "assigned"}
  IN  /\ S # {} /\ S \subseteq Expired(r) /\ late \subseteq back
      /\ jobStatus' = [jobStatus EXCEPT ![r] = s]
      /\ owner' = [owner EXCEPT ![r] = [k \in Keys |-> IF k \in back THEN NoRunner ELSE @[k]]]
      /\ accepted' = accepted \ ({r} \X back)
      /\ CASE S # back ->
                /\ runStatus' = [runStatus EXCEPT ![r] = "failed"]
                /\ EnqueueFinal(r, "failed")
           [] S = back /\ (\A k \in Keys : s[k] \notin {"running"} \cup JobResults) ->
                runStatus' = [runStatus EXCEPT ![r] = "queued"] /\ UNCHANGED final
           [] OTHER -> UNCHANGED <<runStatus, final>>
      /\ UNCHANGED <<kind, ttl, disabled, descriptor, pending, rerunKey>>

CancelAuthorizedRun(r) ==
  /\ kind[r] \in {"checkout", "nosha"}
  /\ runStatus[r] \in {"queued", "running"}
  /\ jobStatus' = [jobStatus EXCEPT ![r] =
       [k \in Keys |-> IF @[k] \in Unfinished THEN "canceled" ELSE @[k]]]
  /\ ttl' = [ttl EXCEPT ![r] = [k \in Keys |-> 0]]
  /\ runStatus' = [runStatus EXCEPT ![r] = "canceled"]
  /\ EnqueueFinal(r, "canceled")
  /\ UNCHANGED <<kind, owner, accepted, disabled, descriptor, pending, rerunKey>>

DisableRunner(w) ==
  /\ disabled' = disabled \cup {w}
  /\ UNCHANGED <<runStatus, kind, jobStatus, owner, accepted, ttl, descriptor, pending, final, rerunKey>>

\* The clock moves towards the deadline of a lease.
Elapse(r, k) ==
  /\ jobStatus[r][k] \in Leased
  /\ ttl[r][k] > 0
  /\ ttl' = [ttl EXCEPT ![r][k] = @ - 1]
  /\ UNCHANGED <<runStatus, kind, jobStatus, owner, accepted, disabled, descriptor, pending, final, rerunKey>>

-----------------------------------------------------------------------------
Next ==
  \/ \E r \in Runs, c \in Kinds : CreateRun(r, c)
  \/ \E r \in Runs : CreateFailedRun(r)
  \/ \E o, n \in Runs, mode \in Modes, q \in Requests : RerunAuthorizedRun(o, n, mode, q)
  \/ \E w \in Runners, r \in Runs, k \in Keys : ClaimRunnerJob(w, r, k)
  \/ \E w \in Runners, r \in Runs, k \in Keys : ReleaseRunnerJob(w, r, k)
  \/ \E w \in Runners, r \in Runs, k \in Keys : AcknowledgeRunnerJob(w, r, k)
  \/ \E w \in Runners, r \in Runs, k \in Keys : StartRunnerJob(w, r, k)
  \/ \E w \in Runners : \E S \in SUBSET Assigned(w), d \in Descriptors[w] :
       RenewRunnerLeases(w, S, d)
  \/ \E w \in Runners, r \in Runs, k \in Keys, result \in JobResults :
       CompleteRunnerJob(w, r, k, result)
  \/ \E r \in Runs, S \in SUBSET Keys, late \in SUBSET Keys :
       RecoverExpiredRunnerLeases(r, S, late)
  \/ \E r \in Runs : CancelAuthorizedRun(r)
  \/ \E w \in Retirable : DisableRunner(w)
  \/ \E r \in Runs, k \in Keys : Elapse(r, k)

Spec == Init /\ [][Next]_vars

-----------------------------------------------------------------------------
(* Fairness.  A connected Runner claims with every heartbeat, and recovery *)
(* runs every five seconds.  A job that is offered again and again is in   *)
(* the end accepted and started.  A running job ends, since the executor   *)
(* applies the timeout of the plan, or its Runner stops renewing.          *)

ClaimOldest(w) ==
  \E r \in Runs, k \in Keys : (\A q \in Claimable(w) : r <= q) /\ ClaimRunnerJob(w, r, k)

EndOfRunning(r, k) ==
  /\ jobStatus[r][k] = "running"
  /\ \/ \E w \in Runners, result \in JobResults : CompleteRunnerJob(w, r, k, result)
     \/ ttl[r][k] = 1 /\ Elapse(r, k)

Fairness ==
  /\ \A w \in Runners : WF_vars(ClaimOldest(w))
  /\ \A r \in Runs, k \in Keys :
       /\ SF_vars(\E w \in Runners : AcknowledgeRunnerJob(w, r, k))
       /\ SF_vars(\E w \in Runners : StartRunnerJob(w, r, k))
       /\ WF_vars(EndOfRunning(r, k))
  /\ \A r \in Runs :
       WF_vars(\E S \in SUBSET Keys, late \in SUBSET Keys : RecoverExpiredRunnerLeases(r, S, late))

FairSpec == Spec /\ Fairness

-----------------------------------------------------------------------------
(* Properties.                                                             *)

\* The tables hold values of their columns' types.
TypeOK ==
  /\ runStatus \in [Runs -> RunStatuses]
  /\ kind \in [Runs -> AllKinds]
  /\ jobStatus \in [Runs -> [Keys -> JobStatuses]]
  /\ owner \in [Runs -> [Keys -> Runners \cup {NoRunner}]]
  /\ accepted \subseteq Runs \X Keys
  /\ ttl \in [Runs -> [Keys -> 0..LeaseTicks]]
  /\ disabled \subseteq Runners
  /\ descriptor \in [Runners -> RunnerDescriptor]
  /\ pending \subseteq Runs
  /\ final \in [Runs -> {"none", "success", "failure", "error"}]
  /\ rerunKey \in [Runs -> {<<>>} \cup (Runs \X Modes \X Requests)]

\* A job of the graph s is past "blocked" only if what it depends on succeeded.
Ordered(s) ==
  \A k \in Keys : s[k] \in {"queued", "succeeded", "failed"} \cup Leased =>
    \A d \in Deps[k] : s[d] = "succeeded"

\* No job is offered, handed out or executed before every job it depends on
\* has succeeded, whatever completions, recoveries, releases and reruns came
\* before (finalizeRunJobs, RerunAuthorizedRun).
DependenciesRespected == \A r \in Runs : Ordered(jobStatus[r])

\* A blocked job always waits for a job that can still finish: no order of
\* completions leaves a join blocked with nothing left to release it
\* (finalizeRunJobs under the run lock).
BlockedAwaitsWork ==
  \A r \in Runs, k \in Keys :
    jobStatus[r][k] = "blocked" => \E d \in Deps[k] : jobStatus[r][d] \in Unfinished

\* The verdict of a finished run is the verdict of its jobs: a succeeded run
\* has only succeeded jobs, a canceled run nothing unfinished, and a failed run
\* a job that failed, unless its configuration never produced a job.
Verdict(status, s) ==
  /\ status = "succeeded" => \A k \in Keys : s[k] = "succeeded"
  /\ status = "canceled"  => Concluded(s)
  /\ status = "failed"    => s = NoJobs \/ \E k \in Keys : s[k] = "failed"

\* Every run keeps to Verdict, whichever transaction concluded it and whatever
\* was still running at that moment.
VerdictSound == \A r \in Runs : Verdict(runStatus[r], jobStatus[r])

\* A run that is not finished still has a job to finish, so some completion,
\* recovery or cancellation is always left to conclude it.
OpenRunHasWork ==
  \A r \in Runs :
    runStatus[r] \in {"queued", "running"} => \E k \in Keys : jobStatus[r][k] \in Unfinished

\* A run with source has a final commit status in the outbox exactly when it is
\* finished, in every committed state, and the status is `success` exactly if
\* the run succeeded.  Which of `failure` and `error` the others get is not
\* claimed here: the design document and commit_status.go disagree on it.
OutboxAgrees ==
  \A r \in Runs :
    /\ final[r] # "none" <=> kind[r] = "checkout" /\ runStatus[r] \in TerminalRun
    /\ final[r] = "success" <=> kind[r] = "checkout" /\ runStatus[r] = "succeeded"

\* Whatever a Runner reports for a job it still holds can be recorded, and so
\* can its loss: neither ever contradicts a final commit status written before,
\* which would make enqueueCommitStatusForRun abort the completion, or the
\* recovery of every run, for good.
ResultsRecordable ==
  \A r \in Runs, k \in Keys : jobStatus[r][k] \in Leased =>
    /\ \A result \in JobResults :
         LET s == Completed(r, k, result)
         IN  Concluded(s) => FinalCompatible(r, Outcome(s))
    /\ FinalCompatible(r, "failed")

\* A step that makes a lease of a Runner live stays within what it announced.
CapacityKept ==
  \A w \in Runners :
    LiveLeases(w)' \subseteq LiveLeases(w)
      \/ Cardinality(LiveLeases(w)') <= descriptor[w].capacity

\* A Runner gets work only within the capacity of its last heartbeat: expired
\* leases are not counted by the claim, but no renewal brings one back to life,
\* and leases left from a larger capacity run off before anything is added.
CapacityRespected == [][CapacityKept]_vars

\* A step keeps running jobs running until they end, and results as they are.
ResultsKept ==
  \A r \in Runs, k \in Keys :
    /\ jobStatus[r][k] = "running" => jobStatus'[r][k] \in {"running"} \cup JobResults
    /\ jobStatus[r][k] \in JobResults \cup {"skipped"} => jobStatus'[r][k] = jobStatus[r][k]

\* Work that has started is never handed out again: a running job ends, and a
\* finished job keeps its result ("It is never automatically rerun").
StartedOnce == [][ResultsKept]_vars

\* A step keeps the verdict of finished runs.
VerdictKept == \A r \in Runs : runStatus[r] \in TerminalRun => runStatus'[r] = runStatus[r]

\* A finished run keeps its verdict, although jobs of a run that recovery
\* failed may still be running and complete later.
VerdictFinal == [][VerdictKept]_vars

\* A step takes a job only from a Runner whose lease is over or never accepted.
OwnersKept ==
  \A r \in Runs, k \in Keys :
    owner[r][k] \in Runners /\ owner'[r][k] # owner[r][k] =>
      owner'[r][k] = NoRunner /\ (ttl[r][k] = 0 \/ <<r, k>> \notin accepted)

\* A job never moves from Runner to Runner, and never leaves a Runner that has
\* accepted it while its lease is live ("there is no silent ownership transfer").
NoSilentTransfer == [][OwnersKept]_vars

\* Every run that was accepted is concluded.
RunsConclude ==
  \A r \in Runs : runStatus[r] \in {"queued", "running"} ~> runStatus[r] \in TerminalRun

-----------------------------------------------------------------------------
(* The inductive invariant: the properties above, with what keeps them     *)
(* true.                                                                   *)

\* A blocked job waits for one that has not succeeded, beside no failure.
BlockedInOrder(s) ==
  \A k \in Keys : s[k] = "blocked" =>
    /\ \E d \in Deps[k] : s[d] # "succeeded"
    /\ \A j \in Keys : s[j] \notin {"none", "skipped", "failed", "canceled"}

\* Only a failed or canceled job makes others skipped.
SkippedForCause(s) ==
  (\E k \in Keys : s[k] = "skipped") => \E k \in Keys : s[k] \in {"failed", "canceled"}

\* The rows of a plan are inserted together.
Whole(s) == s = NoJobs \/ \A k \in Keys : s[k] # "none"

\* A leased job has an owner, a running one is acknowledged, and only a leased
\* job has a deadline.
LeaseCoherent(r) ==
  \A k \in Keys :
    /\ jobStatus[r][k] \in Leased => owner[r][k] \in Runners
    /\ jobStatus[r][k] = "running" => <<r, k>> \in accepted
    /\ ttl[r][k] > 0 => jobStatus[r][k] \in Leased

\* What holds of one run.
RunInv(r) ==
  /\ Ordered(jobStatus[r])
  /\ BlockedInOrder(jobStatus[r])
  /\ SkippedForCause(jobStatus[r])
  /\ Whole(jobStatus[r])
  /\ Verdict(runStatus[r], jobStatus[r])
  /\ runStatus[r] \in {"queued", "running"} => \E k \in Keys : jobStatus[r][k] \in Unfinished
  /\ runStatus[r] = "absent" => jobStatus[r] = NoJobs
  /\ final[r] = IF kind[r] = "checkout" THEN CommitState(runStatus[r]) ELSE "none"
  /\ LeaseCoherent(r)

\* The invariant every transaction preserves; the safety properties follow.
IndInv == TypeOK /\ \A r \in Runs : RunInv(r)

-----------------------------------------------------------------------------
(* What the documents of the repository say, and the transactions do not   *)
(* keep.                                                                   *)

\* When a running job is lost, recovery skips the blocked and queued jobs and
\* finalizes the run as failed: nothing of a failed run waits to be executed.
NothingWaitsInFailedRun ==
  \A r \in Runs : runStatus[r] = "failed" => \A k \in Keys : jobStatus[r][k] \notin Waiting

\* A manual run of a project that names no commit is executed like any other.
ManualRunsConclude ==
  \A r \in Runs :
    runStatus[r] = "queued" /\ kind[r] = "nosha" ~> runStatus[r] \in TerminalRun
=============================================================================
