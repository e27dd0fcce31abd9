------------------------- MODULE CommitStatusOutbox -------------------------
(***************************************************************************)
(* The delivery of commit statuses: the rows of commit_status_outbox, the  *)
(* workers that claim them under a lease and report them to the provider,  *)
(* recovery of lapsed leases, replay of dead rows, and what the provider   *)
(* shows in the end.                                                       *)
(*                                                                         *)
(* A worker holds no transaction while it talks to the provider, so its    *)
(* lease may lapse and another worker may claim the row meanwhile.  A      *)
(* worker handles one row at a time and forgets it before the next claim:  *)
(* its name stands for the random lease_owner of its claim.                *)
(***************************************************************************)
EXTENDS Naturals, Sequences

CONSTANTS
  Runs,         \* runs with a repository and a commit, each on its own commit
  Workers,      \* commit status workers, one per server process
  Provider,     \* repositories.provider: "github" or "gitee"
  MaxAttempts,  \* statusMaximumAttempts
  AttemptLimit, \* CHECK (attempt_count BETWEEN 0 AND 100)
  Replayable,   \* rows an administrator may replay
  NoWorker      \* NULL in lease_owner

ASSUME ProviderAssumption == Provider \in {"github", "gitee"}
ASSUME AttemptsAssumption == MaxAttempts \in Nat /\ AttemptLimit \in Nat /\ MaxAttempts <= AttemptLimit
ASSUME WorkersAssumption == NoWorker \notin Workers

Finals == {"success", "failure", "error"}

\* The rows <run>:pending and <run>:final.
Items == Runs \X {"pending", "final"}

ASSUME ReplayableAssumption == Replayable \subseteq Items

VARIABLES
  delivery, \* delivery_state; "absent" before the row is inserted
  outcome,  \* commit_state of the final row of a run, "none" before
  attempts, \* attempt_count
  lease,    \* lease_owner
  live,     \* rows whose lease_expires_at is in the future
  ready,    \* rows whose available_at has come, in the order of available_at
  expired,  \* rows whose expires_at has passed
  job,      \* what each worker is doing
  checks,   \* the provider: how many checks a run has (Gitee)
  shown     \* the provider: the state of the newest check of a run, or "none"

vars == <<delivery, outcome, attempts, lease, live, ready, expired, job, checks, shown>>
rows == <<delivery, outcome, attempts, lease, live, ready, expired>>

Idle == [stage |-> "idle"]

Init ==
  /\ delivery = [i \in Items |-> "absent"]
  /\ outcome = [r \in Runs |-> "none"]
  /\ attempts = [i \in Items |-> 0]
  /\ lease = [i \in Items |-> NoWorker]
  /\ live = {} /\ expired = {} /\ ready = <<>>
  /\ job = [w \in Workers |-> Idle]
  /\ checks = [r \in Runs |-> 0]
  /\ shown = [r \in Runs |-> "none"]

\* The commit_state of a row.
MutantState(i) == IF i[2] = "pending" THEN "queued" ELSE outcome[i[1]]
State(i) == IF i[2] = "pending" THEN "pending" ELSE outcome[i[1]]

-----------------------------------------------------------------------------
(* Transactions on the rows.                                               *)

\* enqueueCommitStatusForRun, for a new run and for one that is finished.
EnqueuePending(r) ==
  /\ delivery[<<r, "pending">>] = "absent" /\ delivery[<<r, "final">>] = "absent"
  /\ delivery' = [delivery EXCEPT ![<<r, "pending">>] = "queued"]
  /\ ready' = Append(ready, <<r, "pending">>)
  /\ UNCHANGED <<outcome, attempts, lease, live, expired, job, checks, shown>>

EnqueueFinal(r, state) ==
  /\ delivery[<<r, "final">>] = "absent"
  /\ delivery' = [delivery EXCEPT ![<<r, "final">>] = "queued"]
  /\ outcome' = [outcome EXCEPT ![r] = state]
  /\ ready' = Append(ready, <<r, "final">>)
  /\ UNCHANGED <<attempts, lease, live, expired, job, checks, shown>>

Candidate(i) == delivery[i] = "queued" /\ i \notin expired

\* Row i comes first in the order of available_at.
FirstCandidate(i) ==
  /\ Candidate(i)
  /\ \E n \in 1..Len(ready) : ready[n] = i /\ \A m \in 1..(n - 1) : ~Candidate(ready[m])

\* The first candidate is claimed.  The UPDATE fails, and with it the claim, when
\* attempt_count is at its limit.
ClaimCommitStatus(w, i) ==
  /\ job[w] = Idle
  /\ FirstCandidate(i)
  /\ attempts[i] < AttemptLimit
  /\ delivery' = [delivery EXCEPT ![i] = "processing"]
  /\ attempts' = [attempts EXCEPT ![i] = @ + 1]
  /\ lease' = [lease EXCEPT ![i] = w]
  /\ live' = live \cup {i}
  /\ job' = [job EXCEPT ![w] = [stage |-> "claimed", item |-> i, attempt |-> attempts[i] + 1,
                                check |-> 0, seen |-> "none"]]
  /\ UNCHANGED <<outcome, ready, expired, checks, shown>>

\* The rows that stay ready when available_at of row i moves.
Without(i) == SelectSeq(ready, LAMBDA j : j # i)

\* The row is given up by its lease holder.
MutantUnlease(i) == live' = live \ {i} /\ UNCHANGED lease
Unlease(i) == lease' = [lease EXCEPT ![i] = NoWorker] /\ live' = live \ {i}

MutantRecoverable(i) == delivery[i] = "processing" /\ i \notin live
Recoverable(i) ==
  \/ delivery[i] = "processing" /\ i \notin live
  \/ delivery[i] = "queued" /\ i \in expired

RecoverCommitStatusLeases(i) ==
  /\ Recoverable(i)
  /\ delivery' = [delivery EXCEPT ![i] = IF i \in expired THEN "dead" ELSE "queued"]
  /\ Unlease(i)
  /\ UNCHANGED <<outcome, attempts, ready, expired, job, checks, shown>>

\* The worker is done with its row, whatever became of it.
Forget(w) == job' = [job EXCEPT ![w] = Idle]

FinishCommitStatus(w) ==
  LET i == job[w].item
  IN  /\ job[w].stage = "ok"
      /\ Forget(w)
      /\ IF delivery[i] = "processing" /\ lease[i] = w /\ i \in live
           THEN delivery' = [delivery EXCEPT ![i] = "delivered"] /\ Unlease(i)
           ELSE UNCHANGED <<delivery, lease, live>>
      /\ UNCHANGED <<outcome, attempts, ready, expired, checks, shown>>

\* Whether a failed delivery is the last one: late says that the next attempt
\* would come after expires_at.
RetryDecision(w, late) == \/ job[w].stage = "invalid"
                          \/ job[w].attempt >= MaxAttempts
                          \/ late

MutantOwned(w, i) == TRUE
Owned(w, i) == delivery[i] = "processing" /\ lease[i] = w

RescheduleCommitStatus(w, late) ==
  LET i == job[w].item
  IN  /\ job[w].stage \in {"failed", "invalid"}
      /\ i \in expired => late
      /\ Forget(w)
      /\ IF Owned(w, i)
           THEN /\ delivery' = [delivery EXCEPT ![i] = IF RetryDecision(w, late) THEN "dead" ELSE "queued"]
                /\ ready' = Without(i)
                /\ Unlease(i)
           ELSE UNCHANGED <<delivery, lease, live, ready>>
      /\ UNCHANGED <<outcome, attempts, expired, checks, shown>>

ReplayCommitStatus(i) ==
  /\ i \in Replayable /\ delivery[i] = "dead"
  /\ delivery' = [delivery EXCEPT ![i] = "queued"]
  /\ attempts' = [attempts EXCEPT ![i] = 0]
  /\ ready' = Append(Without(i), i)
  /\ expired' = expired \ {i}
  /\ UNCHANGED <<outcome, lease, live, job, checks, shown>>

-----------------------------------------------------------------------------
(* The provider.  A request that fails may have taken effect: its answer   *)
(* may be lost.                                                            *)

Answers == {"ok", "failed"}

\* The row cannot be delivered (no such provider is configured).
Refuse(w) ==
  /\ job[w].stage = "claimed"
  /\ job' = [job EXCEPT ![w].stage = "invalid"]
  /\ UNCHANGED <<rows, checks, shown>>

\* The repository binding, the token or the connection fails first.
Unreachable(w) ==
  /\ job[w].stage \in {"claimed", "found"}
  /\ job' = [job EXCEPT ![w].stage = "failed"]
  /\ UNCHANGED <<rows, checks, shown>>

\* DeliverCommitStatus: GitHub shows the status that was posted last.
DeliverGitHub(w, answer) ==
  /\ Provider = "github" /\ job[w].stage = "claimed"
  /\ shown' = [shown EXCEPT ![job[w].item[1]] = State(job[w].item)]
  /\ job' = [job EXCEPT ![w].stage = answer]
  /\ UNCHANGED <<rows, checks>>

\* DeliverCheck, reading: the newest check of the run, 0 if it has none.
LookupCheck(w) ==
  LET r == job[w].item[1]
  IN  /\ Provider = "gitee" /\ job[w].stage = "claimed"
      /\ job' = [job EXCEPT ![w].stage = "found", ![w].check = checks[r], ![w].seen = shown[r]]
      /\ UNCHANGED <<rows, checks, shown>>

\* DeliverCheck, writing: a pending status leaves a completed check alone.
MutantAlreadyCompleted(w) == FALSE
AlreadyCompleted(w) == job[w].seen \in Finals /\ State(job[w].item) = "pending"

\* The check that was found is updated, or a first one created.  An older check
\* than the newest is neither shown nor found again.
ReportCheck(w, answer) ==
  LET r == job[w].item[1]
  IN  /\ job[w].stage = "found"
      /\ IF AlreadyCompleted(w)
           THEN answer = "ok" /\ UNCHANGED <<checks, shown>>
           ELSE /\ checks' = [checks EXCEPT ![r] = IF job[w].check = 0 THEN @ + 1 ELSE @]
                /\ shown' = [shown EXCEPT ![r] =
                     IF job[w].check \in {0, checks[r]} THEN State(job[w].item) ELSE @]
      /\ job' = [job EXCEPT ![w].stage = answer]
      /\ UNCHANGED rows

\* The server stops, or the store does not answer: the worker starts over and
\* the row stays as it is.
Abandon(w) ==
  /\ job[w] # Idle
  /\ Forget(w)
  /\ UNCHANGED <<rows, checks, shown>>

-----------------------------------------------------------------------------
(* Time.                                                                   *)

LeaseLapses(i) ==
  /\ i \in live
  /\ live' = live \ {i}
  /\ UNCHANGED <<delivery, outcome, attempts, lease, ready, expired, job, checks, shown>>

BackoffOver(i) ==
  /\ delivery[i] = "queued" /\ \A n \in 1..Len(ready) : ready[n] # i
  /\ ready' = Append(ready, i)
  /\ UNCHANGED <<delivery, outcome, attempts, lease, live, expired, job, checks, shown>>

Expire(i) ==
  /\ delivery[i] \in {"queued", "processing"} /\ i \notin expired
  /\ expired' = expired \cup {i}
  /\ UNCHANGED <<delivery, outcome, attempts, lease, live, ready, job, checks, shown>>

-----------------------------------------------------------------------------
Next ==
  \/ \E r \in Runs : EnqueuePending(r) \/ \E state \in Finals : EnqueueFinal(r, state)
  \/ \E w \in Workers, i \in Items : ClaimCommitStatus(w, i)
  \/ \E i \in Items : RecoverCommitStatusLeases(i) \/ ReplayCommitStatus(i)
  \/ \E w \in Workers : FinishCommitStatus(w) \/ Refuse(w) \/ Unreachable(w)
  \/ \E w \in Workers : LookupCheck(w) \/ Abandon(w)
  \/ \E w \in Workers, late \in BOOLEAN : RescheduleCommitStatus(w, late)
  \/ \E w \in Workers, answer \in Answers : DeliverGitHub(w, answer) \/ ReportCheck(w, answer)
  \/ \E i \in Items : LeaseLapses(i) \/ BackoffOver(i) \/ Expire(i)

Spec == Init /\ [][Next]_vars

(* Time passes, and every server runs recovery when it starts and every    *)
(* five seconds.  Nothing is assumed of the provider or of a worker's luck.*)
Fairness ==
  \A i \in Items :
    /\ WF_vars(LeaseLapses(i)) /\ WF_vars(Expire(i))
    /\ WF_vars(RecoverCommitStatusLeases(i))

FairSpec == Spec /\ Fairness

-----------------------------------------------------------------------------
(* Properties.                                                             *)

Settled == {"delivered", "dead"}

Stages == {"claimed", "found", "ok", "failed", "invalid"}
Jobs == {Idle} \cup [stage : Stages, item : Items, attempt : 1..AttemptLimit, check : Nat,
                     seen : {"none", "pending"} \cup Finals]

\* The types of the rows, the workers and the provider.
TypeOK ==
  /\ delivery \in [Items -> {"absent", "queued", "processing"} \cup Settled]
  /\ outcome \in [Runs -> {"none"} \cup Finals]
  /\ attempts \in [Items -> 0..AttemptLimit]
  /\ lease \in [Items -> Workers \cup {NoWorker}]
  /\ live \subseteq Items /\ expired \subseteq Items
  /\ job \in [Workers -> Jobs]
  /\ checks \in [Runs -> Nat]
  /\ shown \in [Runs -> {"none", "pending"} \cup Finals]

\* Who holds a row: exactly the rows being processed have a lease holder, and
\* only they have a live lease (the constraints of the table, which would abort
\* a transaction that broke them).
LeasePaired ==
  \A i \in Items :
    /\ delivery[i] = "processing" <=> lease[i] # NoWorker
    /\ i \in live => lease[i] # NoWorker

\* A final status that the outbox calls delivered is what the provider shows,
\* whatever pending statuses were retried, recovered or replayed after it.
FinalShown == \A r \in Runs : delivery[<<r, "final">>] = "delivered" => shown[r] = outcome[r]

\* A step leaves delivered rows delivered.
DeliveredKept ==
  \A i \in Items : delivery[i] = "delivered" => delivery'[i] = "delivered"

\* A row whose delivery was recorded is never reopened, claimed again or buried,
\* although a worker whose lease was taken over still reports its own failure
\* afterwards (FinishCommitStatus, RescheduleCommitStatus, recovery, replay).
\* Such a worker may still post the status once more before it finds out.
DeliveredStays == [][DeliveredKept]_vars

\* Every status is delivered or dead in the end, even if workers crash in every
\* attempt and the provider never answers.
StatusesSettle ==
  \A i \in Items : delivery[i] \in {"queued", "processing"} ~> delivery[i] \in Settled

\* GitHub eventually receives the correct final status: once it is delivered,
\* GitHub comes to show it for good.
FinalReceived ==
  \A r \in Runs : delivery[<<r, "final">>] = "delivered" ~> [](shown[r] = outcome[r])

-----------------------------------------------------------------------------
(* The inductive invariants.                                               *)

\* The invariant of any number of workers.
RowInv == TypeOK /\ LeasePaired

\* A run has an outcome as soon as its final row exists, and the provider shows
\* no other final state.
OutcomeShown ==
  \A r \in Runs :
    /\ delivery[<<r, "final">>] = "absent" <=> outcome[r] = "none"
    /\ shown[r] \in {"none", "pending", outcome[r]}
    /\ checks[r] = 0 <=> shown[r] = "none"

\* A worker's row exists; what a single worker found is what the provider has,
\* and what it reported is what the provider shows.
WorkerKnows ==
  \A w \in Workers : job[w] # Idle =>
    LET r == job[w].item[1]
    IN  /\ delivery[job[w].item] # "absent"
        /\ job[w].stage = "found" =>
             job[w].check = checks[r] /\ job[w].seen = shown[r]
        /\ job[w].stage = "ok" /\ job[w].item[2] = "final" => shown[r] = outcome[r]

\* The invariant of Gitee's checks under a single worker.
CheckInv == RowInv /\ OutcomeShown /\ WorkerKnows /\ FinalShown
=============================================================================
