---------------------------- MODULE WebhookInbox ----------------------------
(***************************************************************************)
(* From a provider's event to a run: the rows of webhook_deliveries, the   *)
(* workers that claim them under a lease and orchestrate a run, recovery   *)
(* of lapsed leases, and the project settings the orchestrator reads       *)
(* before it fetches the pipeline and commits after.                       *)
(*                                                                         *)
(* Every claim draws a new lease id and increments attempt_count, which is *)
(* never reset: the attempt number stands for the lease id.                *)
(***************************************************************************)
EXTENDS Naturals

CONSTANTS
  Deliveries,  \* (provider, instance, delivery id)
  Payloads,    \* contents a delivery may arrive with
  Forks,       \* the payloads that are pull requests of another repository
  Workers,     \* delivery workers, one per server process
  Gitee,       \* the payloads of Gitee; the others are of GitHub
  MaxAttempts, \* githubhook.MaxAttempts
  NoPayload

ASSUME SetsAssumption == Forks \cup Gitee \subseteq Payloads /\ NoPayload \notin Payloads
ASSUME MaxAttemptsAssumption == MaxAttempts \in Nat \ {0}

VARIABLES
  status,   \* webhook_deliveries.status; "absent" before the row is inserted
  payload,  \* normalized_event and payload_sha256
  attempts, \* attempt_count
  live,     \* deliveries whose lease_expires_at is in the future
  ready,    \* deliveries whose next_attempt_at has come
  run,      \* the run with the idempotency key of the delivery, or "none"
  wanted,   \* events the project's settings enable, none if automation is off
  job       \* what each worker is doing

vars == <<status, payload, attempts, live, ready, run, wanted, job>>
table == <<status, payload, attempts, live, ready, run>>

Idle == [stage |-> "idle"]
Ended == {"processed", "ignored", "dead_letter"}

\* The runs a commit creates: of a plan, or of a configuration that has none.
Results == {"queued", "failed"}

Init ==
  /\ status = [d \in Deliveries |-> "absent"]
  /\ payload = [d \in Deliveries |-> NoPayload]
  /\ attempts = [d \in Deliveries |-> 0]
  /\ live = {} /\ ready = {}
  /\ run = [d \in Deliveries |-> "none"]
  /\ wanted = {}
  /\ job = [w \in Workers |-> Idle]

-----------------------------------------------------------------------------
(* The rows.                                                               *)

\* A first delivery is stored; a repeated one is acknowledged as a duplicate,
\* and one with other contents is refused as a conflict.
MutantReceiveWebhook(d, p) ==
  /\ status' = [status EXCEPT ![d] = IF @ = "absent" THEN "received" ELSE @]
  /\ payload' = [payload EXCEPT ![d] = p]
  /\ ready' = ready \cup {d}
  /\ UNCHANGED <<attempts, live, run, wanted, job>>
ReceiveWebhook(d, p) ==
  /\ status[d] = "absent"
  /\ status' = [status EXCEPT ![d] = "received"]
  /\ payload' = [payload EXCEPT ![d] = p]
  /\ ready' = ready \cup {d}
  /\ UNCHANGED <<attempts, live, run, wanted, job>>

ClaimWebhook(w, d) ==
  /\ job[w] = Idle
  /\ status[d] = "received" /\ d \in ready
  /\ status' = [status EXCEPT ![d] = "processing"]
  /\ attempts' = [attempts EXCEPT ![d] = @ + 1]
  /\ live' = live \cup {d}
  /\ job' = [job EXCEPT ![w] =
       [stage |-> "claimed", item |-> d, attempt |-> attempts[d] + 1, event |-> payload[d],
        result |-> "none"]]
  /\ UNCHANGED <<payload, ready, run, wanted>>

\* The lease of worker w's claim is the current one and has not lapsed.
MutantHoldsLease(w) == status[job[w].item] # "absent"
HoldsLease(w) ==
  /\ status[job[w].item] = "processing"
  /\ attempts[job[w].item] = job[w].attempt
  /\ job[w].item \in live

\* The worker is done with its delivery, whatever became of it.
Forget(w) == job' = [job EXCEPT ![w] = Idle]

\* The status FinalizeWebhook writes for a final state.
MutantFinalStatus(state) == state
FinalStatus(state) == IF state = "retry" THEN "received" ELSE state

\* FinalizeWebhook: without the lease it changes nothing.
FinalizeWebhook(w, state) ==
  LET d == job[w].item
  IN  /\ Forget(w)
      /\ IF HoldsLease(w)
           THEN /\ status' = [status EXCEPT ![d] = FinalStatus(state)]
                /\ live' = live \ {d}
                /\ ready' = IF state = "retry" THEN ready \ {d} ELSE ready
           ELSE UNCHANGED <<status, live, ready>>
      /\ UNCHANGED <<payload, attempts, run, wanted>>

MutantExhausted(n) == FALSE
Exhausted(n) == n >= MaxAttempts

MutantLapsed(d) == status[d] = "processing" /\ d \notin live /\ attempts[d] < MaxAttempts
Lapsed(d) == status[d] = "processing" /\ d \notin live

RecoverWebhookLeases(d) ==
  /\ Lapsed(d)
  /\ status' = [status EXCEPT ![d] = IF Exhausted(attempts[d]) THEN "dead_letter" ELSE "received"]
  /\ ready' = ready \cup {d}
  /\ UNCHANGED <<payload, attempts, live, run, wanted, job>>

-----------------------------------------------------------------------------
(* The orchestrator, process and finalizeFailure.                          *)

\* The settings in force have automation for the event.
Eligible(p) == p \in wanted \ Forks

ReadSettings(w) ==
  /\ job[w].stage = "claimed"
  /\ job' = [job EXCEPT ![w].stage = IF Eligible(job[w].event) THEN "fetching" ELSE "ignoring"]
  /\ UNCHANGED <<table, wanted>>

Ignore(w) ==
  /\ job[w].stage = "ignoring"
  /\ FinalizeWebhook(w, "ignored")

\* FetchPipeline and Compile: a configuration that is missing or does not
\* compile makes a failed run.
FetchPipeline(w, result) ==
  /\ job[w].stage = "fetching"
  /\ job' = [job EXCEPT ![w].stage = "fetched", ![w].result = result]
  /\ UNCHANGED <<table, wanted>>

\* lockGiteeDelivery: Gitee's events are checked against the settings again.
MutantStillEligible(p) == TRUE
StillEligible(p) == p \in Gitee => Eligible(p)

\* What the commit of worker w finds in its transaction.
Committable(w) ==
  /\ HoldsLease(w)
  /\ StillEligible(job[w].event)
  /\ run[job[w].item] \in {"none", job[w].result}

\* CommitWebhookRun and CommitWebhookFailedRun: the run, or the one an earlier
\* commit created, and the end of the delivery, in one transaction.  If its
\* answer is lost, the worker takes it for a failure.
CommitWebhookRun(w, answered) ==
  LET d == job[w].item
  IN  /\ job[w].stage = "fetched"
      /\ Committable(w)
      /\ run' = [run EXCEPT ![d] = job[w].result]
      /\ status' = [status EXCEPT ![d] = "processed"]
      /\ live' = live \ {d}
      /\ IF answered THEN Forget(w) ELSE job' = [job EXCEPT ![w].stage = "failed"]
      /\ UNCHANGED <<payload, attempts, ready, wanted>>

\* A lost lease counts as a transient failure, other settings as a permanent one.
CommitRefused(w) ==
  /\ job[w].stage = "fetched"
  /\ ~Committable(w)
  /\ job' = [job EXCEPT ![w].stage = IF HoldsLease(w) THEN "invalid" ELSE "failed"]
  /\ UNCHANGED <<table, wanted>>

\* A query or a request fails, for now or for good.
Fail(w, stage) ==
  /\ job[w].stage \in {"claimed", "ignoring", "fetching", "fetched"}
  /\ job' = [job EXCEPT ![w].stage = stage]
  /\ UNCHANGED <<table, wanted>>

\* finalizeFailure: a transient failure is retried until the last attempt.
FinalizeFailure(w) ==
  /\ job[w].stage \in {"failed", "invalid"}
  /\ FinalizeWebhook(w, IF job[w].stage = "failed" /\ ~Exhausted(job[w].attempt)
                          THEN "retry" ELSE "dead_letter")

\* The server stops, or the store does not answer the finalization.
Abandon(w) ==
  /\ job[w] # Idle
  /\ Forget(w)
  /\ UNCHANGED <<table, wanted>>

-----------------------------------------------------------------------------
(* Settings and time.                                                      *)

UpdateProjectAutomation(S) ==
  /\ wanted' = S
  /\ UNCHANGED <<table, job>>

LeaseLapses(d) ==
  /\ d \in live
  /\ live' = live \ {d}
  /\ UNCHANGED <<status, payload, attempts, ready, run, wanted, job>>

BackoffOver(d) ==
  /\ status[d] = "received" /\ d \notin ready
  /\ ready' = ready \cup {d}
  /\ UNCHANGED <<status, payload, attempts, live, run, wanted, job>>

-----------------------------------------------------------------------------
Work(w) ==
  \/ ReadSettings(w) \/ Ignore(w) \/ CommitRefused(w) \/ FinalizeFailure(w) \/ Abandon(w)
  \/ \E result \in Results : FetchPipeline(w, result)
  \/ \E answered \in BOOLEAN : CommitWebhookRun(w, answered)
  \/ \E stage \in {"failed", "invalid"} : Fail(w, stage)

Next ==
  \/ \E d \in Deliveries, p \in Payloads : ReceiveWebhook(d, p)
  \/ \E w \in Workers, d \in Deliveries : ClaimWebhook(w, d)
  \/ \E w \in Workers : Work(w)
  \/ \E d \in Deliveries : RecoverWebhookLeases(d) \/ LeaseLapses(d) \/ BackoffOver(d)
  \/ \E S \in SUBSET Payloads : UpdateProjectAutomation(S)

Spec == Init /\ [][Next]_vars

(* A worker polls while it is idle and every call it makes has a deadline; *)
(* it runs recovery when it starts and every five seconds.                 *)
Fairness ==
  /\ \A w \in Workers : WF_vars(Work(w)) /\ WF_vars(\E d \in Deliveries : ClaimWebhook(w, d))
  /\ \A d \in Deliveries :
       WF_vars(LeaseLapses(d)) /\ WF_vars(BackoffOver(d)) /\ WF_vars(RecoverWebhookLeases(d))

FairSpec == Spec /\ Fairness

-----------------------------------------------------------------------------
(* Properties.                                                             *)

Stages == {"claimed", "ignoring", "fetching", "fetched", "failed", "invalid"}
Jobs == {Idle} \cup [stage : Stages, item : Deliveries, attempt : Nat, event : Payloads,
                     result : {"none"} \cup Results]

\* The types of the rows and of the workers.
TypeOK ==
  /\ status \in [Deliveries -> {"absent", "received", "processing"} \cup Ended]
  /\ payload \in [Deliveries -> Payloads \cup {NoPayload}]
  /\ attempts \in [Deliveries -> Nat]
  /\ live \subseteq Deliveries /\ ready \subseteq Deliveries
  /\ run \in [Deliveries -> {"none"} \cup Results]
  /\ wanted \subseteq Payloads
  /\ job \in [Workers -> Jobs]

\* A delivery has a run exactly when it counts as processed: no crash, lost
\* answer or worker that comes back late leaves a run behind a delivery that was
\* ignored, retried or given up, or a processed delivery without its run.
RunIffProcessed == \A d \in Deliveries : run[d] # "none" <=> status[d] = "processed"

\* No run comes from another repository's pull request, whatever contents the
\* provider sends under the same delivery id and however the settings change.
NoForkRuns == \A d \in Deliveries : run[d] # "none" => payload[d] \in Payloads \ Forks

\* A delivery is claimed at most MaxAttempts times, even if every worker that
\* claims it crashes.
AttemptsBounded == \A d \in Deliveries : attempts[d] <= MaxAttempts

\* A step leaves deliveries that have ended, and their runs, as they are.
EndKept ==
  \A d \in Deliveries :
    status[d] \in Ended => status'[d] = status[d] /\ run'[d] = run[d] /\ payload'[d] = payload[d]

\* The end of a delivery is final: redeliveries, recovery and workers with an
\* old lease find it and change nothing.
EndedOnce == [][EndKept]_vars

\* A step that creates a run of Gitee finds its event among those enabled.
CreatedAsWanted ==
  \A d \in Deliveries : run'[d] # run[d] /\ payload[d] \in Gitee => payload[d] \in wanted

\* Gitee: automation that was turned off while the pipeline was being fetched
\* creates no run (lockGiteeDelivery).
NoStaleTrigger == [][CreatedAsWanted]_vars

\* Every event that was accepted is processed, ignored or dead-lettered.
DeliveriesSettle ==
  \A d \in Deliveries : status[d] \in {"received", "processing"} ~> status[d] \in Ended
-----------------------------------------------------------------------------
(* The inductive invariant.                                                *)

\* What a row holds in each status, and how often it can have been claimed.
RowsCoherent ==
  \A d \in Deliveries :
    /\ status[d] = "absent" => attempts[d] = 0 /\ payload[d] = NoPayload
    /\ status[d] # "absent" => payload[d] \in Payloads
    /\ status[d] = "received" => attempts[d] < MaxAttempts
    /\ attempts[d] <= MaxAttempts

\* A busy worker knows the contents of its delivery, which has been claimed, and
\* is past the settings only with an event of the repository itself.
JobsCoherent ==
  \A w \in Workers : job[w] # Idle =>
    /\ status[job[w].item] # "absent"
    /\ job[w].event = payload[job[w].item]
    /\ job[w].stage \in {"fetching", "fetched"} => job[w].event \notin Forks
    /\ job[w].stage = "fetched" => job[w].result \in Results

\* The invariant every step preserves; the safety properties follow.
IndInv == TypeOK /\ RowsCoherent /\ JobsCoherent /\ RunIffProcessed /\ NoForkRuns
=============================================================================
