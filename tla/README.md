# YuanCI: a TLA+ verification project

YuanCI is a CI server: providers (GitHub, Gitee) send webhook events, the server
turns an event into a *run* of a compiled pipeline, *Runners* claim and execute
the jobs of the run under leases, and the outcome is reported back to the
provider as a commit status. All state that correctness depends on lives in
PostgreSQL; several servers, their background workers and any number of Runners
act on it concurrently. This project models that state and every transaction
on it, and the Runners and the requests that act between transactions. It checks
the models with TLC on small instances. Every safety property that a passing run
checks, and the refinement, is also proved with TLAPS for every value of the
constants: any number of runs, Runners, workers, messages, people and failures.

    event --> webhook inbox --> orchestrator --> run + jobs --> Runner
                                                   |
                                                   v
                              provider <-- worker <-- commit status outbox

## 1. Inventory

| Component | State | Operations | Interacts with | What is hard | What makes it correct |
|---|---|---|---|---|---|
| Run and job store (`internal/store/postgres/{store,runner_jobs,runner_recovery,run_actions,run_rerun,authorized_runs}.go`) | tables `runs`, `jobs` | create, claim, release, acknowledge, start, renew, complete, recover, cancel, rerun | Runners through the work stream; writes the outbox in its transactions | joins that complete together, stale leases, several leases of a run expiring at once, results after the verdict | order of the job graph, sound and final verdicts, no work repeated, capacity, every run concluded |
| Commit status outbox (`commit_status.go`, `internal/commitstatus`, `gitee/status.go`) | table `commit_status_outbox`, what the provider shows | enqueue, claim, deliver, finish, reschedule, recover, replay | store (rows), provider (HTTP) | delivery outlasting its lease, lost answers, pending after final | the provider ends up showing the final status; every row settles |
| Webhook inbox and orchestrator (`webhook_inbox.go`, `github_ci.go`, `internal/githubci`, `internal/githubhook`) | table `webhook_deliveries` | receive, claim, process, commit, finalize, recover | provider, project settings, store | crash or lost answer around the commit, stale worker, redelivery, settings that change meanwhile | one run for each processed delivery and none otherwise; every delivery ends |
| Runner work loop and work stream (`runner/work.go`, `runnergrpc/server.go`) | local jobs, lease timers, executors, channels, sessions | assignment, transitions, heartbeats, completion, reconnect | run store | reconnects, repeated transitions, answers of an earlier session, dropped notices of lost leases | nothing executes without a lease the server accepted the start of, nor twice; every job ends |
| Job logs (`logs.go`, `runner/logs.go`, `runner/redaction.go`) | rows of chunks, one pending chunk per job, bytes kept back by the filter | write, redact, send, append, acknowledge | work stream, executor | repeated chunks, limits, secrets cut between writes | stored exactly as the Runner made it, cut at the limit with a marker, without gap or repetition, and without a secret |
| Runner identity (`runner_identity.go`, `runnerauth`, `runner/credentials.go`) | tokens, certificates, PKI files, files of the Runner | initialize, enroll, authenticate, rotate, disable, revoke | Runner's disk | crash during rotation, lost answers | a lost answer or a crash does not cost the Runner its identity; no third certificate |
| Project automation (`project_automation.go`, `gitee_automation.go`) | settings, revision, validation | update, validate | inbox, provider | validation of an older revision, path or credential | enabled only with evidence that was really obtained |
| Pipeline compiler (`internal/pipeline`) | the search of a graph | validate, compile | orchestrator, API, run store | cycles, order between stages | exactly the executable pipelines compile, and their rows keep the order of stages and jobs |
| Sessions, OAuth, provisioning (`oauth.go`, `identity.go`, `provisioning.go`) | sessions, flows, candidates, setup codes, bootstrap | login, callback, link, setup, verify, activate, log out | HTTP API, provider | two transactions with a call to the provider in between | a session stands for the login that made it; configurations replace what their author saw |
| GitHub App and Gitee integrations (`integration.go`, `gitee.go`, `internal/integration`, `internal/gitee`) | Apps, flows, proofs, grants, repositories | save, authorize, import, refresh, revoke | providers | refresh by several requests, snapshots that go stale | a usable grant has an unspent token; imports belong to the App that was asked |
| Authorization policy, projects (`internal/authorization`, `identity.go`) | memberships | decide, edit memberships | every operation of a user | administrators that revoke each other | an administrator remains |
| In-memory run store (`internal/run`) | maps under a mutex | as the PostgreSQL store | tests, development | - | same contract |
| Executor, HTTP API, web interface, secrets, configuration, commands | - | I/O and wiring | - | - | - |

`PROJECT.json` lists the same components with their files and status, and the
hazards of the code each at its line.

## 2. Modules

### RunQueue

One action per transaction on `runs` and `jobs`. Transactions that relate
several jobs of a run lock the run row first and the others are a single UPDATE,
so each transaction is atomic; an aborted one changes nothing. State:
`runStatus`, `jobStatus`, `owner` (`jobs.runner_id`), `accepted`
(`accepted_at`), `ttl` (time until `lease_expires_at`), `disabled`, `descriptor`
(the columns of `runners` that say what a Runner can do), the outbox
rows `pending` and `final`, and `rerunKey` (the idempotency key of a rerun). The
plan is the constant `Deps`; runs are numbered in the order of `created_at`. The
*kind* of a run says which half of the source metadata it has: `checkout`
(repository and commit), `nosha`, `norepo`, `bare`.

A request must carry the token of the job's current lease, or the store refuses
it, so an action of a Runner on a job is a request under the current lease
(`Holds`). Recovery handles the expired jobs of a run one after another in the
order of their deadlines; `RecoveredJobs` is the result of that loop, with the
order abstracted to the set `late` of assigned jobs that come after the last
running one. Each heartbeat overwrites the capacity, labels and platform of its
Runner with what it announces, one of `Descriptors`: a Runner that was restarted
with a smaller capacity may hold more live leases than that, and is offered
nothing until they end. `ReleaseRunnerJob` returns a job whose checkout
credential could not be issued, so only a job with a source. Recovery of several runs in one transaction is a sequence of these
steps. Authorization of cancel and rerun is abstracted to the project binding
it requires (`kind`). `waiting_approval` is a status no code writes.

### CommitStatusOutbox

The rows `<run>:pending` and `<run>:final`, their leases, attempts, backoff and
expiry; the workers as small state machines (`claimed`, `found`, `ok`, `failed`,
`invalid`) that hold no transaction while they talk to the provider; and the
provider: GitHub shows the status that was posted last, Gitee has checks that a
worker looks up and then updates or creates. A request that fails may have been
applied; a request that takes effect does so before its worker gives it up (one
that a network holds back beyond the deadline of its sender is not modelled).
`ready` is the sequence of rows in the order of `available_at`, which the claim
follows. Attempts are limited by the CHECK of the table (`AttemptLimit`, 100 in
the code), at which the claim itself fails. A worker whose lease has lapsed may
post its status once more after another has recorded the delivery; what the
store promises is that the row stays delivered (`DeliveredStays`).

### WebhookInbox

The rows of `webhook_deliveries`, the workers with the orchestrator's steps
(read the settings, fetch and compile, commit), the run each delivery created
and the settings in force. Signatures, parsing and normalization are abstracted
to the event that results; a pull request of another repository is a member of
`Forks`. The lease id of a claim is represented by the attempt number, since
both are new at every claim. For Gitee, the commit checks the settings again
(`lockGiteeDelivery`); for GitHub it does not.

### WorkStream and JobPromise

The two ends of the Work stream over the rows of RunQueue, which it instances:
its transactions on jobs are RunQueue's actions. On the Runner, `active` is the
map of local jobs (phase, lease token, `authorityLost`, pending log chunk),
`executing` the goroutines in `executeJob`, `results` and `losses` the channels
of these names, and each event of the `select` of `runSession` is an action
(`Receive`, `HandleResult`, `SendHeartbeat`, `SendLog`, `HandleLoss`). On the
server `handler` is where `Work` stands, with one action per transaction:
`Serve` (heartbeat, accepted, started, completed, log), then `Claim` and
`IssueCredential` as often as the heartbeat has room. `requests` and
`responses` are the FIFO directions of the stream. `Disconnect` breaks it, the
server notices later (`OrphanEnds`), and until then refuses a second session.
A token is the number of the claim that wrote it, so an old one is told from a
new one; the handler carries the job and the token it assigns from the claim to
the credential and into the message, whatever happens to the row in between. The
two clocks are not compared: a local deadline and the store's may pass in any
order, and an assignment may have expired when it arrives (`AssignmentExpired`).
A Runner announces the same capabilities in every session here; RunQueue has the
ones that change.

A log is a sequence of chunks, each with one of three bodies: `data`, `fills`
(the chunk with which the bytes allowed are used up) and `marker`, the empty
chunk with the flag `Truncated` that the Runner makes once, at the limit of bytes
or chunks, before it throws the rest away (`cut`). The store takes a chunk that follows the
last one, only a marker once the bytes are used up, and nothing after a marker
(`Appendable`). The log of a job may expire (`LogExpires`, seven days
after its creation), after which the server ends the stream at each of its chunks.

`JobPromise` is the abstract specification: commands are begun at most once and
a job counts as succeeded only after they ran to the end. `KeepsPromise` is the
refinement, with the verdict mapped from the job row and the histories `begun`
and `ran` kept by the executor.

### RunnerPKI and RunnerIdentity

`RunnerPKI` has the eight files `InitializePKI` writes one after the other, each
marked with the ceremony that wrote it, a command that fails (its deferred
removal runs) or dies (it does not), and the checks of `LoadPKI`, which may run
at any time, also while a ceremony writes. It reads its five files in one step;
the code reads one after the other.
`RunnerIdentity` extends it with one Runner: the registration token, its row and
certificates, calls that the server may apply after the Runner gave them up, and
the state directory with its two siblings, `-next-` and `-previous-`. Each file
operation of `replaceCredentials` is an action, and the process may die or fail
before each. A rotation keeps the key of its request in the directory
(`Pending`) before it sends it, and the store answers the same request again
with the replacement that exists (`Repeated`), unless the certificate that asks
has been revoked.

### Policy, Login and Connections

`Policy` is `authorization.Allowed` as operators over roles, scopes and actions.
`Login` has the browsers with their three cookies, and the rows of sessions,
flows, configurations, setup codes, identities and memberships. A login is
`BeginOAuth` or `BeginManagedOAuth`, `ConsumeOAuth` in the callback and
`FinishOAuth` after the provider has said who the person is; logging out,
suspension, membership edits and other configurations run in between. The start
of a login stores its flow and may then refuse the request, because the
configuration in force is of another provider, without giving the browser the
cookie (`InsertFlow`).

`Connections` has one administrator and one project, of either provider. Every
operation takes a snapshot, asks the provider and then compares the snapshot in
a second transaction; the snapshots are the variables `saving`, `exchange`,
`importing` and `validator`. `worker` is where each use of the Gitee grant
stands in `Service.Access` (read, claim, refresh, complete), and `spent` the
last revision whose refresh token Gitee has exchanged. `seen` and `verified`
record what was really read from the provider, for `EvidenceGenuine`. The right
to manage a project's repository is abstracted to the rights of the one
administrator. A validation writes the rows as they are at its commit, where
GitHub's code writes the values it validated; the comparison before makes them
equal.

The two meet in the rights of the administrator and the login configuration in
force, which `Connections` changes freely (`RightsChange`, `LoginReplaced`).

### PipelinePlan and Redaction

`PipelinePlan` is the validation of one document as small steps: the graph of
the jobs of each stage and then that of the stages is searched for a cycle, with
`state` and the calls of `visit` that have not returned (`trail`), beginning
with any node, as Go ranges over a map. `JobKeys` and `Dependencies` are the
rows `insertRun` makes of the plan. The checks of single fields are one verdict
of the document, and the empty document stands for one without stages.
`PlanSound` says what order the graph must have without a transitive closure:
every non-empty set has a node that needs none of the set (`WellOrdered`), and a
row comes after another if it is in every set closed under dependencies
(`After`). On a finite graph these are the absence of cycles and reachability.
Names and documents are constants of any size.

`Redaction` is the filter between a step and its log. Every byte is a step, so
writes of any length are covered, and so is every round of the loop of `drain`
(`draining`). The pieces of the output refer to positions of the input, so that
it can be said what a marker stands for.

`MCControlPlane` checks these four modules together. They share no variable,
and a behaviour is followed in one of them.

### MC modules and proofs

The `MC` modules name the plans, pools, capacities and sets the configurations
use. The theorems are in `RunQueueProofs`, `CommitStatusProofs`,
`WebhookInboxProofs`, `WorkStreamProofs`, `RunnerIdentityProofs`, `LoginProofs`,
`ConnectionsProofs`, and `AlgorithmProofs` for `PipelinePlan` and `Redaction`.
Definitions named `Mutant...` are
plausible bugs of the definition below them: substituting one must break the
property `PROJECT.json` pairs it with.

## 3. Runs

| Run | Instance | Shows |
|---|---|---|
| `queue_join` | fair; 1 run, plan `build, lint -> ship`, 2 Runners, the first of which changes its labels and may be disabled, the second its capacity between 1 and 2 | `DependenciesRespected`, `VerdictSound`, `ResultsRecordable`, `CapacityRespected`, `StartedOnce`, `VerdictFinal`, `NoSilentTransfer`, `RunsConclude`, `TypeOK` |
| `queue_rerun` | 2 runs of a chain, all kinds, reruns of both modes, 2 Runners | `BlockedAwaitsWork`, `OpenRunHasWork`, `OutboxAgrees`, `IndInv` |
| `outbox_gitee` | fair; Gitee, 1 run, 1 worker, replay | `FinalShown`, `CheckInv` (which contains `TypeOK`), `StatusesSettle` |
| `outbox_race` | GitHub, 1 run, 2 workers | `LeasePaired`, `DeliveredStays` |
| `inbox` | fair; 1 delivery that arrives with the contents of a GitHub push, a Gitee push or a fork, 2 workers | `RunIffProcessed`, `NoForkRuns`, `AttemptsBounded`, `EndedOnce`, `NoStaleTrigger`, `DeliveriesSettle`, `IndInv` (which contains `TypeOK`) |
| `work_stream` | fair; 1 run `build -> test`, 1 Runner of capacity 1, 2 messages under way in each direction, a log of at most 2 chunks, 1 failure, 3 claims of a job | `ExecutionAuthorized`, `LogExact`, `KeepsPromise` (refinement), `JobsEnd` |
| `identity` | fair; 2 ceremonies, 3 certificates, 2 failures of disk, calls or processes | `PKIOneCeremony`, `RecoverableFromDisk`, `AcceptedLineage`, `RotationFinishes` |
| `control_plane` | logins: 2 browsers, 2 people, 3 flows, sessions and configurations; connections: 2 users of the grant, 2 Apps, 2 paths, 3 revisions; 1321 pipelines of up to 3 stages and 2 jobs in one of them; 2 secrets of up to 3 bytes and outputs of up to 6, over 2 bytes | `AdminRemains`, `SessionsBound`, `ConfigLineage`; `NoSpentToken`, `EvidenceGenuine`; `PlanSound`; `RedactionExact` |

Bounds. A join needs three jobs, and two Runners suffice for siblings that end
together and for a Runner that comes back after its job went to the other. Two
runs are enough for a rerun and for competition between runs: no transaction
reads more than one run besides the claim, which reads the order of two. A lease
of two ticks can be renewed between the ticks. Two attempts with a limit of
three let a row be retried, recovered beyond its retries, and stuck at the
limit; three attempts let both workers lose a delivery and recovery count the
last. Rows of different runs meet only in the order of claims, which is why one
run with its two rows suffices in the outbox; deliveries do not meet at all, and
the number of attempts of each is bounded. Symmetry of Runners is used in
`queue_rerun` and `queue_stranded`, and of browsers, people and users of the
grant in `control_plane`, which check safety only.

In `work_stream` two jobs, one after the other, are what it takes for a notice
about the first to stand in the way of one about the second; a failure is a
broken stream, a lost credential, a Runner that dies or a lease that lapses
although it was renewed. Two chunks are a log that is cut by its bytes, by its
number of chunks, or not at all, and one job that prints suffices, since logs of
different jobs do not meet. A behaviour in which a job waits for a fourth claim
has reached the bound, and `JobsEnd` says nothing of it (`Exhausted`). A stream
of two messages each way holds an answer of the session together with the
request it does not answer. In `identity` two failures are a lost answer and a
crash between two file operations, or one more during the repair, and three
certificates a rotation of a rotated certificate. In `control_plane` two people
suffice for reciprocal revocation and for a conflict of identities, three flows
for a login, a link and a verification that overlap, and three revisions of the
grant for a stale completion after a refresh and a new authorization. Three
stages have every graph with a path of two edges and every cycle through others,
and two jobs repeated names, unknown names and cycles. Six bytes hold two
secrets of full length, one after the other or overlapping.

Deadlock is not checked where the system may legitimately stop (everything
created is concluded, delivered or dead).

### What the runs show to differ from the documents

| Run | The code | The document |
|---|---|---|
| `queue_stranded` | an assigned job that expires after a running one of its run is queued in the failed run, where no claim looks | the loss of a running job skips the blocked and queued jobs of its run |
| `queue_manual` | a run with a project and no commit makes each claim of it fail, so it is never executed; being the oldest, it also holds up the runs behind it | manual runs remain compatible |
| `work_wedge` | a notice of a lost lease is dropped because the channel still holds one about a job already forgotten; the local job stays, and each reconnect sends its old transition, which the server refuses, ending the stream | a recovered connection reports its jobs and the server cancels those that expired |
| `outbox_final` | GitHub: a retried pending status replaces the final one for good | GitHub eventually receives the correct final status |

`findings` in `PROJECT.json` quotes the lines. Smaller differences show in the
definitions and have no run. A Runner that dies between the two renames of
`replaceCredentials` has no state directory; both pairs are beside it
(`RecoverableFromDisk`), but `LoadOrEnroll` looks only there, where the lease
recovery design (lines 92-93) says a crash leaves the previous or the new
complete pair; `Stranded` names this state, which differs from that between the
renames of a rotation that proceeds, together with that of a Runner that could
not remove the old directory and keeps the old pair in memory until it is
restarted. Both are exceptions of `RotationFinishes`. A registration whose answer is lost cannot be repeated, since the
name is taken. `LoadPKI` does not compare the issuer with the trust root;
`PKIOneCeremony` holds because a directory is written once. The commit
state of every failed run is `failure` (`CommitState`, `commit_status.go:34-41`).
The automatic CI design wants `error` for a missing or invalid pipeline (lines
124-125) and for the loss of a Runner or another failure that is not the user's
(lines 170-174); the code writes `error` for canceled runs only. `OutboxAgrees`
therefore relates the row to the status of the run and does not say that it tells
these failures apart. `JobsEnd` has two exceptions, in which the code leaves a
job unfinished: a dropped notice (`Unnoticed`, the state of `work_wedge`), and a
log that expired while a chunk was pending (`LogStuck`): the chunk is sent again
after every reconnect and ends the stream, and the heartbeat before it renews the
lease. Recovery moves a running run back to
`queued`, and a job may be completed while it is still assigned; the tables of
`internal/run/state.go` have neither move, but nothing outside their tests
consults them.

## 4. Fairness

- RunQueue. A connected Runner sends heartbeats and claims with each, oldest
  run first (weak fairness of `ClaimOldest`); recovery runs every five seconds on
  every server (weak fairness). A job that is offered again and again is in the
  end acknowledged and started (strong fairness: a lease may lapse first, any
  number of times). A running job ends, because the executor applies the plan's
  timeout or the Runner stops renewing.
- CommitStatusOutbox. Only time and recovery are fair; nothing is assumed of the
  workers or the provider. `StatusesSettle` then rests on the 24 hour expiry. In
  `outbox_final` the counterexample delivers everything and stays wrong.
- WebhookInbox. A worker polls when idle and each of its calls has a deadline
  (weak fairness of `ClaimWebhook` and `Work`, which includes crashing); time
  and recovery are fair.
- WorkStream. The Runner reconnects after every backoff, both ends read what
  arrives, and `select` takes an event that stays ready (weak fairness of
  `Receive`, `HandleResult`, `SendHeartbeat`, `SendLog` and the rest). Strong
  fairness is assumed of three actions: `Claim`, which skips locked rows;
  `HandleLoss`, whose notice outlasts the sessions that could take it; and the
  store's deadlines taken together, each of which passes unless it is renewed.
  The executor ends. Failures are never fair: `JobsEnd` speaks of what happens
  once they stop (`MaxFaults`).
- RunnerIdentity. The process is restarted and retries, the server answers
  (weak fairness). Time, administrators and failures are not fair.
- Login and Connections are checked for safety only: nothing there happens
  without a request of a person.

## 5. Proofs

Every theorem holds for all values of the constants that satisfy the named
assumptions of the modules: finite sets of keys and Runners, a plan over the
keys, natural capacities and bounds, secrets that are not empty, documents whose
stages and jobs have names, and constants such as `None` that are outside the
sets they are told from. Only the two theorems about Gitee's checks limit a
number, to one worker (`OneGiteeWorker`), because two can create a check each. The bounds on counters stay in
the guards, and as the theorems hold for every bound they say the same of
behaviours of any length.

Each module has one inductive invariant, a lemma for each action that it is
kept, and the properties as its consequences.

**RunQueue.** The properties are not inductive alone: that a blocked job waits
for an unfinished one survives a failure only because a failure skips every
blocked job in the same transaction, and that a late result is recordable needs
the verdict of the run, which needs the graph. `IndInv` is a conjunction per run
(`RunInv`): the order of the graph, *blocked beside no failure*
(`BlockedInOrder`), *skipped only for cause*, the rows of a plan inserted
together, the verdict, work left in open runs, agreement with the outbox, and
coherent leases. `Invariance` proves it with a lemma per action over the graph
operators (`Unblock`, `Skip`, `Completed`, `RecoveredJobs`); the safety
properties follow. `BlockedAwaitsWork` needs one more argument: a dependency of
a blocked job has not succeeded, and by `BlockedInOrder` it has not failed, been
canceled or skipped, so it is unfinished. `NeverRerun`, `VerdictsFinal` and
`NoTransfer` are action properties from the same invariant. So is
`CapacityHolds`: a step that gives a Runner a live lease it did not have leaves
it within the capacity it announced last. As an invariant this would be false,
since the next heartbeat may announce less.

**CommitStatusOutbox.** `RowInv` (types and the pairing of leases) holds for any
number of workers and either provider, and gives `DeliveredForGood`: a worker
whose lease was taken over may still post its status, but finishes or reschedules
only a row it owns. For Gitee
and a single worker (`OneGiteeWorker`), `CheckInv` adds what the worker knows:
the check it found is the newest, and what it reported is what is shown. A
pending report therefore finds a completed check completed, and
`FinalStatusShown` follows.

**WebhookInbox.** `IndInv` adds to the properties that a delivery waiting to be
claimed has attempts left, and that a busy worker's event is the one stored and
is not a fork once it is past the settings. `SettingsHonoured` speaks of
the events of Gitee, whose commit checks the settings again.

**WorkStream.** Whether an execution is authorized cannot be seen from the
Runner and the row alone: it depends on the messages under way. `WorkInv` says of
each place where a token can be (a local job, an execution, a result, a request,
an answer, the handler) what the row must say if the token is the current one
(`EntryOK`, `ExecutionOK`, `ResultOK`, `RequestOK`, `ResponseOK`, `HandlerOK`).
An answer `renewed` names a job and no token, so that it could be taken for the
answer to another transition. `ResponsesInOrder` and `RequestsInOrder` exclude
it: the answers of a session come in the order of its requests, a later
assignment of a job follows every renewal of an earlier one, and a Runner that
waits for its acceptance has at most one request or answer about it under way.
The requests that an earlier session left to its handler (`OrphanEnds`) need no
order, since their answers reach nobody. `StoreOK` relates the row to the
histories and the stored log. From `WorkInv` follow `ExecutionAlwaysAuthorized`
(which with one execution for each job is also that no work runs twice) and,
action by action, `PromiseKept`: each step of the stream is a step of `JobPromise` or
leaves what it speaks of unchanged. The store's own invariant is not needed
beyond types, so the theorems do not depend on the plan.

What the chunks hold is a second layer, `BodyInv`, on top of `WorkInv`: the rows
hold the bodies that were made under the same numbers, a marker is the last chunk
made, the Runner's buffer remembers the end of the log it made (`last`), and a
chunk under way is the one with its number. Since the Runner makes a marker once
and nothing after it, the store never refuses a chunk for its body, and
`LogAlwaysExact` follows for every limit (`LogLimit`, at least one chunk): the
log of a succeeded job is all that the Runner made of the output, and ends with
the marker exactly if some of the output was thrown away.

**RunnerPKI and RunnerIdentity.** `CeremonyInv`: files in the directory are of
the ceremony that made it, which gives `OneCeremony` although `LoadPKI` does not
compare them. `ChainInv`: each certificate replaced the one before, only the
newest is active, and one ages only when the grace of its predecessor is over;
hence `LineageHolds`. `RecoverableAlways` needs what the Runner has on disk
against what the server has issued (`HomeInv`): the state directory, or the one
moved aside while there is none, holds the newest certificate, or the one before
it together with the key of the request that the newest answers. Calls that the
Runner has given up may be applied later, so `CallInv` and `WaitInv` say what
they can still ask for, and `PlaceInv` what is in memory at each step of
`replaceCredentials`.

**Login.** `SessionsAlwaysBound` needs that a flow is handled in the browser that
holds its cookie (`CookieInv`, `FlowInv`) and that the flow of a session is used
up (`SpentInv`), so a session cannot be issued again from the same login.
`AdminAlwaysRemains` rests on the edit of a membership: its author is a live
administrator in the same transaction and not its subject. `LineageAlways` is an
action property: a configuration comes into force only if the one in force is
the one its author had seen.

**Connections.** `TokenUnspent`: of the revision in force at most the request
that holds the claim may have exchanged the token (`RefreshInv`); completion
compares the claim and the revision, so a late answer changes nothing. A request
that was refused for its rate is the only one that returns the same revision to
use, and it has not spent the token. `EvidenceHolds` needs that the snapshot of an
import names the App it was made with, as long as that was not saved again
(`ImportInv`).

**PipelinePlan.** The search is proved without induction over the graph. A set
is *tangled* if each of its nodes needs one of the set. No node of a tangled set
is ever visited, because what it needs is visited first; so when every node is
visited, the graph is well ordered. When the search meets a node that it is
visiting, its trail up to that node is tangled, so there is a cycle. The rows
keep the order of the stages because every stage has a job (`PlansSound`).

**Redaction.** A byte is copied only if every secret already differs from the
input that begins with it, in a byte that is there (`Cleared`): no byte written
later can make it the beginning of a secret. A secret in the input therefore
begins in a marker or in what is kept back (`RedactionAlwaysExact`). That the
longest of several secrets is chosen is not needed for this.

Only model-checked: the liveness properties `RunsConclude`, `StatusesSettle`,
`DeliveriesSettle`, `JobsEnd` and `RotationFinishes` (fairness and ENABLED are
outside the prover), and the counterexamples of section 3.

## 6. Plan

1. More from the invariants that are proved: that the rows of WorkStream keep
   the invariant of RunQueue, whose actions it takes, so that the order of the
   graph holds for what Runners execute.
2. **CompletionTx**: completion, recovery and cancellation at the level of
   statements and row locks, shown to implement the atomic actions of RunQueue;
   until then the locks (and the advisory lock of membership edits in Login) are
   taken as given.
3. The checkout broker with its budgets, and the in-memory store as a second implementation of RunQueue.
4. An abstract specification of a run (queued, running, verdict) that RunQueue
   implements; the composition of inbox, queue and outbox from event to final
   status.

## 7. Not modelled

Two parts that the plan has left. The checkout broker is a proxy between Git and
the provider that limits what passes. The in-memory store is the transactions of
RunQueue under one mutex, for development and tests. One difference can be read
in it and was not checked: its claim looks at every queued job whatever the
status of its run and sets the run running, so the job that recovery leaves
queued in a failed run (`queue_stranded`) would be claimed there and reopen the
run.

Out of reach: the containers and files of the executor, HTTP and TLS,
cryptography, configuration and wiring, the web interface. Row-lock deadlocks (a
heartbeat against a cancellation) are resolved by PostgreSQL, which aborts one
transaction; the caller retries. `ClaimJob`, `StartJob` and `CompleteJob` of
`store.go` are called by tests only. The manual retry of dead-lettered deliveries
that the automatic CI design mentions has no code.
